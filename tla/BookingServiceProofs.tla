------------------------ MODULE BookingServiceProofs ------------------------
(***************************************************************************)
(* Theorems about BookingService, for any users, slots, rooms, hours and   *)
(* clients, any number of crashes and any moments.                         *)
(*                                                                         *)
(* A step of the service is a step of Bookings, or none, so that whatever  *)
(* BookingsProofs proves holds of it; what the lists say follows because   *)
(* what an answer told a client is never taken back (World).               *)
(***************************************************************************)
EXTENDS BookingService, BookingsProofs

-----------------------------------------------------------------------------
(* The inductive invariant.                                                *)

(* A slot is a half hour of the hours of its room.                         *)
OnHours(s) ==
    \E day \in Nat :
        /\ Calendar!Weekday(day) \in hours[RowOf[s].room].days
        /\ \E x \in Calendar!DaySlots(hours[RowOf[s].room], day) :
              RowOf[s].startAt = x.startAt /\ RowOf[s].endAt = x.endAt

CalendarInv ==
    /\ rooms \subseteq Rooms
    /\ hours \in [Rooms -> Hours \cup {Calendar!Closed}]
    /\ \A s \in slots : OnHours(s)
    /\ \A s, t \in slots : RowOf[s].room = RowOf[t].room /\ StartAt[s] = StartAt[t] => s = t

(* Only slots are booked, and only who was asked to cancels.               *)
TableInv ==
    \A b \in Requests :
        /\ Stored(b) => bookings[b].slotId \in slots
        /\ bookings[b].status = "cancelled" => CancelAsked(b)

CallOfSlots == [step : {"getRoom", "listSlots", "done"}, room : Rooms,
                day : 0 .. LastDay, heard : SUBSET Requests]
CallOfMine  == [step : {"listMine", "done"}, user : Users, at : Nat, heard : SUBSET Requests]
CallOfRooms == [step : {"listRooms", "done"}]
CallOfRoom  == [step : {"insertRoom", "done"}]
CallRefused == [step : {"done"}, refused : {"Forbidden", "InvalidRequest"}]
Call == CallOfSlots \cup CallOfMine \cup CallOfRooms \cup CallOfRoom \cup CallRefused \cup {Idle}

(* What an offer of slots says of the slots, and of an answer heard.       *)
OfferIsFit(c) ==
    \A s \in reply[c].rows :
        s \in slots /\ RowOf[s].room = call[c].room /\ StartsOn(s, call[c].day)

OfferRespects(c, r) ==
    /\ result[r] = "Created" /\ req[r].slot \in reply[c].rows => CancelAsked(r)
    /\ result[r] = "Cancelled" =>
        LET s == bookings[req[r].target].slotId IN
        \/ s \in reply[c].rows
        \/ RowOf[s].room # call[c].room \/ ~StartsOn(s, call[c].day)
        \/ \E b \in Requests : /\ b # req[r].target
                               /\ bookings[b] # NoBooking /\ bookings[b].slotId = s

(* The same for a list of one's bookings.                                  *)
MineShow(c, r) ==
    result[r] = "Created" /\ req[r].user = call[c].user /\ StartAt[req[r].slot] >= call[c].at
    => \E row \in reply[c].rows : row.id = r /\ (row.status = "active" \/ CancelAsked(r))

MineAreMine(c) ==
    \A row \in reply[c].rows :
        row.id \in Requests /\ Stored(row.id) /\ bookings[row.id].userId = call[c].user

Told(c) ==
    /\ reply[c].code = "OK" => call[c].step = "done"
    /\ "heard" \in DOMAIN call[c] => call[c].heard \subseteq Heard
    /\ Offers(c) => OfferIsFit(c) /\ \A r \in call[c].heard : OfferRespects(c, r)
    /\ IsShown(c) => MineAreMine(c) /\ \A r \in call[c].heard : MineShow(c, r)

ClientInv ==
    /\ call \in [Clients -> Call]
    /\ reply = [c \in Clients |-> reply[c]]
    /\ \A c \in Clients : Told(c)

ServiceInv == Inv /\ CalendarInv /\ TableInv /\ ClientInv

-----------------------------------------------------------------------------
(* The bookings of the service are those of Bookings.                      *)

(* Each of its steps is one of theirs, or leaves them alone.               *)
LEMMA BookingsStep ==
    ASSUME Inv, [ServiceNext]_serviceVars
    PROVE  [Next]_vars
  <1>1. CASE BookingStep
    BY <1>1 DEF BookingStep, Next
  <1>2. ASSUME NEW c \in Clients, ClientStep(c)
        PROVE  UNCHANGED vars
    BY <1>2 DEF ClientStep, ListAvailable, ListMy, CreateRoom, ListRooms, Asks, GetRoom,
                ListSlots, ListByUserFuture, SelectRooms, InsertRoom, CallFails
  <1>3. ASSUME NEW room \in Rooms, LateRoom(room) \/ \E sch \in Hours : SetHours(room, sch)
        PROVE  UNCHANGED vars
    BY <1>3 DEF LateRoom, SetHours
  <1>4. ASSUME NEW s \in Slots, CutSlot(s)
        PROVE  Next
    BY <1>4 DEF CutSlot, Next
  <1>5. CASE TimePasses
    <2>1. PICK t \in Moments : t > now /\ now' = t
      BY <1>5 DEF TimePasses
    <2>2. t \in now + 1 .. MaxTime
      BY <2>1, ServiceAssumption, ConstantsAssumption DEF Inv, TypeOK
    <2> QED BY <1>5, <2>1, <2>2 DEF TimePasses, Tick, Next
  <1>6. CASE ServiceCrash
    BY <1>6 DEF ServiceCrash, Next
  <1>7. CASE UNCHANGED serviceVars
    BY <1>7 DEF serviceVars
  <1> QED BY <1>1, <1>2, <1>3, <1>4, <1>5, <1>6, <1>7 DEF ServiceNext

(* Composed with the calendar and its clients, Bookings behaves as alone.  *)
THEOREM ServiceIsBookings == ServiceSpec => Spec
  <1>1. ServiceInit => Init
    BY DEF ServiceInit
  <1>2. Inv /\ [ServiceNext]_serviceVars => [Next]_vars
    BY BookingsStep
  <1>3. Inv /\ [ServiceNext]_serviceVars => Inv'
    BY <1>2, InvStep
  <1> QED BY <1>1, <1>2, <1>3, InvInit, PTL DEF ServiceSpec, Spec

-----------------------------------------------------------------------------
(* What stays.                                                             *)

(* A request asks one thing, gets one answer, and no slot is deleted.      *)
AnswersStay ==
    /\ slots \subseteq slots'
    /\ \A r \in Requests :
          /\ pc[r] # "idle" => pc'[r] # "idle" /\ req'[r] = req[r]
          /\ pc[r] = "done" => pc'[r] = "done" /\ result'[r] = result[r]

(* No action of Bookings does otherwise.                                   *)
LEMMA AnswersStep ==
    ASSUME Inv, [Next]_vars
    PROVE  AnswersStay
  <1> USE DEF Inv, TypeOK, AtService, AnswersStay
  <1>1. ASSUME NEW r \in Requests, NEW u \in Users, NEW s \in Slots,
               NEW link \in BOOLEAN, CreateHandler(r, u, s, link)
        PROVE  AnswersStay
    BY <1>1 DEF CreateHandler, Answer, Proceed
  <1>2. ASSUME NEW r \in Requests, NEW u \in Users, NEW b \in Requests,
               CancelHandler(r, u, b)
        PROVE  AnswersStay
    BY <1>2 DEF CancelHandler, Answer, Proceed
  <1>3. ASSUME NEW r \in Requests, GetSlot(r)
        PROVE  AnswersStay
    BY <1>3 DEF GetSlot, Answer, Proceed
  <1>4. ASSUME NEW r \in Requests, CreateLink(r)
        PROVE  AnswersStay
    BY <1>4 DEF CreateLink, Answer, Proceed
  <1>5. ASSUME NEW r \in Requests, Insert(r)
        PROVE  AnswersStay
    BY <1>5 DEF Insert, Answer, FailCreate
  <1>6. ASSUME NEW r \in Requests, InsertAbandoned(r)
        PROVE  AnswersStay
    BY <1>6 DEF InsertAbandoned, FailCreate
  <1>7. ASSUME NEW r \in Requests, DeleteLink(r)
        PROVE  AnswersStay
    BY <1>7 DEF DeleteLink, Answer, Proceed
  <1>8. ASSUME NEW r \in Requests, GetBooking(r)
        PROVE  AnswersStay
    BY <1>8 DEF GetBooking, Answer, Proceed
  <1>9. ASSUME NEW r \in Requests, Update(r)
        PROVE  AnswersStay
    BY <1>9 DEF Update, Answer
  <1>10. ASSUME NEW r \in Requests, UpdateAbandoned(r)
        PROVE  AnswersStay
    BY <1>10 DEF UpdateAbandoned, Answer
  <1>11. ASSUME NEW r \in Requests, ApplyLate(r)
        PROVE  AnswersStay
    BY <1>11 DEF ApplyLate
  <1>12. ASSUME NEW r \in Requests, DropLate(r)
        PROVE  AnswersStay
    BY <1>12 DEF DropLate
  <1>13. CASE Crash
    BY <1>13 DEF Crash
  <1>14. ASSUME NEW s \in Slots, SlotAppears(s)
        PROVE  AnswersStay
    BY <1>14 DEF SlotAppears
  <1>15. CASE Tick
    BY <1>15 DEF Tick
  <1>16. CASE UNCHANGED vars
    BY <1>16 DEF vars
  <1> QED
    BY <1>1, <1>2, <1>3, <1>4, <1>5, <1>6, <1>7, <1>8, <1>9, <1>10,
       <1>11, <1>12, <1>13, <1>14, <1>15, <1>16
       DEF Next, Handle, Quiescent

(* What a client may know of the world remains true.                       *)
World ==
    /\ slots \subseteq slots'
    /\ Heard \subseteq Heard'
    /\ \A r \in Heard : req'[r] = req[r] /\ result'[r] = result[r]
    /\ \A b \in Requests : Stored(b) =>
          /\ Stored(b)'
          /\ bookings'[b].slotId = bookings[b].slotId
          /\ bookings'[b].userId = bookings[b].userId
    /\ \A b \in Requests : CancelAsked(b) => CancelAsked(b)'

(* Every step of Bookings leaves it so.                                    *)
LEMMA WorldStep ==
    ASSUME Inv, [Next]_vars
    PROVE  World
  <1>1. AnswersStay
    BY AnswersStep
  <1>2. slots \subseteq slots' /\ Heard \subseteq Heard'
    BY <1>1 DEF AnswersStay, Heard
  <1>3. \A r \in Heard : req'[r] = req[r] /\ result'[r] = result[r]
    BY <1>1 DEF AnswersStay, Heard
  <1>4. ASSUME NEW b \in Requests, Stored(b)
        PROVE  /\ Stored(b)'
               /\ bookings'[b].slotId = bookings[b].slotId
               /\ bookings'[b].userId = bookings[b].userId
    BY <1>4, TableStep, RowsKept
  <1>5. ASSUME NEW b \in Requests, CancelAsked(b)
        PROVE  CancelAsked(b)'
    <2>1. PICK r \in Requests : req[r].op = "cancel" /\ req[r].target = b
      BY <1>5 DEF CancelAsked
    <2>2. pc[r] # "idle"
      BY <2>1 DEF Inv, ControlInv
    <2>3. req'[r] = req[r]
      BY <1>1, <2>2 DEF AnswersStay
    <2> QED BY <2>1, <2>3 DEF CancelAsked
  <1> QED BY <1>2, <1>3, <1>4, <1>5 DEF World

(* Bookings are of slots, and cancelled when asked.                        *)
LEMMA TableInvStep ==
    ASSUME Inv, TableInv, [Next]_vars
    PROVE  TableInv'
  <1>1. TableChange /\ World
    BY TableStep, WorldStep
  <1> SUFFICES ASSUME NEW b \in Requests
               PROVE  /\ Stored(b)' => bookings'[b].slotId \in slots'
                      /\ bookings'[b].status = "cancelled" => CancelAsked(b)'
    BY DEF TableInv
  <1>2. CASE bookings'[b] = bookings[b]
    BY <1>1, <1>2 DEF TableInv, World, Stored
  <1>3. ASSUME NEW r \in Requests, Insertion(r), bookings'[b] # bookings[b]
        PROVE  /\ bookings'[b].slotId \in slots'
               /\ bookings'[b].status = "active"
    <2>1. /\ req[r].slot \in slots /\ slots \subseteq slots' /\ b = r
          /\ bookings'[r] = [slotId |-> req[r].slot, userId |-> req[r].user,
                status |-> "active", link |-> req[r].link, createdAt |-> now, updatedAt |-> now]
      BY <1>1, <1>3 DEF Insertion, InsertRow, World, Inv, TypeOK
    <2> QED BY <2>1
  <1>4. ASSUME NEW r \in Requests, Cancellation(r), bookings'[b] # bookings[b]
        PROVE  /\ bookings'[b].slotId \in slots'
               /\ CancelAsked(b)'
    <2>1. b = req[r].target /\ req[r].op = "cancel" /\ Stored(b)
      BY <1>4 DEF Cancellation, CancelRow, Inv, TypeOK
    <2>2. CancelAsked(b)
      BY <2>1 DEF CancelAsked
    <2> QED BY <1>1, <2>1, <2>2 DEF TableInv, World
  <1> QED BY <1>1, <1>2, <1>3, <1>4 DEF TableChange

(* So what a client was told remains true while it does nothing.           *)
LEMMA ToldStays ==
    ASSUME Inv, World, NEW c \in Clients, call[c] \in Call, Told(c),
           call'[c] = call[c], reply'[c] = reply[c]
    PROVE  Told(c)'
  <1>1. "heard" \in DOMAIN call[c] => call[c].heard \subseteq Heard /\ call[c].heard \subseteq Heard'
    BY DEF Told, World
  <1>2. ASSUME Offers(c)
        PROVE  OfferIsFit(c)'
    BY <1>2 DEF Told, OfferIsFit, World, StartsOn
  <1>3. ASSUME NEW r \in Requests, r \in Heard, OfferRespects(c, r)
        PROVE  OfferRespects(c, r)'
    <2>1. req'[r] = req[r] /\ result'[r] = result[r]
      BY <1>3 DEF World
    <2>2. result[r] = "Created" /\ req[r].slot \in reply[c].rows => CancelAsked(r)'
      BY <1>3 DEF OfferRespects, World
    <2>3. ASSUME result[r] = "Cancelled"
          PROVE  LET s == bookings'[req[r].target].slotId IN
                 \/ s \in reply[c].rows
                 \/ RowOf[s].room # call[c].room \/ ~StartsOn(s, call[c].day)
                 \/ \E b \in Requests : /\ b # req[r].target
                                        /\ bookings'[b] # NoBooking /\ bookings'[b].slotId = s
      <3>1. req[r].target \in Requests /\ Stored(req[r].target)
        BY <2>3, Fields DEF Inv, ControlInv, CancelInv
      <3>2. bookings'[req[r].target].slotId = bookings[req[r].target].slotId
        BY <3>1 DEF World
      <3>3. \A b \in Requests : bookings[b] # NoBooking =>
                bookings'[b] # NoBooking /\ bookings'[b].slotId = bookings[b].slotId
        BY DEF World, Stored
      <3> QED BY <1>3, <2>3, <3>2, <3>3 DEF OfferRespects
    <2> QED BY <2>1, <2>2, <2>3 DEF OfferRespects, StartsOn
  <1>4. ASSUME IsShown(c)
        PROVE  MineAreMine(c)'
    BY <1>4 DEF Told, MineAreMine, World
  <1>5. ASSUME NEW r \in Requests, r \in Heard, MineShow(c, r)
        PROVE  MineShow(c, r)'
    BY <1>5 DEF MineShow, World
  <1>6. Heard \subseteq Requests
    BY DEF Heard
  <1>7. Offers(c)' = Offers(c) /\ IsShown(c)' = IsShown(c)
    BY DEF Offers, IsShown
  <1>8. (Offers(c) => "heard" \in DOMAIN call[c]) /\ (IsShown(c) => "heard" \in DOMAIN call[c])
    BY DEF Offers, IsShown, Call, CallOfSlots, CallOfMine, CallOfRooms, CallOfRoom, CallRefused, Idle
  <1> QED BY <1>1, <1>2, <1>3, <1>4, <1>5, <1>6, <1>7, <1>8 DEF Told
-----------------------------------------------------------------------------
(* The calendar.                                                           *)

(* A slot of a day is half an hour, within the day, on a half hour of the  *)
(* hours.                                                                  *)
LEMMA SlotShape ==
    ASSUME NEW sch \in Hours, NEW day \in Nat, NEW x \in Calendar!DaySlots(sch, day)
    PROVE  /\ sch.start \in Nat /\ x.startAt \in Nat
           /\ x = [startAt |-> x.startAt, endAt |-> x.startAt + 30]
           /\ x.startAt >= day * 1440 /\ x.startAt < (day + 1) * 1440
           /\ \E k \in Nat : x.startAt = day * 1440 + sch.start + k * 30
  <1>1. PICK k \in {k \in 0 .. Calendar!SlotsPerDay - 1 :
                        sch.start + (k + 1) * Calendar!SlotMinutes <= sch.end} :
            x = Calendar!Slot(day * Calendar!DayMinutes + sch.start + k * Calendar!SlotMinutes)
    BY DEF Calendar!DaySlots
  <1>2. sch.start \in 0 .. Calendar!DayMinutes - 1 /\ sch.end \in 0 .. Calendar!DayMinutes - 1
    BY HoursAssumption
  <1>3. \A minute \in 0 .. Calendar!DayMinutes - 1 : minute \in Nat /\ minute < 1440
    BY DEF Calendar!DayMinutes
  <1>4. sch.start \in Nat /\ sch.end \in Nat /\ sch.end < 1440
    BY <1>2, <1>3
  <1>6. k \in Nat
    BY <1>1 DEF Calendar!SlotsPerDay, Calendar!DayMinutes, Calendar!SlotMinutes
  <1>7. sch.start + (k + 1) * 30 <= sch.end
    BY <1>1 DEF Calendar!SlotMinutes
  <1>5. x = [startAt |-> day * 1440 + sch.start + k * 30,
             endAt |-> day * 1440 + sch.start + k * 30 + 30]
    BY <1>1 DEF Calendar!Slot, Calendar!DayMinutes, Calendar!SlotMinutes
  <1>8. x.startAt = day * 1440 + sch.start + k * 30 /\ x.endAt = x.startAt + 30
    BY <1>5
  <1>9. x.startAt >= day * 1440 /\ x.startAt < (day + 1) * 1440 /\ x.startAt \in Nat
    BY <1>4, <1>6, <1>7, <1>8
  <1> QED BY <1>4, <1>5, <1>6, <1>8, <1>9

(* A room that has slots has hours.                                        *)
LEMMA OpenHours ==
    ASSUME CalendarInv, NEW s \in Slots, OnHours(s)
    PROVE  hours[RowOf[s].room] \in Hours /\ hours[RowOf[s].room] # Calendar!Closed
  <1>1. RowOf[s].room \in Rooms
    BY ServiceAssumption
  <1>2. hours[RowOf[s].room].days # {}
    BY DEF OnHours
  <1> QED BY <1>1, <1>2 DEF CalendarInv, Calendar!Closed

(* No two slots of a room overlap.                                         *)
LEMMA SlotsApart ==
    ASSUME CalendarInv, NEW s \in slots, NEW t \in slots, slots \subseteq Slots,
           RowOf[s].room = RowOf[t].room, Calendar!Overlap(RowOf[s], RowOf[t])
    PROVE  s = t
  <1>1. PICK d \in Nat : \E x \in Calendar!DaySlots(hours[RowOf[s].room], d) :
            RowOf[s].startAt = x.startAt /\ RowOf[s].endAt = x.endAt
    BY DEF CalendarInv, OnHours
  <1>2. PICK x \in Calendar!DaySlots(hours[RowOf[s].room], d) :
            RowOf[s].startAt = x.startAt /\ RowOf[s].endAt = x.endAt
    BY <1>1
  <1>3. PICK e \in Nat : \E y \in Calendar!DaySlots(hours[RowOf[s].room], e) :
            RowOf[t].startAt = y.startAt /\ RowOf[t].endAt = y.endAt
    BY DEF CalendarInv, OnHours
  <1>4. PICK y \in Calendar!DaySlots(hours[RowOf[s].room], e) :
            RowOf[t].startAt = y.startAt /\ RowOf[t].endAt = y.endAt
    BY <1>3
  <1>5. hours[RowOf[s].room] \in Hours
    BY OpenHours DEF CalendarInv
  <1> DEFINE start == hours[RowOf[s].room].start
  <1>6. /\ start \in Nat /\ x.startAt \in Nat /\ x.endAt = x.startAt + 30
        /\ \E k \in Nat : x.startAt = d * 1440 + start + k * 30
    BY <1>5, SlotShape
  <1>7. /\ y.startAt \in Nat /\ y.endAt = y.startAt + 30
        /\ \E k \in Nat : y.startAt = e * 1440 + start + k * 30
    BY <1>5, SlotShape
  <1>8. x.startAt < y.endAt /\ y.startAt < x.endAt
    BY <1>2, <1>4 DEF Calendar!Overlap
  <1> HIDE DEF start
  <1>9. x.startAt = y.startAt
    <2>1. PICK j \in Nat : x.startAt = d * 1440 + start + j * 30
      BY <1>6
    <2>2. PICK k \in Nat : y.startAt = e * 1440 + start + k * 30
      BY <1>7
    <2>3. (d * 48 + j) - (e * 48 + k) < 1 /\ (e * 48 + k) - (d * 48 + j) < 1
      BY <1>6, <1>7, <1>8, <2>1, <2>2
    <2> QED BY <1>6, <2>1, <2>2, <2>3
  <1> QED BY <1>2, <1>4, <1>9, ServiceAssumption DEF CalendarInv

(* Steps that leave hours and slots alone.                                 *)
LEMMA CalendarRests ==
    ASSUME CalendarInv, UNCHANGED <<hours, slots>>, rooms' \subseteq Rooms
    PROVE  CalendarInv'
  <1>1. \A s : OnHours(s) => OnHours(s)'
    BY DEF OnHours
  <1> QED BY <1>1 DEF CalendarInv

(* Hours are set once, slots are cut from them and nothing else changes.   *)
LEMMA CalendarStep ==
    ASSUME Inv, CalendarInv, [ServiceNext]_serviceVars
    PROVE  CalendarInv'
  <1> USE DEF Calendar!vars
  <1>0. slots \subseteq Slots /\ rooms \subseteq Rooms
    BY DEF Inv, TypeOK, CalendarInv
  <1>1. CASE BookingStep
    <2>1. UNCHANGED slots
      BY <1>1 DEF BookingStep, CreateHandler, CancelHandler, Handle, GetSlot, CreateLink, Insert,
                  DeleteLink, GetBooking, Update, InsertAbandoned, UpdateAbandoned, ApplyLate, DropLate
    <2> QED BY <1>0, <1>1, <2>1, CalendarRests DEF BookingStep, calendarVars
  <1>2. ASSUME NEW c \in Clients, ClientStep(c)
        PROVE  UNCHANGED <<hours, slots>> /\ rooms' \subseteq Rooms
    <2>1. CASE InsertRoom(c)
      BY <1>0, <2>1 DEF InsertRoom, Calendar!OpenRoom, vars
    <2>2. CASE ~InsertRoom(c)
      BY <1>0, <1>2, <2>2 DEF ClientStep, ListAvailable, ListMy, CreateRoom, ListRooms, Asks, GetRoom,
                ListSlots, ListByUserFuture, SelectRooms, CallFails, calendarVars, vars
    <2> QED BY <2>1, <2>2
  <1>3. ASSUME NEW room \in Rooms, LateRoom(room)
        PROVE  UNCHANGED <<hours, slots>> /\ rooms' \subseteq Rooms
    BY <1>0, <1>3 DEF LateRoom, Calendar!OpenRoom, calendarVars, vars
  <1>4. ASSUME NEW room \in Rooms, NEW sch \in Hours, SetHours(room, sch)
        PROVE  CalendarInv'
    <2>1. /\ hours[room] = Calendar!Closed /\ hours' = [hours EXCEPT ![room] = sch]
          /\ rooms' = rooms /\ slots' = slots
      BY <1>4 DEF SetHours, Calendar!SetHours, vars
    <2>2. \A s \in slots : RowOf[s].room \in Rooms /\ RowOf[s].room # room
      BY <1>0, <2>1, OpenHours, ServiceAssumption DEF CalendarInv
    <2>3. \A s \in slots : hours'[RowOf[s].room] = hours[RowOf[s].room]
      BY <2>1, <2>2 DEF CalendarInv
    <2>4. \A s \in slots : OnHours(s)'
      BY <2>3 DEF CalendarInv, OnHours
    <2> QED BY <2>1, <2>4 DEF CalendarInv
  <1>5. ASSUME NEW s \in Slots, CutSlot(s)
        PROVE  CalendarInv'
    <2> DEFINE day == StartAt[s] \div Calendar!DayMinutes
               rows == {RowOf[t] : t \in slots}
               room == RowOf[s].room
    <2>1. slots' = slots \cup {s} /\ Calendar!CutSlot(room, day)
      BY <1>5 DEF CutSlot, SlotAppears
    <2>2. day \in Nat
      BY ConstantsAssumption DEF Calendar!DayMinutes
    <2>3. /\ {RowOf[t] : t \in slots'} # rows /\ hours' = hours /\ rooms' = rooms
          /\ Calendar!Weekday(day) \in hours[room].days
      BY <2>1 DEF Calendar!CutSlot
    <2>4. PICK x \in Calendar!DaySlots(hours[room], day) :
              /\ \A u \in rows : u.room = room => u.startAt # x.startAt
              /\ \E w \in {RowOf[t].by : t \in Slots} :
                    {RowOf[t] : t \in slots'} = rows \cup {Calendar!SlotRow(room, x, w)}
      BY <2>1 DEF Calendar!CutSlot
    <2>5. PICK w : {RowOf[t] : t \in slots'} = rows \cup {Calendar!SlotRow(room, x, w)}
      BY <2>4
    <2>6. RowOf[s] = Calendar!SlotRow(room, x, w)
      <3>1. RowOf[s] \in {RowOf[t] : t \in slots'}
        BY <2>1
      <3>2. RowOf[s] \notin rows
        BY <2>1, <2>3
      <3> QED BY <2>5, <3>1, <3>2
    <2>7. RowOf[s].startAt = x.startAt /\ RowOf[s].endAt = x.endAt
      BY <2>6 DEF Calendar!SlotRow
    <2>8. OnHours(s)
      BY <2>2, <2>3, <2>7 DEF OnHours
    <2>9. \A t \in slots : RowOf[t].room = room => StartAt[t] # StartAt[s]
      BY <1>0, <2>4, <2>7, ServiceAssumption
    <2>10. \A t \in slots' : OnHours(t)'
      BY <2>1, <2>3, <2>8 DEF OnHours, CalendarInv
    <2> QED BY <2>1, <2>3, <2>9, <2>10 DEF CalendarInv
  <1>6. CASE TimePasses \/ ServiceCrash \/ UNCHANGED serviceVars
    <2>1. UNCHANGED <<hours, slots, rooms>>
      BY <1>6 DEF TimePasses, ServiceCrash, Crash, serviceVars, calendarVars, vars
    <2> QED BY <1>0, <2>1, CalendarRests
  <1> QED BY <1>1, <1>2, <1>3, <1>4, <1>5, <1>6, CalendarRests DEF ServiceNext

-----------------------------------------------------------------------------
(* The clients.                                                            *)

(* The fields that a call has, by its step.                                *)
LEMMA CallShape ==
    ASSUME NEW a \in Call
    PROVE  /\ a.step \in {"getRoom", "listSlots"} => a \in CallOfSlots
           /\ a.step = "listMine" => a \in CallOfMine
           /\ a.step = "listRooms" => a \in CallOfRooms
           /\ a.step = "insertRoom" => a \in CallOfRoom
           /\ "day" \in DOMAIN a <=> a \in CallOfSlots
           /\ "user" \in DOMAIN a <=> a \in CallOfMine
           /\ "heard" \in DOMAIN a <=> a \in CallOfSlots \/ a \in CallOfMine
  BY DEF Call, CallOfSlots, CallOfMine, CallOfRooms, CallOfRoom, CallRefused, Idle

(* A call goes on, and ends, with the fields it began with.                *)
LEMMA CallGoesOn ==
    ASSUME NEW a \in Call, NEW next,
           next = "done" \/ (next = "listSlots" /\ a.step = "getRoom"),
           a.step \notin {"idle"}
    PROVE  LET b == [a EXCEPT !.step = next]
           IN  /\ b \in Call
               /\ a \in CallOfSlots => b \in CallOfSlots /\ b.heard = a.heard /\ b.room = a.room
                                       /\ b.day = a.day
               /\ a \in CallOfMine => b \in CallOfMine /\ b.heard = a.heard /\ b.user = a.user
                                      /\ b.at = a.at
               /\ a \in CallOfRooms \cup CallOfRoom => b \notin CallOfSlots \cup CallOfMine
  BY DEF Call, CallOfSlots, CallOfMine, CallOfRooms, CallOfRoom, CallRefused, Idle

(* No client makes a step.                                                 *)
LEMMA ClientsRest ==
    ASSUME Inv, World, ClientInv, call' = call, reply' = reply
    PROVE  ClientInv'
  <1>1. \A c \in Clients : Told(c)'
    BY ToldStays DEF ClientInv
  <1> QED BY <1>1 DEF ClientInv

(* One client makes a step, and is told the truth.                         *)
LEMMA ClientMoves ==
    ASSUME Inv, World, ClientInv, NEW c \in Clients, NEW a \in Call, NEW answer,
           call' = [call EXCEPT ![c] = a], reply' = [reply EXCEPT ![c] = answer],
           Told(c)'
    PROVE  ClientInv'
  <1>1. \A d \in Clients \ {c} : Told(d)'
    BY ToldStays DEF ClientInv
  <1>2. call' \in [Clients -> Call] /\ reply' = [d \in Clients |-> reply'[d]]
    BY DEF ClientInv
  <1> QED BY <1>1, <1>2 DEF ClientInv

(* An answer that is no list tells nothing.                                *)
LEMMA NothingTold ==
    ASSUME ClientInv, UNCHANGED vars, NEW c \in Clients, NEW a \in Call, NEW answer,
           call' = [call EXCEPT ![c] = a], reply' = [reply EXCEPT ![c] = answer],
           answer.code = "OK" => a.step = "done" /\ a \notin CallOfSlots \cup CallOfMine,
           "heard" \in DOMAIN a => a.heard \subseteq Heard
    PROVE  Told(c)'
  <1>1. call'[c] = a /\ reply'[c] = answer /\ Heard' = Heard
    BY DEF ClientInv, vars, Heard
  <1>2. ~Offers(c)' /\ ~IsShown(c)'
    BY <1>1, CallShape DEF Offers, IsShown
  <1> QED BY <1>1, <1>2 DEF Told

(* A call is made.                                                         *)
LEMMA AsksStep ==
    ASSUME Inv, ClientInv, World, NEW c \in Clients, NEW what \in Call, Asks(c, what),
           "heard" \in DOMAIN what => what.heard = Heard,
           what.step = "done" => what \in CallRefused
    PROVE  ClientInv'
  <1> DEFINE answer == IF what.step = "done" THEN [code |-> what.refused] ELSE NoReply
  <1>1. /\ call' = [call EXCEPT ![c] = what] /\ reply' = [reply EXCEPT ![c] = answer]
        /\ UNCHANGED vars
    BY DEF Asks, vars
  <1>2. answer.code # "OK"
    BY DEF NoReply, CallRefused
  <1> HIDE DEF answer
  <1>3. Told(c)'
    BY <1>1, <1>2, NothingTold
  <1> QED BY <1>1, <1>3, ClientMoves

(* It goes on to its next statement.                                       *)
LEMMA GoesOnStep ==
    ASSUME Inv, ClientInv, World, NEW c \in Clients, call[c].step = "getRoom",
           GoesOn(c, "listSlots"), UNCHANGED vars
    PROVE  ClientInv'
  <1> DEFINE a == [call[c] EXCEPT !.step = "listSlots"]
  <1>1. call[c] \in Call /\ call[c] \in CallOfSlots /\ call[c].step \notin {"idle"}
    BY CallShape DEF ClientInv
  <1>2. a \in Call /\ a.heard = call[c].heard
    BY <1>1, CallGoesOn
  <1>3. call' = [call EXCEPT ![c] = a] /\ reply' = [reply EXCEPT ![c] = reply[c]]
    BY DEF GoesOn, ClientInv
  <1>4. reply[c].code # "OK"
    BY DEF ClientInv, Told
  <1>5. call[c].heard \subseteq Heard
    BY <1>1, CallShape DEF ClientInv, Told
  <1> HIDE DEF a
  <1>6. Told(c)'
    BY <1>2, <1>3, <1>4, <1>5, NothingTold
  <1> QED BY <1>2, <1>3, <1>6, ClientMoves

(* It ends with an answer that is no list of slots or bookings.            *)
LEMMA GetsStep ==
    ASSUME Inv, ClientInv, World, NEW c \in Clients, NEW answer, call[c].step \notin {"idle"},
           Gets(c, answer), UNCHANGED vars,
           answer.code = "OK" => call[c].step = "listRooms"
    PROVE  ClientInv'
  <1> DEFINE a == [call[c] EXCEPT !.step = "done"]
  <1>1. call[c] \in Call
    BY DEF ClientInv
  <1>2. /\ a \in Call /\ a.step = "done"
        /\ call[c] \in CallOfRooms => a \notin CallOfSlots \cup CallOfMine
        /\ call[c] \in CallOfSlots \cup CallOfMine => a.heard = call[c].heard
        /\ "heard" \in DOMAIN a => "heard" \in DOMAIN call[c]
    BY <1>1, CallGoesOn DEF Call, CallOfSlots, CallOfMine, CallOfRooms, CallOfRoom, CallRefused, Idle
  <1>3. call' = [call EXCEPT ![c] = a] /\ reply' = [reply EXCEPT ![c] = answer]
    BY DEF Gets
  <1>4. answer.code = "OK" => call[c] \in CallOfRooms
    BY <1>1, CallShape
  <1>5. "heard" \in DOMAIN call[c] => call[c].heard \subseteq Heard
    BY DEF ClientInv, Told
  <1> HIDE DEF a
  <1>6. "heard" \in DOMAIN a => a.heard \subseteq Heard
    BY <1>1, <1>2, <1>5, CallShape
  <1>7. Told(c)'
    BY <1>2, <1>3, <1>4, <1>6, NothingTold
  <1> QED BY <1>2, <1>3, <1>7, ClientMoves

(* What ListAvailable reads is true of every answer heard before.          *)
LEMMA ListSlotsStep ==
    ASSUME ServiceInv, World, NEW c \in Clients, ListSlots(c)
    PROVE  ClientInv'
  <1> USE DEF ServiceInv
  <1> DEFINE a == [call[c] EXCEPT !.step = "done"]
             rows == FreeSlots(call[c].room, call[c].day)
  <1>1. call[c] \in Call /\ call[c].step = "listSlots" /\ call[c] \in CallOfSlots
    BY CallShape DEF ListSlots, ClientInv
  <1>2. /\ a \in Call /\ a.step = "done" /\ a \in CallOfSlots
        /\ a.heard = call[c].heard /\ a.room = call[c].room /\ a.day = call[c].day
    BY <1>1, CallGoesOn DEF CallOfSlots
  <1>3. call' = [call EXCEPT ![c] = a] /\ reply' = [reply EXCEPT ![c] = OK(rows)]
        /\ UNCHANGED vars
    BY DEF ListSlots, Gets
  <1>4. call[c].heard \subseteq Heard
    BY <1>1, CallShape DEF ClientInv, Told
  <1>5. \A s \in rows : s \in slots /\ RowOf[s].room = call[c].room /\ StartsOn(s, call[c].day)
                        /\ ActiveOn(s) = {}
    BY DEF FreeSlots
  <1>6. ASSUME NEW r \in Heard, result[r] = "Created", req[r].slot \in rows
        PROVE  CancelAsked(r)
    <2>1. Stored(r) /\ bookings[r].slotId = req[r].slot /\ r \in Requests
      BY <1>6 DEF Inv, LinkInv, RowInv, Heard
    <2>2. bookings[r].status # "active"
      BY <1>5, <1>6, <2>1 DEF ActiveOn
    <2>3. bookings[r].status = "cancelled"
      BY <2>1, <2>2 DEF Inv, RowInv
    <2> QED BY <2>1, <2>3 DEF TableInv
  <1>7. ASSUME NEW r \in Heard, result[r] = "Cancelled"
        PROVE  LET s == bookings[req[r].target].slotId IN
               \/ s \in rows
               \/ RowOf[s].room # call[c].room \/ ~StartsOn(s, call[c].day)
               \/ \E b \in Requests : /\ b # req[r].target
                                      /\ bookings[b] # NoBooking /\ bookings[b].slotId = s
    <2> DEFINE s == bookings[req[r].target].slotId
    <2>1. /\ req[r].target \in Requests /\ Stored(req[r].target)
          /\ bookings[req[r].target].status = "cancelled"
      BY <1>7, Fields DEF Inv, ControlInv, CancelInv, Heard
    <2>2. s \in slots
      BY <2>1 DEF TableInv
    <2>3. CASE ActiveOn(s) = {}
      BY <2>2, <2>3 DEF FreeSlots
    <2>4. CASE ActiveOn(s) # {}
      <3>1. PICK b \in Requests : bookings[b].status = "active" /\ bookings[b].slotId = s
        BY <2>4 DEF ActiveOn
      <3>2. b # req[r].target /\ bookings[b] # NoBooking
        BY <2>1, <3>1 DEF NoBooking
      <3> QED BY <3>1, <3>2
    <2> QED BY <2>3, <2>4
  <1> HIDE DEF a, rows
  <1>8. /\ call'[c] = a /\ reply'[c] = OK(rows)
        /\ Heard' = Heard /\ slots' = slots /\ bookings' = bookings /\ req' = req /\ result' = result
    BY <1>3 DEF ClientInv, vars, Heard
  <1>9. ~IsShown(c)'
    BY <1>2, <1>8, CallShape DEF IsShown, CallOfSlots, CallOfMine
  <1>10. OfferIsFit(c)'
    BY <1>2, <1>5, <1>8 DEF OfferIsFit, OK, StartsOn
  <1>11. ASSUME NEW r \in Heard
         PROVE  OfferRespects(c, r)'
    <2>1. result[r] = "Created" /\ req[r].slot \in rows => CancelAsked(r)'
      BY <1>6, <1>8 DEF CancelAsked
    <2> QED BY <1>2, <1>7, <1>8, <2>1 DEF OfferRespects, OK, StartsOn
  <1>12. Told(c)'
    BY <1>2, <1>4, <1>8, <1>9, <1>10, <1>11 DEF Told
  <1> QED BY <1>2, <1>3, <1>12, ClientMoves

(* What ListMy reads is too.                                               *)
LEMMA ListMineStep ==
    ASSUME ServiceInv, World, NEW c \in Clients, ListByUserFuture(c)
    PROVE  ClientInv'
  <1> USE DEF ServiceInv
  <1> DEFINE a == [call[c] EXCEPT !.step = "done"]
             rows == Mine(call[c].user, call[c].at)
  <1>1. call[c] \in Call /\ call[c].step = "listMine" /\ call[c] \in CallOfMine
    BY CallShape DEF ListByUserFuture, ClientInv
  <1>2. /\ a \in Call /\ a.step = "done" /\ a \in CallOfMine
        /\ a.heard = call[c].heard /\ a.user = call[c].user /\ a.at = call[c].at
    BY <1>1, CallGoesOn DEF CallOfMine
  <1>3. call' = [call EXCEPT ![c] = a] /\ reply' = [reply EXCEPT ![c] = OK(rows)]
        /\ UNCHANGED vars
    BY DEF ListByUserFuture, Gets
  <1>4. call[c].heard \subseteq Heard
    BY <1>1, CallShape DEF ClientInv, Told
  <1>5. \A row \in rows : /\ row.id \in Requests /\ Stored(row.id)
                          /\ bookings[row.id].userId = call[c].user
    BY DEF Mine, Stored
  <1>6. ASSUME NEW r \in Heard, result[r] = "Created", req[r].user = call[c].user,
               StartAt[req[r].slot] >= call[c].at
        PROVE  \E row \in rows : row.id = r /\ (row.status = "active" \/ CancelAsked(r))
    <2>1. /\ Stored(r) /\ bookings[r].slotId = req[r].slot /\ r \in Requests
          /\ bookings[r].userId = req[r].user
          /\ bookings[r].status \in {"active", "cancelled"}
      BY <1>6 DEF Inv, LinkInv, RowInv, Heard
    <2> DEFINE row == [id |-> r, status |-> bookings[r].status]
    <2>2. row \in rows
      BY <1>6, <2>1 DEF Mine, Stored
    <2>3. row.status = "active" \/ CancelAsked(r)
      BY <2>1 DEF TableInv
    <2>4. row.id = r
      OBVIOUS
    <2> HIDE DEF row, rows
    <2> QED BY <2>2, <2>3, <2>4
  <1> HIDE DEF a, rows
  <1>7. /\ call'[c] = a /\ reply'[c] = OK(rows)
        /\ Heard' = Heard /\ bookings' = bookings /\ req' = req /\ result' = result
    BY <1>3 DEF ClientInv, vars, Heard
  <1>8. ~Offers(c)'
    BY <1>2, <1>7, CallShape DEF Offers, CallOfSlots, CallOfMine
  <1>9. MineAreMine(c)'
    BY <1>2, <1>5, <1>7 DEF MineAreMine, OK, Stored
  <1>10. ASSUME NEW r \in Heard
         PROVE  MineShow(c, r)'
    <2>1. CancelAsked(r)' = CancelAsked(r)
      BY <1>7 DEF CancelAsked
    <2> QED BY <1>2, <1>6, <1>7, <2>1 DEF MineShow, OK
  <1>11. Told(c)'
    BY <1>2, <1>4, <1>7, <1>8, <1>9, <1>10 DEF Told
  <1> QED BY <1>2, <1>3, <1>11, ClientMoves

-----------------------------------------------------------------------------
(* The whole.                                                              *)

(* Whatever the step, no client is told anything untrue.                   *)
LEMMA ClientsStep ==
    ASSUME ServiceInv, [ServiceNext]_serviceVars
    PROVE  ClientInv'
  <1> USE DEF ServiceInv
  <1>w. World
    BY BookingsStep, WorldStep
  <1>r. UNCHANGED <<call, reply>> => ClientInv'
    BY <1>w, ClientsRest
  <1>1. CASE BookingStep \/ TimePasses \/ UNCHANGED serviceVars
    BY <1>1, <1>r DEF BookingStep, TimePasses, clientVars, serviceVars
  <1>2. ASSUME NEW room \in Rooms, LateRoom(room) \/ \E sch \in Hours : SetHours(room, sch)
        PROVE  ClientInv'
    BY <1>2, <1>r DEF LateRoom, SetHours, clientVars
  <1>3. ASSUME NEW s \in Slots, CutSlot(s)
        PROVE  ClientInv'
    BY <1>3, <1>r DEF CutSlot, clientVars
  <1>4. ASSUME NEW c \in Clients, NEW room \in Rooms, NEW day \in 0 .. LastDay,
               ListAvailable(c, room, day)
        PROVE  ClientInv'
    <2> DEFINE what == [step |-> "getRoom", room |-> room, day |-> day, heard |-> Heard]
    <2>1. what \in Call /\ what.heard = Heard /\ what.step # "done"
      BY DEF Call, CallOfSlots, Heard
    <2>2. Asks(c, what)
      BY <1>4 DEF ListAvailable
    <2> HIDE DEF what
    <2> QED BY <1>w, <2>1, <2>2, AsksStep
  <1>5. ASSUME NEW c \in Clients, NEW u \in Users, ListMy(c, u)
        PROVE  ClientInv'
    <2> DEFINE what == [step |-> "listMine", user |-> u, at |-> now, heard |-> Heard]
    <2>1. what \in Call /\ what.heard = Heard /\ what.step # "done"
      BY DEF Call, CallOfMine, Heard, Inv, TypeOK
    <2>2. Refused("Forbidden") \in CallRefused /\ "heard" \notin DOMAIN Refused("Forbidden")
      BY DEF Refused, CallRefused
    <2>3. Asks(c, what) \/ Asks(c, Refused("Forbidden"))
      BY <1>5 DEF ListMy
    <2> HIDE DEF what
    <2> QED BY <1>w, <2>1, <2>2, <2>3, AsksStep DEF Call
  <1>6. ASSUME NEW c \in Clients, NEW u \in Users, NEW valid \in BOOLEAN, CreateRoom(c, u, valid)
        PROVE  ClientInv'
    <2> DEFINE what == [step |-> "insertRoom"]
    <2>1. what \in Call /\ "heard" \notin DOMAIN what /\ what.step # "done"
      BY DEF Call, CallOfRoom
    <2>2. \A code \in {"Forbidden", "InvalidRequest"} :
              Refused(code) \in CallRefused /\ "heard" \notin DOMAIN Refused(code)
      BY DEF Refused, CallRefused
    <2>3. Asks(c, what) \/ \E code \in {"Forbidden", "InvalidRequest"} : Asks(c, Refused(code))
      BY <1>6 DEF CreateRoom
    <2> HIDE DEF what
    <2> QED BY <1>w, <2>1, <2>2, <2>3, AsksStep DEF Call
  <1>7. ASSUME NEW c \in Clients, ListRooms(c)
        PROVE  ClientInv'
    <2> DEFINE what == [step |-> "listRooms"]
    <2>1. what \in Call /\ "heard" \notin DOMAIN what /\ what.step # "done"
      BY DEF Call, CallOfRooms
    <2>2. Asks(c, what)
      BY <1>7 DEF ListRooms
    <2> HIDE DEF what
    <2> QED BY <1>w, <2>1, <2>2, AsksStep
  <1>8. ASSUME NEW c \in Clients, GetRoom(c)
        PROVE  ClientInv'
    <2>1. GoesOn(c, "listSlots") \/ Gets(c, [code |-> "RoomNotFound"])
      BY <1>8 DEF GetRoom
    <2>2. call[c].step = "getRoom" /\ UNCHANGED vars
      BY <1>8 DEF GetRoom
    <2> QED BY <1>w, <2>1, <2>2, GoesOnStep, GetsStep
  <1>9. ASSUME NEW c \in Clients, ListSlots(c)
        PROVE  ClientInv'
    BY <1>9, <1>w, ListSlotsStep
  <1>10. ASSUME NEW c \in Clients, ListByUserFuture(c)
         PROVE  ClientInv'
    BY <1>10, <1>w, ListMineStep
  <1>11. ASSUME NEW c \in Clients, SelectRooms(c)
         PROVE  ClientInv'
    <2>1. Gets(c, OK(rooms)) /\ call[c].step = "listRooms" /\ UNCHANGED vars
      BY <1>11 DEF SelectRooms
    <2> QED BY <1>w, <2>1, GetsStep
  <1>12. ASSUME NEW c \in Clients, InsertRoom(c)
         PROVE  ClientInv'
    <2>1. PICK room : Gets(c, [code |-> "Created", room |-> room])
      BY <1>12 DEF InsertRoom
    <2>2. call[c].step = "insertRoom" /\ UNCHANGED vars
      BY <1>12 DEF InsertRoom
    <2> QED BY <1>w, <2>1, <2>2, GetsStep
  <1>13. ASSUME NEW c \in Clients, CallFails(c)
         PROVE  ClientInv'
    <2>1. Gets(c, [code |-> "Internal"]) /\ call[c].step \notin {"idle"} /\ UNCHANGED vars
      BY <1>13 DEF CallFails, UnderWay
    <2> QED BY <1>w, <2>1, GetsStep
  <1>14. CASE ServiceCrash
    <2>1. /\ call' = [c \in Clients |-> IF c \in UnderWay THEN Idle ELSE call[c]]
          /\ reply' = reply
      BY <1>14 DEF ServiceCrash
    <2>2. Idle \in Call
      BY DEF Call
    <2>3. ASSUME NEW c \in UnderWay
          PROVE  Told(c)'
      <3>1. reply'[c].code # "OK" /\ "heard" \notin DOMAIN call'[c]
        BY <2>1 DEF Idle, UnderWay, ClientInv, Told
      <3> QED BY <3>1 DEF Told, Offers, IsShown
    <2>4. ASSUME NEW c \in Clients \ UnderWay
          PROVE  Told(c)'
      BY <1>w, <2>1, ToldStays DEF ClientInv
    <2>5. call' \in [Clients -> Call]
      BY <2>1, <2>2 DEF ClientInv
    <2>6. reply' = [c \in Clients |-> reply'[c]]
      BY <2>1 DEF ClientInv
    <2> QED BY <2>3, <2>4, <2>5, <2>6 DEF ClientInv
  <1> QED
    BY <1>1, <1>2, <1>3, <1>4, <1>5, <1>6, <1>7, <1>8, <1>9, <1>10, <1>11, <1>12, <1>13, <1>14
    DEF ServiceNext, ClientStep

(* The invariant holds at first,                                           *)
LEMMA ServiceStart == ServiceInit => ServiceInv
  <1> SUFFICES ASSUME ServiceInit PROVE ServiceInv
    OBVIOUS
  <1>1. Init /\ Calendar!Init
    BY DEF ServiceInit
  <1>2. Inv
    BY <1>1, InvInit
  <1>3. CalendarInv
    BY <1>1 DEF Init, Calendar!Init, CalendarInv
  <1>4. TableInv
    BY <1>1 DEF Init, TableInv, Stored, NoBooking
  <1>5. ClientInv
    <2>1. Idle \in Call
      BY DEF Call
    <2>2. ASSUME NEW c \in Clients
          PROVE  Told(c)
      <3>1. reply[c].code # "OK" /\ "heard" \notin DOMAIN call[c]
        BY DEF ServiceInit, Idle, NoReply
      <3> QED BY <3>1 DEF Told, Offers, IsShown
    <2> QED BY <2>1, <2>2 DEF ServiceInit, ClientInv
  <1> QED BY <1>2, <1>3, <1>4, <1>5 DEF ServiceInv

(* and for ever.                                                           *)
LEMMA ServiceInvariance == ServiceSpec => []ServiceInv
  <1>1. ServiceInv /\ [ServiceNext]_serviceVars => ServiceInv'
    <2> SUFFICES ASSUME ServiceInv, [ServiceNext]_serviceVars
                 PROVE  ServiceInv'
      OBVIOUS
    <2>1. Inv' /\ TableInv'
      BY BookingsStep, InvStep, TableInvStep DEF ServiceInv
    <2>2. CalendarInv' /\ ClientInv'
      BY CalendarStep, ClientsStep DEF ServiceInv
    <2> QED BY <2>1, <2>2 DEF ServiceInv
  <1> QED BY ServiceStart, <1>1, PTL DEF ServiceSpec

(* No two people hold a room at the same time: they would hold one slot,   *)
(* which idx_bookings_slot_active forbids.                                 *)
THEOREM RoomsAreHeldAlone == ServiceSpec => []RoomNeverDoubleBooked
  <1>1. ServiceInv => RoomNeverDoubleBooked
    <2> SUFFICES ASSUME ServiceInv, NEW b \in Requests, NEW c \in Requests,
                        bookings[b].status = "active", bookings[c].status = "active", b # c,
                        RowOf[bookings[b].slotId].room = RowOf[bookings[c].slotId].room,
                        Calendar!Overlap(RowOf[bookings[b].slotId], RowOf[bookings[c].slotId])
                 PROVE  FALSE
      BY DEF RoomNeverDoubleBooked
    <2>1. bookings[b].slotId \in slots /\ bookings[c].slotId \in slots
      BY DEF ServiceInv, TableInv, Stored, NoBooking
    <2>2. slots \subseteq Slots
      BY DEF ServiceInv, Inv, TypeOK
    <2>3. bookings[b].slotId = bookings[c].slotId
      BY <2>1, <2>2, SlotsApart DEF ServiceInv
    <2> QED BY <2>3 DEF ServiceInv, Inv, OneActivePerSlot
  <1> QED BY <1>1, ServiceInvariance, PTL

(* A list of free slots never contradicts an answer that its client had    *)
(* heard of when it asked.                                                 *)
THEOREM OffersRespectAnswers == ServiceSpec => []ListRespectsAnswers
  <1>1. ServiceInv => ListRespectsAnswers
    BY DEF ServiceInv, ClientInv, Told, ListRespectsAnswers, OfferRespects
  <1> QED BY <1>1, ServiceInvariance, PTL

(* A list of free slots shows half hours of the day and room asked for.    *)
THEOREM OffersAreOfTheHours == ServiceSpec => []OffersFollowHours
  <1>1. ServiceInv => OffersFollowHours
    <2> SUFFICES ASSUME ServiceInv, NEW c \in Clients, Offers(c), NEW s \in reply[c].rows
                 PROVE  /\ RowOf[s].room = call[c].room
                        /\ Calendar!Weekday(call[c].day) \in hours[call[c].room].days
                        /\ Calendar!Slot(StartAt[s]) \in
                              Calendar!DaySlots(hours[call[c].room], call[c].day)
      BY DEF OffersFollowHours
    <2>1. /\ s \in slots /\ s \in Slots /\ RowOf[s].room = call[c].room
          /\ StartsOn(s, call[c].day) /\ OnHours(s)
      BY DEF ServiceInv, ClientInv, Told, OfferIsFit, CalendarInv, Inv, TypeOK
    <2>2. PICK day \in Nat :
              /\ Calendar!Weekday(day) \in hours[RowOf[s].room].days
              /\ \E x \in Calendar!DaySlots(hours[RowOf[s].room], day) :
                    RowOf[s].startAt = x.startAt /\ RowOf[s].endAt = x.endAt
      BY <2>1 DEF OnHours
    <2>3. PICK x \in Calendar!DaySlots(hours[RowOf[s].room], day) :
              RowOf[s].startAt = x.startAt /\ RowOf[s].endAt = x.endAt
      BY <2>2
    <2>4. hours[RowOf[s].room] \in Hours
      BY <2>1, OpenHours DEF ServiceInv
    <2>5. /\ x = [startAt |-> x.startAt, endAt |-> x.startAt + 30] /\ x.startAt \in Nat
          /\ x.startAt >= day * 1440 /\ x.startAt < (day + 1) * 1440
      BY <2>4, SlotShape
    <2>6. StartAt[s] = x.startAt
      BY <2>1, <2>3, ServiceAssumption
    <2>7. call[c].day \in Int
      <3>1. call[c] \in CallOfSlots
        BY CallShape DEF Offers, ServiceInv, ClientInv
      <3> QED BY <3>1 DEF CallOfSlots
    <2>8. x.startAt >= call[c].day * 1440 /\ x.startAt < (call[c].day + 1) * 1440
      BY <2>1, <2>6 DEF StartsOn, Calendar!DayMinutes
    <2>9. call[c].day = day
      BY <2>5, <2>7, <2>8
    <2>10. Calendar!Slot(StartAt[s]) = x
      BY <2>5, <2>6 DEF Calendar!Slot, Calendar!SlotMinutes
    <2> QED BY <2>1, <2>2, <2>9, <2>10
  <1> QED BY <1>1, ServiceInvariance, PTL

(* A list of one's bookings shows what one was told to have booked, and    *)
(* nobody else's.                                                          *)
THEOREM OwnBookingsAreShown == ServiceSpec => []MineAreShown
  <1>1. ServiceInv => MineAreShown
    BY DEF ServiceInv, ClientInv, Told, MineAreShown, MineShow, MineAreMine
  <1> QED BY <1>1, ServiceInvariance, PTL

=============================================================================
