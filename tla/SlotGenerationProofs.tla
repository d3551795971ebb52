------------------------ MODULE SlotGenerationProofs ------------------------
(***************************************************************************)
(* Theorems about SlotGeneration, for any rooms, calls, inputs and number  *)
(* of generated days, any number of faults and midnights.                  *)
(*                                                                         *)
(* Slots cannot overlap because each row, stored, to be inserted or late,  *)
(* was cut from a stored schedule (RowsInv), a room has one schedule for   *)
(* good (OneSchedulePerRoom), and half hours of one schedule either start  *)
(* together, which the table forbids (OneSlotPerStart), or do not meet.    *)
(*                                                                         *)
(* What a call or a round of the worker owes is stored or yet to be        *)
(* inserted (CallInv, RoundInv), until it is answered or over.             *)
(***************************************************************************)
EXTENDS SlotGeneration, WellFoundedInduction, TLAPS

-----------------------------------------------------------------------------
(* The inductive invariant.                                                *)

Dates == 0 .. MaxDay

(* What may be stored in table schedules: no constraint of it is violated. *)
Storable(c) == call[c] \in Request /\ call[c].room \in rooms /\ Valid(call[c].sch)

(* What the position of a call says about its row.                         *)
ControlInv ==
    \A c \in Calls :
        /\ pc[c] # "idle" => call[c] \in Request
        /\ pc[c] # "done" => result[c] = "none"
        /\ pc[c] \in {"idle", "getRoom", "getSchedule", "insertSchedule"} =>
              c \notin schedules /\ c \notin lateCalls
        /\ pc[c] = "getSchedule" => call[c].room \in rooms
        /\ pc[c] = "insertSchedule" => Storable(c)
        /\ pc[c] = "createSlots" => c \in schedules /\ c \notin lateCalls

(* A row is stored, or on its way, only for a call that was not refused.   *)
RefusalInv ==
    /\ RefusalStoresNothing
    /\ \A c \in schedules \cup lateCalls : Storable(c)
    /\ \A c \in lateCalls : result[c] # "Created"
    /\ \A c \in Calls : result[c] = "Created" => c \in schedules

(* schedules_room_id_unique, and the constraint of table slots.            *)
OneSchedulePerRoom ==
    \A c, d \in schedules : call[c].room = call[d].room => c = d

OneSlotPerStart ==
    \A s, t \in slots : s.room = t.room /\ s.startAt = t.startAt => s = t

DateInv == today \in Dates /\ from \in [Writers -> Dates]

(* A half hour of the stored schedule of its room.                         *)
SlotOf(c, s, w) ==
    [room |-> call[c].room, startAt |-> s.startAt, endAt |-> s.endAt, by |-> w]

CutFrom(row, c) ==
    \E day \in 0 .. MaxDay + GenerationDays, w \in Writers :
        /\ Weekday(day) \in call[c].sch.days
        /\ \E s \in DaySlots(call[c].sch, day) : row = SlotOf(c, s, w)

FromSchedule(row) == \E c \in schedules : CutFrom(row, c)

(* Rows that are stored, that are to be inserted, and that may yet be.     *)
RowsInv ==
    /\ todo \subseteq schedules
    /\ \A row \in slots \cup late : FromSchedule(row)
    /\ \A w \in Writers : \A row \in pending[w] : FromSchedule(row)

Inv ==
    /\ TypeOK /\ ControlInv /\ RefusalInv
    /\ OneSchedulePerRoom /\ OneSlotPerStart /\ DateInv /\ RowsInv

-----------------------------------------------------------------------------
(* What Build makes.                                                       *)

Sch == [days : SUBSET Int, start : 0 .. DayMinutes - 1, end : 0 .. DayMinutes - 1]

(* The opening and closing minute of a schedule are numbers.               *)
LEMMA HoursAreNumbers ==
    ASSUME NEW sch \in Sch
    PROVE  sch.start \in Nat /\ sch.end \in Nat
  <1>1. sch.start \in 0 .. DayMinutes - 1 /\ sch.end \in 0 .. DayMinutes - 1
    BY DEF Sch
  <1>2. \A minute \in 0 .. DayMinutes - 1 : minute \in Nat
    BY DEF DayMinutes
  <1> QED BY <1>1, <1>2, Zenon

(* A slot of a day is half an hour, on a half hour of the schedule.        *)
LEMMA SlotShape ==
    ASSUME NEW sch \in Sch, NEW day \in Nat, NEW s \in DaySlots(sch, day)
    PROVE  /\ s = [startAt |-> s.startAt, endAt |-> s.startAt + 30]
           /\ s.startAt \in Nat /\ s.endAt \in Nat
           /\ \E k \in Nat : s.startAt = day * 1440 + sch.start + k * 30
  <1>1. PICK k \in 0 .. SlotsPerDay - 1 : s = Slot(day * DayMinutes + sch.start + k * SlotMinutes)
    BY DEF DaySlots
  <1>2. k \in Nat
    BY DEF SlotsPerDay, DayMinutes, SlotMinutes
  <1>3. sch.start \in Nat
    BY HoursAreNumbers
  <1> QED BY <1>1, <1>2, <1>3 DEF Slot, DayMinutes, SlotMinutes

(* The body of a request is a schedule, for some room.                     *)
LEMMA RequestsAreSchedules ==
    ASSUME NEW request \in Request
    PROVE  request.sch \in Sch /\ request.sch \in Inputs /\ request.room \in Rooms
  BY ConstantsAssumption DEF Request, Sch

(* The slot with the earliest start of any set of them.                    *)
LEMMA EarliestExists ==
    ASSUME NEW rows \in SUBSET Row, rows # {}
    PROVE  Earliest(rows) \in rows
  <1> DEFINE starts == {row.startAt : row \in rows}
  <1>1. starts \subseteq Nat /\ starts # {}
    BY DEF Row
  <1>2. PICK t \in starts : \A u \in starts : ~(<<u, t>> \in OpToRel(<, Nat))
    <2> HIDE DEF starts
    <2> QED BY <1>1, NatLessThanWellFounded, WFMin
  <1>3. PICK x \in rows : x.startAt = t
    OBVIOUS
  <1>4. \A y \in rows : x.startAt <= y.startAt
    <2> SUFFICES ASSUME NEW y \in rows PROVE x.startAt <= y.startAt
      OBVIOUS
    <2>1. ~(<<y.startAt, t>> \in OpToRel(<, Nat))
      BY <1>2
    <2>2. y.startAt \in Nat /\ t \in Nat
      BY <1>1
    <2>3. ~(y.startAt < t)
      BY <2>1, <2>2 DEF OpToRel
    <2> QED BY <1>3, <2>2, <2>3
  <1> QED BY <1>3, <1>4 DEF Earliest

(* BulkCreate is given slots of the schedule of its call.                  *)
LEMMA RowsAreCut ==
    ASSUME NEW c \in Calls, call[c] \in Request, NEW w \in Writers, NEW day \in Dates,
           NEW row \in RowsOf(w, c, day)
    PROVE  row \in Row /\ CutFrom(row, c)
  <1>1. PICK s \in Ahead(c, day) : row = SlotOf(c, s, w)
    BY DEF RowsOf, SlotOf
  <1>2. PICK d \in day .. day + GenerationDays - 1 :
            Weekday(d) \in call[c].sch.days /\ s \in DaySlots(call[c].sch, d)
    <2>1. \A f, t \in Int : \A x \in Build(call[c].sch, f, t) : \E d \in f .. t - 1 :
              Weekday(d) \in call[c].sch.days /\ x \in DaySlots(call[c].sch, d)
      BY Zenon DEF Build
    <2>2. day \in Int /\ day + GenerationDays \in Int
      BY ConstantsAssumption DEF Dates
    <2>3. s \in Build(call[c].sch, day, day + GenerationDays)
      BY DEF Ahead
    <2>4. (day + GenerationDays) - 1 = day + GenerationDays - 1
      BY ConstantsAssumption DEF Dates
    <2> QED BY <2>1, <2>2, <2>3, <2>4
  <1>3. d \in Nat /\ d \in 0 .. MaxDay + GenerationDays
    BY ConstantsAssumption DEF Dates
  <1>4. call[c].sch \in Sch /\ call[c].room \in Rooms
    BY RequestsAreSchedules
  <1>5. s.startAt \in Nat /\ s.endAt \in Nat
    BY <1>2, <1>3, <1>4, SlotShape
  <1> QED BY <1>1, <1>2, <1>3, <1>4, <1>5 DEF CutFrom, SlotOf, Row

-----------------------------------------------------------------------------
(* The steps, one part of the invariant after the other.                   *)

(* Types.                                                                  *)
LEMMA TypeStep ==
    ASSUME Inv, [Next]_vars
    PROVE  TypeOK'
  <1> USE ConstantsAssumption DEF Inv, TypeOK, ControlInv, DateInv, Dates, Control, InService, Results, Refusals,
      tables, calls, work, delays
  <1>1. ASSUME NEW c \in Calls, NEW role \in Roles, NEW request \in Request, CreateHandler(c, role, request)
        PROVE  TypeOK'
    BY <1>1 DEF CreateHandler, Answer, Proceed
  <1>2. ASSUME NEW c \in Calls, GetRoom(c)
        PROVE  TypeOK'
    BY <1>2 DEF GetRoom, Answer, Proceed
  <1>3. ASSUME NEW c \in Calls, GetSchedule(c)
        PROVE  TypeOK'
    BY <1>3 DEF GetSchedule, Answer, Proceed
  <1>4. ASSUME NEW c \in Calls, InsertSchedule(c)
        PROVE  TypeOK'
    <2>1. call[c] \in Request /\ c \in Writers
      BY <1>4 DEF InsertSchedule, Writers
    <2>2. RowsOf(c, c, today) \subseteq Row
      BY <2>1, RowsAreCut
    <2> QED BY <1>4, <2>2 DEF InsertSchedule, ScheduleStored, Answer, Proceed
  <1>5. ASSUME NEW c \in Calls, CallInsertsSlot(c)
        PROVE  TypeOK'
    <2>1. Earliest(pending[c]) \in pending[c] /\ pending[c] \subseteq Row
      BY <1>5, EarliestExists DEF CallInsertsSlot, BulkInsert, Writers
    <2> QED BY <1>5, <2>1 DEF CallInsertsSlot, BulkInsert, InsertSlot
  <1>6. ASSUME NEW c \in Calls, CallCreated(c)
        PROVE  TypeOK'
    BY <1>6 DEF CallCreated, Answer
  <1>7. ASSUME NEW c \in Calls, CallFails(c)
        PROVE  TypeOK'
    BY <1>7 DEF CallFails, Fault, Answer
  <1>8. ASSUME NEW c \in Calls, CallFailsToInsert(c)
        PROVE  TypeOK'
    <2>1. Earliest(pending[c]) \in pending[c] /\ pending[c] \subseteq Row
      BY <1>8, EarliestExists DEF CallFailsToInsert, BulkFails, Writers
    <2>2. late' \subseteq Row /\ pending' \in [Writers -> SUBSET Row]
      BY <1>8, <2>1 DEF CallFailsToInsert, BulkFails
    <2>3. faults' \in Nat /\ pc' \in [Calls -> Control] /\ result' \in [Calls -> Results]
      BY <1>8 DEF CallFailsToInsert, BulkFails, Fault, Answer
    <2> QED BY <1>8, <2>2, <2>3 DEF CallFailsToInsert
  <1>9. ASSUME NEW c \in Calls, LateSchedule(c)
        PROVE  TypeOK'
    BY <1>9 DEF LateSchedule
  <1>10. CASE WorkerTick
    BY <1>10 DEF WorkerTick
  <1>11. CASE WorkerLists
    BY <1>11 DEF WorkerLists, StartRound
  <1>12. ASSUME NEW c \in Calls, WorkerTakes(c)
        PROVE  TypeOK'
    <2>1. c \in schedules /\ call[c] \in Request /\ Worker \in Writers /\ from[Worker] \in Dates
      BY <1>12 DEF WorkerTakes, Writers, RefusalInv, Storable, RowsInv
    <2>2. RowsOf(Worker, c, from[Worker]) \subseteq Row
      BY <2>1, RowsAreCut
    <2> QED BY <1>12, <2>2 DEF WorkerTakes
  <1>13. CASE WorkerInsertsSlot
    <2>1. Earliest(pending[Worker]) \in pending[Worker] /\ pending[Worker] \subseteq Row
      BY <1>13, EarliestExists DEF WorkerInsertsSlot, BulkInsert, Writers
    <2> QED BY <1>13, <2>1 DEF WorkerInsertsSlot, BulkInsert, InsertSlot
  <1>14. CASE WorkerDone
    BY <1>14 DEF WorkerDone
  <1>15. CASE WorkerListsSome
    <2>1. PICK list \in SUBSET schedules : StartRound(list)
      BY <1>15 DEF WorkerListsSome
    <2>2. todo' \subseteq Calls /\ round' \in [listed : SUBSET Calls, failed : SUBSET Rooms]
          /\ from' \in [Writers -> Nat] /\ worker' = "generating"
      BY <2>1 DEF StartRound
    <2>3. faults' \in Nat
      BY <1>15 DEF WorkerListsSome, Fault
    <2> QED BY <1>15, <2>2, <2>3 DEF WorkerListsSome
  <1>16. CASE WorkerFailsToList
    BY <1>16 DEF WorkerFailsToList, Fault
  <1>17. CASE WorkerFailsToInsert
    <2>1. Earliest(pending[Worker]) \in pending[Worker] /\ pending[Worker] \subseteq Row
      BY <1>17, EarliestExists DEF WorkerFailsToInsert, BulkFails, Writers
    <2>2. Earliest(pending[Worker]) \in Row /\ RoomInWork \in Rooms
      BY <2>1 DEF RoomInWork, Row
    <2>3. late' \subseteq Row /\ pending' \in [Writers -> SUBSET Row]
      BY <1>17, <2>2 DEF WorkerFailsToInsert, BulkFails
    <2>4. round' \in [listed : SUBSET Calls, failed : SUBSET Rooms]
      BY <1>17, <2>2 DEF WorkerFailsToInsert
    <2>5. faults' \in Nat
      BY <1>17 DEF WorkerFailsToInsert, BulkFails, Fault
    <2> QED BY <1>17, <2>3, <2>4, <2>5 DEF WorkerFailsToInsert
  <1>18. ASSUME NEW room \in Rooms, CreateRoom(room)
        PROVE  TypeOK'
    BY <1>18 DEF CreateRoom
  <1>19. ASSUME NEW row \in late, LateSlot(row)
        PROVE  TypeOK'
    BY <1>19 DEF LateSlot, InsertSlot
  <1>20. CASE Midnight
    BY <1>20 DEF Midnight
  <1>21. CASE Crash
    <2>1. \A w \in {w \in Writers : pending[w] # {}} : Earliest(pending[w]) \in Row
      BY EarliestExists
    <2> QED BY <1>21, <2>1 DEF Crash, Fault
  <1>22. CASE Restart
    BY <1>22 DEF Restart
  <1>23. CASE UNCHANGED vars
    BY <1>23 DEF vars
  <1> QED
    BY <1>1, <1>2, <1>3, <1>4, <1>5, <1>6, <1>7, <1>8, <1>9, <1>10, <1>11, <1>12, <1>13, <1>14, <1>15, <1>16, <1>17, <1>18, <1>19, <1>20, <1>21, <1>22, <1>23
    DEF Next, Serve, Work

(* Calls, and what is stored for them.                                     *)
LEMMA ControlStep ==
    ASSUME Inv, [Next]_vars
    PROVE  ControlInv'
  <1> USE DEF Inv, TypeOK, ControlInv, InService, Storable,
      tables, calls, work, delays
  <1>1. ASSUME NEW c \in Calls, NEW role \in Roles, NEW request \in Request, CreateHandler(c, role, request)
        PROVE  ControlInv'
    BY <1>1 DEF CreateHandler, Answer, Proceed
  <1>2. ASSUME NEW c \in Calls, GetRoom(c)
        PROVE  ControlInv'
    BY <1>2 DEF GetRoom, Answer, Proceed
  <1>3. ASSUME NEW c \in Calls, GetSchedule(c)
        PROVE  ControlInv'
    BY <1>3 DEF GetSchedule, Answer, Proceed
  <1>4. ASSUME NEW c \in Calls, InsertSchedule(c)
        PROVE  ControlInv'
    BY <1>4 DEF InsertSchedule, ScheduleStored, Answer, Proceed
  <1>5. ASSUME NEW c \in Calls, CallInsertsSlot(c)
        PROVE  ControlInv'
    BY <1>5 DEF CallInsertsSlot, BulkInsert, InsertSlot
  <1>6. ASSUME NEW c \in Calls, CallCreated(c)
        PROVE  ControlInv'
    BY <1>6 DEF CallCreated, Answer
  <1>7. ASSUME NEW c \in Calls, CallFails(c)
        PROVE  ControlInv'
    BY <1>7 DEF CallFails, Fault, Answer
  <1>8. ASSUME NEW c \in Calls, CallFailsToInsert(c)
        PROVE  ControlInv'
    BY <1>8 DEF CallFailsToInsert, BulkFails, Fault, Answer
  <1>9. ASSUME NEW c \in Calls, LateSchedule(c)
        PROVE  ControlInv'
    BY <1>9 DEF LateSchedule
  <1>10. CASE WorkerTick
    BY <1>10 DEF WorkerTick
  <1>11. CASE WorkerLists
    BY <1>11 DEF WorkerLists, StartRound
  <1>12. ASSUME NEW c \in Calls, WorkerTakes(c)
        PROVE  ControlInv'
    BY <1>12 DEF WorkerTakes
  <1>13. CASE WorkerInsertsSlot
    BY <1>13 DEF WorkerInsertsSlot, BulkInsert, InsertSlot
  <1>14. CASE WorkerDone
    BY <1>14 DEF WorkerDone
  <1>15. CASE WorkerListsSome
    BY <1>15 DEF WorkerListsSome, StartRound, Fault
  <1>16. CASE WorkerFailsToList
    BY <1>16 DEF WorkerFailsToList, Fault
  <1>17. CASE WorkerFailsToInsert
    BY <1>17 DEF WorkerFailsToInsert, BulkFails, Fault, RoomInWork
  <1>18. ASSUME NEW room \in Rooms, CreateRoom(room)
        PROVE  ControlInv'
    BY <1>18 DEF CreateRoom
  <1>19. ASSUME NEW row \in late, LateSlot(row)
        PROVE  ControlInv'
    BY <1>19 DEF LateSlot, InsertSlot
  <1>20. CASE Midnight
    BY <1>20 DEF Midnight
  <1>21. CASE Crash
    BY <1>21 DEF Crash, Fault
  <1>22. CASE Restart
    BY <1>22 DEF Restart
  <1>23. CASE UNCHANGED vars
    BY <1>23 DEF vars
  <1> QED
    BY <1>1, <1>2, <1>3, <1>4, <1>5, <1>6, <1>7, <1>8, <1>9, <1>10, <1>11, <1>12, <1>13, <1>14, <1>15, <1>16, <1>17, <1>18, <1>19, <1>20, <1>21, <1>22, <1>23
    DEF Next, Serve, Work

(* Refusals stay without a row.                                            *)
LEMMA RefusalStep ==
    ASSUME Inv, [Next]_vars
    PROVE  RefusalInv'
  <1> USE DEF Inv, TypeOK, ControlInv, RefusalInv, RefusalStoresNothing, Storable, Refusals, InService,
      tables, calls, work, delays
  <1>1. ASSUME NEW c \in Calls, NEW role \in Roles, NEW request \in Request, CreateHandler(c, role, request)
        PROVE  RefusalInv'
    BY <1>1 DEF CreateHandler, Answer, Proceed
  <1>2. ASSUME NEW c \in Calls, GetRoom(c)
        PROVE  RefusalInv'
    BY <1>2 DEF GetRoom, Answer, Proceed
  <1>3. ASSUME NEW c \in Calls, GetSchedule(c)
        PROVE  RefusalInv'
    BY <1>3 DEF GetSchedule, Answer, Proceed
  <1>4. ASSUME NEW c \in Calls, InsertSchedule(c)
        PROVE  RefusalInv'
    BY <1>4 DEF InsertSchedule, ScheduleStored, Answer, Proceed
  <1>5. ASSUME NEW c \in Calls, CallInsertsSlot(c)
        PROVE  RefusalInv'
    BY <1>5 DEF CallInsertsSlot, BulkInsert, InsertSlot
  <1>6. ASSUME NEW c \in Calls, CallCreated(c)
        PROVE  RefusalInv'
    BY <1>6 DEF CallCreated, Answer
  <1>7. ASSUME NEW c \in Calls, CallFails(c)
        PROVE  RefusalInv'
    BY <1>7 DEF CallFails, Fault, Answer
  <1>8. ASSUME NEW c \in Calls, CallFailsToInsert(c)
        PROVE  RefusalInv'
    BY <1>8 DEF CallFailsToInsert, BulkFails, Fault, Answer
  <1>9. ASSUME NEW c \in Calls, LateSchedule(c)
        PROVE  RefusalInv'
    BY <1>9 DEF LateSchedule
  <1>10. CASE WorkerTick
    BY <1>10 DEF WorkerTick
  <1>11. CASE WorkerLists
    BY <1>11 DEF WorkerLists, StartRound
  <1>12. ASSUME NEW c \in Calls, WorkerTakes(c)
        PROVE  RefusalInv'
    BY <1>12 DEF WorkerTakes
  <1>13. CASE WorkerInsertsSlot
    BY <1>13 DEF WorkerInsertsSlot, BulkInsert, InsertSlot
  <1>14. CASE WorkerDone
    BY <1>14 DEF WorkerDone
  <1>15. CASE WorkerListsSome
    BY <1>15 DEF WorkerListsSome, StartRound, Fault
  <1>16. CASE WorkerFailsToList
    BY <1>16 DEF WorkerFailsToList, Fault
  <1>17. CASE WorkerFailsToInsert
    BY <1>17 DEF WorkerFailsToInsert, BulkFails, Fault, RoomInWork
  <1>18. ASSUME NEW room \in Rooms, CreateRoom(room)
        PROVE  RefusalInv'
    BY <1>18 DEF CreateRoom
  <1>19. ASSUME NEW row \in late, LateSlot(row)
        PROVE  RefusalInv'
    BY <1>19 DEF LateSlot, InsertSlot
  <1>20. CASE Midnight
    BY <1>20 DEF Midnight
  <1>21. CASE Crash
    BY <1>21 DEF Crash, Fault
  <1>22. CASE Restart
    BY <1>22 DEF Restart
  <1>23. CASE UNCHANGED vars
    BY <1>23 DEF vars
  <1> QED
    BY <1>1, <1>2, <1>3, <1>4, <1>5, <1>6, <1>7, <1>8, <1>9, <1>10, <1>11, <1>12, <1>13, <1>14, <1>15, <1>16, <1>17, <1>18, <1>19, <1>20, <1>21, <1>22, <1>23
    DEF Next, Serve, Work

(* No second schedule gets past schedules_room_id_unique.                  *)
LEMMA OneScheduleStep ==
    ASSUME Inv, [Next]_vars
    PROVE  OneSchedulePerRoom'
  <1> USE DEF Inv, TypeOK, ControlInv, OneSchedulePerRoom, RoomIsFree, SchedulesOf,
      tables, calls, work, delays
  <1>1. ASSUME NEW c \in Calls, NEW role \in Roles, NEW request \in Request, CreateHandler(c, role, request)
        PROVE  OneSchedulePerRoom'
    BY <1>1 DEF CreateHandler, Answer, Proceed
  <1>2. ASSUME NEW c \in Calls, GetRoom(c)
        PROVE  OneSchedulePerRoom'
    BY <1>2 DEF GetRoom, Answer, Proceed
  <1>3. ASSUME NEW c \in Calls, GetSchedule(c)
        PROVE  OneSchedulePerRoom'
    BY <1>3 DEF GetSchedule, Answer, Proceed
  <1>4. ASSUME NEW c \in Calls, InsertSchedule(c)
        PROVE  OneSchedulePerRoom'
    BY <1>4 DEF InsertSchedule, ScheduleStored, Answer, Proceed
  <1>5. ASSUME NEW c \in Calls, CallInsertsSlot(c)
        PROVE  OneSchedulePerRoom'
    BY <1>5 DEF CallInsertsSlot, BulkInsert, InsertSlot
  <1>6. ASSUME NEW c \in Calls, CallCreated(c)
        PROVE  OneSchedulePerRoom'
    BY <1>6 DEF CallCreated, Answer
  <1>7. ASSUME NEW c \in Calls, CallFails(c)
        PROVE  OneSchedulePerRoom'
    BY <1>7 DEF CallFails, Fault, Answer
  <1>8. ASSUME NEW c \in Calls, CallFailsToInsert(c)
        PROVE  OneSchedulePerRoom'
    BY <1>8 DEF CallFailsToInsert, BulkFails, Fault, Answer
  <1>9. ASSUME NEW c \in Calls, LateSchedule(c)
        PROVE  OneSchedulePerRoom'
    BY <1>9 DEF LateSchedule
  <1>10. CASE WorkerTick
    BY <1>10 DEF WorkerTick
  <1>11. CASE WorkerLists
    BY <1>11 DEF WorkerLists, StartRound
  <1>12. ASSUME NEW c \in Calls, WorkerTakes(c)
        PROVE  OneSchedulePerRoom'
    BY <1>12 DEF WorkerTakes
  <1>13. CASE WorkerInsertsSlot
    BY <1>13 DEF WorkerInsertsSlot, BulkInsert, InsertSlot
  <1>14. CASE WorkerDone
    BY <1>14 DEF WorkerDone
  <1>15. CASE WorkerListsSome
    BY <1>15 DEF WorkerListsSome, StartRound, Fault
  <1>16. CASE WorkerFailsToList
    BY <1>16 DEF WorkerFailsToList, Fault
  <1>17. CASE WorkerFailsToInsert
    BY <1>17 DEF WorkerFailsToInsert, BulkFails, Fault, RoomInWork
  <1>18. ASSUME NEW room \in Rooms, CreateRoom(room)
        PROVE  OneSchedulePerRoom'
    BY <1>18 DEF CreateRoom
  <1>19. ASSUME NEW row \in late, LateSlot(row)
        PROVE  OneSchedulePerRoom'
    BY <1>19 DEF LateSlot, InsertSlot
  <1>20. CASE Midnight
    BY <1>20 DEF Midnight
  <1>21. CASE Crash
    BY <1>21 DEF Crash, Fault
  <1>22. CASE Restart
    BY <1>22 DEF Restart
  <1>23. CASE UNCHANGED vars
    BY <1>23 DEF vars
  <1> QED
    BY <1>1, <1>2, <1>3, <1>4, <1>5, <1>6, <1>7, <1>8, <1>9, <1>10, <1>11, <1>12, <1>13, <1>14, <1>15, <1>16, <1>17, <1>18, <1>19, <1>20, <1>21, <1>22, <1>23
    DEF Next, Serve, Work

(* No second slot with the same start gets past ON CONFLICT.               *)
LEMMA OneSlotStep ==
    ASSUME Inv, [Next]_vars
    PROVE  OneSlotPerStart'
  <1> USE DEF Inv, OneSlotPerStart,
      tables, calls, work, delays
  <1>1. ASSUME NEW c \in Calls, NEW role \in Roles, NEW request \in Request, CreateHandler(c, role, request)
        PROVE  OneSlotPerStart'
    BY <1>1 DEF CreateHandler, Answer, Proceed
  <1>2. ASSUME NEW c \in Calls, GetRoom(c)
        PROVE  OneSlotPerStart'
    BY <1>2 DEF GetRoom, Answer, Proceed
  <1>3. ASSUME NEW c \in Calls, GetSchedule(c)
        PROVE  OneSlotPerStart'
    BY <1>3 DEF GetSchedule, Answer, Proceed
  <1>4. ASSUME NEW c \in Calls, InsertSchedule(c)
        PROVE  OneSlotPerStart'
    BY <1>4 DEF InsertSchedule, ScheduleStored, Answer, Proceed
  <1>5. ASSUME NEW c \in Calls, CallInsertsSlot(c)
        PROVE  OneSlotPerStart'
    BY <1>5 DEF CallInsertsSlot, BulkInsert, InsertSlot
  <1>6. ASSUME NEW c \in Calls, CallCreated(c)
        PROVE  OneSlotPerStart'
    BY <1>6 DEF CallCreated, Answer
  <1>7. ASSUME NEW c \in Calls, CallFails(c)
        PROVE  OneSlotPerStart'
    BY <1>7 DEF CallFails, Fault, Answer
  <1>8. ASSUME NEW c \in Calls, CallFailsToInsert(c)
        PROVE  OneSlotPerStart'
    BY <1>8 DEF CallFailsToInsert, BulkFails, Fault, Answer
  <1>9. ASSUME NEW c \in Calls, LateSchedule(c)
        PROVE  OneSlotPerStart'
    BY <1>9 DEF LateSchedule
  <1>10. CASE WorkerTick
    BY <1>10 DEF WorkerTick
  <1>11. CASE WorkerLists
    BY <1>11 DEF WorkerLists, StartRound
  <1>12. ASSUME NEW c \in Calls, WorkerTakes(c)
        PROVE  OneSlotPerStart'
    BY <1>12 DEF WorkerTakes
  <1>13. CASE WorkerInsertsSlot
    BY <1>13 DEF WorkerInsertsSlot, BulkInsert, InsertSlot
  <1>14. CASE WorkerDone
    BY <1>14 DEF WorkerDone
  <1>15. CASE WorkerListsSome
    BY <1>15 DEF WorkerListsSome, StartRound, Fault
  <1>16. CASE WorkerFailsToList
    BY <1>16 DEF WorkerFailsToList, Fault
  <1>17. CASE WorkerFailsToInsert
    BY <1>17 DEF WorkerFailsToInsert, BulkFails, Fault, RoomInWork
  <1>18. ASSUME NEW room \in Rooms, CreateRoom(room)
        PROVE  OneSlotPerStart'
    BY <1>18 DEF CreateRoom
  <1>19. ASSUME NEW row \in late, LateSlot(row)
        PROVE  OneSlotPerStart'
    BY <1>19 DEF LateSlot, InsertSlot
  <1>20. CASE Midnight
    BY <1>20 DEF Midnight
  <1>21. CASE Crash
    BY <1>21 DEF Crash, Fault
  <1>22. CASE Restart
    BY <1>22 DEF Restart
  <1>23. CASE UNCHANGED vars
    BY <1>23 DEF vars
  <1> QED
    BY <1>1, <1>2, <1>3, <1>4, <1>5, <1>6, <1>7, <1>8, <1>9, <1>10, <1>11, <1>12, <1>13, <1>14, <1>15, <1>16, <1>17, <1>18, <1>19, <1>20, <1>21, <1>22, <1>23
    DEF Next, Serve, Work

(* Dates are dates.                                                        *)
LEMMA DateStep ==
    ASSUME Inv, [Next]_vars
    PROVE  DateInv'
  <1> USE ConstantsAssumption DEF Inv, TypeOK, DateInv, Dates, Writers,
      tables, calls, work, delays
  <1>1. ASSUME NEW c \in Calls, NEW role \in Roles, NEW request \in Request, CreateHandler(c, role, request)
        PROVE  DateInv'
    BY <1>1 DEF CreateHandler, Answer, Proceed
  <1>2. ASSUME NEW c \in Calls, GetRoom(c)
        PROVE  DateInv'
    BY <1>2 DEF GetRoom, Answer, Proceed
  <1>3. ASSUME NEW c \in Calls, GetSchedule(c)
        PROVE  DateInv'
    BY <1>3 DEF GetSchedule, Answer, Proceed
  <1>4. ASSUME NEW c \in Calls, InsertSchedule(c)
        PROVE  DateInv'
    BY <1>4 DEF InsertSchedule, ScheduleStored, Answer, Proceed
  <1>5. ASSUME NEW c \in Calls, CallInsertsSlot(c)
        PROVE  DateInv'
    BY <1>5 DEF CallInsertsSlot, BulkInsert, InsertSlot
  <1>6. ASSUME NEW c \in Calls, CallCreated(c)
        PROVE  DateInv'
    BY <1>6 DEF CallCreated, Answer
  <1>7. ASSUME NEW c \in Calls, CallFails(c)
        PROVE  DateInv'
    BY <1>7 DEF CallFails, Fault, Answer
  <1>8. ASSUME NEW c \in Calls, CallFailsToInsert(c)
        PROVE  DateInv'
    BY <1>8 DEF CallFailsToInsert, BulkFails, Fault, Answer
  <1>9. ASSUME NEW c \in Calls, LateSchedule(c)
        PROVE  DateInv'
    BY <1>9 DEF LateSchedule
  <1>10. CASE WorkerTick
    BY <1>10 DEF WorkerTick
  <1>11. CASE WorkerLists
    BY <1>11 DEF WorkerLists, StartRound
  <1>12. ASSUME NEW c \in Calls, WorkerTakes(c)
        PROVE  DateInv'
    BY <1>12 DEF WorkerTakes
  <1>13. CASE WorkerInsertsSlot
    BY <1>13 DEF WorkerInsertsSlot, BulkInsert, InsertSlot
  <1>14. CASE WorkerDone
    BY <1>14 DEF WorkerDone
  <1>15. CASE WorkerListsSome
    BY <1>15 DEF WorkerListsSome, StartRound, Fault
  <1>16. CASE WorkerFailsToList
    BY <1>16 DEF WorkerFailsToList, Fault
  <1>17. CASE WorkerFailsToInsert
    BY <1>17 DEF WorkerFailsToInsert, BulkFails, Fault, RoomInWork
  <1>18. ASSUME NEW room \in Rooms, CreateRoom(room)
        PROVE  DateInv'
    BY <1>18 DEF CreateRoom
  <1>19. ASSUME NEW row \in late, LateSlot(row)
        PROVE  DateInv'
    BY <1>19 DEF LateSlot, InsertSlot
  <1>20. CASE Midnight
    BY <1>20 DEF Midnight
  <1>21. CASE Crash
    BY <1>21 DEF Crash, Fault
  <1>22. CASE Restart
    BY <1>22 DEF Restart
  <1>23. CASE UNCHANGED vars
    BY <1>23 DEF vars
  <1> QED
    BY <1>1, <1>2, <1>3, <1>4, <1>5, <1>6, <1>7, <1>8, <1>9, <1>10, <1>11, <1>12, <1>13, <1>14, <1>15, <1>16, <1>17, <1>18, <1>19, <1>20, <1>21, <1>22, <1>23
    DEF Next, Serve, Work


(* What is stored stays, with the call that it came from.                  *)
LEMMA StoredStays ==
    ASSUME Inv, [Next]_vars
    PROVE  /\ schedules \subseteq schedules'
           /\ \A c \in schedules : call'[c] = call[c]
           /\ \A row : FromSchedule(row) => FromSchedule(row)'
  <1>1. schedules \subseteq schedules' /\ \A d \in schedules : call'[d] = call[d]
    <2> USE DEF Inv, TypeOK, ControlInv,
      tables, calls, work, delays
    <2>1. ASSUME NEW c \in Calls, NEW role \in Roles, NEW request \in Request, CreateHandler(c, role, request)
        PROVE  schedules \subseteq schedules' /\ \A d \in schedules : call'[d] = call[d]
      BY <2>1 DEF CreateHandler, Answer, Proceed
    <2>2. ASSUME NEW c \in Calls, GetRoom(c)
        PROVE  schedules \subseteq schedules' /\ \A d \in schedules : call'[d] = call[d]
      BY <2>2 DEF GetRoom, Answer, Proceed
    <2>3. ASSUME NEW c \in Calls, GetSchedule(c)
        PROVE  schedules \subseteq schedules' /\ \A d \in schedules : call'[d] = call[d]
      BY <2>3 DEF GetSchedule, Answer, Proceed
    <2>4. ASSUME NEW c \in Calls, InsertSchedule(c)
        PROVE  schedules \subseteq schedules' /\ \A d \in schedules : call'[d] = call[d]
      BY <2>4 DEF InsertSchedule, ScheduleStored, Answer, Proceed
    <2>5. ASSUME NEW c \in Calls, CallInsertsSlot(c)
        PROVE  schedules \subseteq schedules' /\ \A d \in schedules : call'[d] = call[d]
      BY <2>5 DEF CallInsertsSlot, BulkInsert, InsertSlot
    <2>6. ASSUME NEW c \in Calls, CallCreated(c)
        PROVE  schedules \subseteq schedules' /\ \A d \in schedules : call'[d] = call[d]
      BY <2>6 DEF CallCreated, Answer
    <2>7. ASSUME NEW c \in Calls, CallFails(c)
        PROVE  schedules \subseteq schedules' /\ \A d \in schedules : call'[d] = call[d]
      BY <2>7 DEF CallFails, Fault, Answer
    <2>8. ASSUME NEW c \in Calls, CallFailsToInsert(c)
        PROVE  schedules \subseteq schedules' /\ \A d \in schedules : call'[d] = call[d]
      BY <2>8 DEF CallFailsToInsert, BulkFails, Fault, Answer
    <2>9. ASSUME NEW c \in Calls, LateSchedule(c)
        PROVE  schedules \subseteq schedules' /\ \A d \in schedules : call'[d] = call[d]
      BY <2>9 DEF LateSchedule
    <2>10. CASE WorkerTick
      BY <2>10 DEF WorkerTick
    <2>11. CASE WorkerLists
      BY <2>11 DEF WorkerLists, StartRound
    <2>12. ASSUME NEW c \in Calls, WorkerTakes(c)
        PROVE  schedules \subseteq schedules' /\ \A d \in schedules : call'[d] = call[d]
      BY <2>12 DEF WorkerTakes
    <2>13. CASE WorkerInsertsSlot
      BY <2>13 DEF WorkerInsertsSlot, BulkInsert, InsertSlot
    <2>14. CASE WorkerDone
      BY <2>14 DEF WorkerDone
    <2>15. CASE WorkerListsSome
      BY <2>15 DEF WorkerListsSome, StartRound, Fault
    <2>16. CASE WorkerFailsToList
      BY <2>16 DEF WorkerFailsToList, Fault
    <2>17. CASE WorkerFailsToInsert
      BY <2>17 DEF WorkerFailsToInsert, BulkFails, Fault, RoomInWork
    <2>18. ASSUME NEW room \in Rooms, CreateRoom(room)
        PROVE  schedules \subseteq schedules' /\ \A d \in schedules : call'[d] = call[d]
      BY <2>18 DEF CreateRoom
    <2>19. ASSUME NEW row \in late, LateSlot(row)
        PROVE  schedules \subseteq schedules' /\ \A d \in schedules : call'[d] = call[d]
      BY <2>19 DEF LateSlot, InsertSlot
    <2>20. CASE Midnight
      BY <2>20 DEF Midnight
    <2>21. CASE Crash
      BY <2>21 DEF Crash, Fault
    <2>22. CASE Restart
      BY <2>22 DEF Restart
    <2>23. CASE UNCHANGED vars
      BY <2>23 DEF vars
    <2> QED
      BY <2>1, <2>2, <2>3, <2>4, <2>5, <2>6, <2>7, <2>8, <2>9, <2>10, <2>11, <2>12, <2>13, <2>14, <2>15, <2>16, <2>17, <2>18, <2>19, <2>20, <2>21, <2>22, <2>23
    DEF Next, Serve, Work
  <1>2. ASSUME NEW row, FromSchedule(row)
        PROVE  FromSchedule(row)'
    <2>1. PICK c \in schedules : CutFrom(row, c)
      BY <1>2 DEF FromSchedule
    <2>2. CutFrom(row, c)'
      BY <1>1, <2>1 DEF CutFrom, SlotOf
    <2> QED BY <1>1, <2>2 DEF FromSchedule
  <1> QED BY <1>1, <1>2

(* No row is made of anything but a stored schedule.                       *)
LEMMA RowsStep ==
    ASSUME Inv, [Next]_vars
    PROVE  RowsInv'
  <1> USE DEF Inv, TypeOK, DateInv, RowsInv,
      tables, calls, work, delays
  <1>1. ASSUME NEW c \in Calls, NEW role \in Roles, NEW request \in Request, CreateHandler(c, role, request)
        PROVE  RowsInv'
    BY <1>1, StoredStays DEF CreateHandler, Answer, Proceed
  <1>2. ASSUME NEW c \in Calls, GetRoom(c)
        PROVE  RowsInv'
    BY <1>2, StoredStays DEF GetRoom, Answer, Proceed
  <1>3. ASSUME NEW c \in Calls, GetSchedule(c)
        PROVE  RowsInv'
    BY <1>3, StoredStays DEF GetSchedule, Answer, Proceed
  <1>4. ASSUME NEW c \in Calls, InsertSchedule(c)
        PROVE  RowsInv'
    <2>1. call[c] \in Request /\ c \in Writers /\ today \in Dates
      BY <1>4, StoredStays DEF InsertSchedule, Writers, ControlInv
    <2>2. CASE RoomIsFree(c) /\ ScheduleStored(c)
      <3>1. \A row \in RowsOf(c, c, today) : CutFrom(row, c)
        BY <2>1, RowsAreCut
      <3>2. c \in schedules' /\ call' = call
        BY <1>4, <2>2 DEF InsertSchedule, ScheduleStored
      <3>3. \A row \in RowsOf(c, c, today) : FromSchedule(row)'
        BY <3>1, <3>2 DEF FromSchedule, CutFrom, SlotOf
      <3> QED BY <1>4, <2>2, <3>3, StoredStays DEF InsertSchedule, ScheduleStored
    <2>3. CASE UNCHANGED <<schedules, from, pending>>
      BY <1>4, <2>3, StoredStays DEF InsertSchedule
    <2> QED BY <1>4, <2>2, <2>3 DEF InsertSchedule
  <1>5. ASSUME NEW c \in Calls, CallInsertsSlot(c)
        PROVE  RowsInv'
    <2>1. FromSchedule(Earliest(pending[c]))
      BY <1>5, EarliestExists DEF CallInsertsSlot, BulkInsert, Writers
    <2> QED BY <1>5, <2>1, StoredStays DEF CallInsertsSlot, BulkInsert, InsertSlot
  <1>6. ASSUME NEW c \in Calls, CallCreated(c)
        PROVE  RowsInv'
    BY <1>6, StoredStays DEF CallCreated, Answer
  <1>7. ASSUME NEW c \in Calls, CallFails(c)
        PROVE  RowsInv'
    BY <1>7, StoredStays DEF CallFails, Fault, Answer
  <1>8. ASSUME NEW c \in Calls, CallFailsToInsert(c)
        PROVE  RowsInv'
    <2>1. FromSchedule(Earliest(pending[c]))
      BY <1>8, EarliestExists DEF CallFailsToInsert, BulkFails, Writers
    <2> QED BY <1>8, <2>1, StoredStays DEF CallFailsToInsert, BulkFails, Fault, Answer
  <1>9. ASSUME NEW c \in Calls, LateSchedule(c)
        PROVE  RowsInv'
    BY <1>9, StoredStays DEF LateSchedule
  <1>10. CASE WorkerTick
    BY <1>10, StoredStays DEF WorkerTick
  <1>11. CASE WorkerLists
    BY <1>11, StoredStays DEF WorkerLists, StartRound
  <1>12. ASSUME NEW c \in Calls, WorkerTakes(c)
        PROVE  RowsInv'
    <2>1. c \in schedules /\ call[c] \in Request /\ Worker \in Writers /\ from[Worker] \in Dates
      BY <1>12, StoredStays DEF WorkerTakes, Writers, RefusalInv, Storable
    <2>2. \A row \in RowsOf(Worker, c, from[Worker]) : FromSchedule(row)
      BY <2>1, RowsAreCut DEF FromSchedule
    <2> QED BY <1>12, <2>2, StoredStays DEF WorkerTakes
  <1>13. CASE WorkerInsertsSlot
    <2>1. FromSchedule(Earliest(pending[Worker]))
      BY <1>13, EarliestExists DEF WorkerInsertsSlot, BulkInsert, Writers
    <2> QED BY <1>13, <2>1, StoredStays DEF WorkerInsertsSlot, BulkInsert, InsertSlot
  <1>14. CASE WorkerDone
    BY <1>14, StoredStays DEF WorkerDone
  <1>15. CASE WorkerListsSome
    BY <1>15, StoredStays DEF WorkerListsSome, StartRound, Fault
  <1>16. CASE WorkerFailsToList
    BY <1>16, StoredStays DEF WorkerFailsToList, Fault
  <1>17. CASE WorkerFailsToInsert
    <2>1. FromSchedule(Earliest(pending[Worker]))
      BY <1>17, EarliestExists DEF WorkerFailsToInsert, BulkFails, Writers
    <2> QED BY <1>17, <2>1, StoredStays DEF WorkerFailsToInsert, BulkFails, Fault, RoomInWork
  <1>18. ASSUME NEW room \in Rooms, CreateRoom(room)
        PROVE  RowsInv'
    BY <1>18, StoredStays DEF CreateRoom
  <1>19. ASSUME NEW row \in late, LateSlot(row)
        PROVE  RowsInv'
    BY <1>19, StoredStays DEF LateSlot, InsertSlot
  <1>20. CASE Midnight
    BY <1>20, StoredStays DEF Midnight
  <1>21. CASE Crash
    <2>1. \A w \in {w \in Writers : pending[w] # {}} : FromSchedule(Earliest(pending[w]))
      BY EarliestExists
    <2> QED BY <1>21, <2>1, StoredStays DEF Crash
  <1>22. CASE Restart
    BY <1>22, StoredStays DEF Restart
  <1>23. CASE UNCHANGED vars
    BY <1>23, StoredStays DEF vars
  <1> QED
    BY <1>1, <1>2, <1>3, <1>4, <1>5, <1>6, <1>7, <1>8, <1>9, <1>10, <1>11, <1>12, <1>13, <1>14, <1>15, <1>16, <1>17, <1>18, <1>19, <1>20, <1>21, <1>22, <1>23
    DEF Next, Serve, Work

-----------------------------------------------------------------------------
(* The invariant is one.                                                   *)

(* It holds at first,                                                      *)
LEMMA Start == Init => Inv
  <1> SUFFICES ASSUME Init PROVE Inv
    OBVIOUS
  <1>1. TypeOK
    BY DEF Init, TypeOK, Control, Results, Writers
  <1>2. DateInv
    <2>1. 0 \in Dates
      BY ConstantsAssumption DEF Dates
    <2> QED BY <2>1 DEF Init, DateInv
  <1>3. ControlInv /\ RefusalInv /\ OneSchedulePerRoom /\ OneSlotPerStart /\ RowsInv
    BY DEF Init, ControlInv, RefusalInv, RefusalStoresNothing, Refusals, OneSchedulePerRoom,
           OneSlotPerStart, RowsInv
  <1> QED BY <1>1, <1>2, <1>3 DEF Inv

(* and for ever.                                                           *)
LEMMA Invariance == Spec => []Inv
  <1>1. Inv /\ [Next]_vars => Inv'
    BY TypeStep, ControlStep, RefusalStep, OneScheduleStep, OneSlotStep, DateStep, RowsStep
    DEF Inv
  <1> QED BY Start, <1>1, PTL DEF Spec

(* Every variable of SlotGeneration keeps its type: in particular, what    *)
(* BulkCreate inserts next is one of the slots it was given.               *)
THEOREM TypeCorrect == Spec => []TypeOK
  <1>1. Inv => TypeOK
    BY DEF Inv
  <1> QED BY <1>1, Invariance, PTL

(* A schedule-create call answered 400, 403, 404 or 409 stored nothing and *)
(* never will, whatever statements are still on their way.                 *)
THEOREM RefusalsAreFinal == Spec => []RefusalStoresNothing
  <1>1. Inv => RefusalStoresNothing
    BY DEF Inv, RefusalInv
  <1> QED BY <1>1, Invariance, PTL

-----------------------------------------------------------------------------
(* Slots do not overlap.                                                   *)

(* A row that was cut from a schedule is half an hour long.                *)
LEMMA HalfHours ==
    ASSUME Inv, NEW c \in schedules, NEW row, CutFrom(row, c)
    PROVE  /\ row.room = call[c].room /\ row.startAt \in Nat /\ row.endAt = row.startAt + 30
           /\ \E day, k \in Nat : row.startAt = day * 1440 + call[c].sch.start + k * 30
  <1>0. PICK day \in 0 .. MaxDay + GenerationDays, w \in Writers :
            \E s \in DaySlots(call[c].sch, day) : row = SlotOf(c, s, w)
    BY DEF CutFrom
  <1>1. PICK s \in DaySlots(call[c].sch, day) : row = SlotOf(c, s, w)
    BY <1>0
  <1>2. call[c].sch \in Sch
    BY RequestsAreSchedules DEF Inv, RefusalInv, Storable
  <1>3. day \in Nat
    BY ConstantsAssumption
  <1>4. /\ s.startAt \in Nat /\ s.endAt = s.startAt + 30
        /\ \E k \in Nat : s.startAt = day * 1440 + call[c].sch.start + k * 30
    BY <1>1, <1>2, <1>3, SlotShape
  <1> QED BY <1>1, <1>3, <1>4 DEF SlotOf

(* No race of create calls, worker and late statements makes two slots of  *)
(* a room that overlap: they lie on the half hours of one schedule.        *)
THEOREM SlotsNeverOverlap == Spec => []NoOverlap
  <1>1. Inv => NoOverlap
    <2> SUFFICES ASSUME Inv, NEW a \in slots, NEW b \in slots, a.room = b.room, Overlap(a, b)
                 PROVE  a = b
      BY DEF NoOverlap
    <2>1. PICK c \in schedules : CutFrom(a, c)
      BY DEF Inv, RowsInv, FromSchedule
    <2>2. PICK d \in schedules : CutFrom(b, d)
      BY DEF Inv, RowsInv, FromSchedule
    <2>3. a.room = call[c].room /\ a.endAt = a.startAt + 30 /\ a.startAt \in Nat
      BY <2>1, HalfHours
    <2>3k. \E day, k \in Nat : a.startAt = day * 1440 + call[c].sch.start + k * 30
      BY <2>1, HalfHours
    <2>4. b.room = call[d].room /\ b.endAt = b.startAt + 30 /\ b.startAt \in Nat
      BY <2>2, HalfHours
    <2>4k. \E day, k \in Nat : b.startAt = day * 1440 + call[d].sch.start + k * 30
      BY <2>2, HalfHours
    <2>5. c = d
      <3>1. a.room = call[c].room /\ b.room = call[d].room
        BY <2>1, <2>2, HalfHours
      <3>2. OneSchedulePerRoom
        BY DEF Inv
      <3> QED BY <3>1, <3>2 DEF OneSchedulePerRoom
    <2>6. call[c].sch.start \in Int
      <3>1. call[c].sch \in Sch
        BY RequestsAreSchedules DEF Inv, RefusalInv, Storable
      <3> QED BY <3>1, HoursAreNumbers
    <2>7. a.startAt < b.startAt + 30 /\ b.startAt < a.startAt + 30
      BY <2>3, <2>4 DEF Overlap
    <2> DEFINE start == call[c].sch.start
    <2>8. PICK day, k \in Nat : a.startAt = day * 1440 + start + k * 30
      BY <2>3k
    <2>9. PICK e, j \in Nat : b.startAt = e * 1440 + start + j * 30
      BY <2>4k, <2>5
    <2>10. start \in Int
      BY <2>6
    <2>11. a.startAt = b.startAt
      <3> HIDE DEF start
      <3>1. (day * 48 + k) - (e * 48 + j) < 1 /\ (e * 48 + j) - (day * 48 + k) < 1
        BY <2>7, <2>8, <2>9, <2>10
      <3> QED BY <2>8, <2>9, <2>10, <3>1
    <2> QED BY <2>11 DEF Inv, OneSlotPerStart
  <1> QED BY <1>1, Invariance, PTL

-----------------------------------------------------------------------------
(* SlotCalendar is implemented.                                            *)

(* A room is open at the hours of its stored schedule.                     *)
LEMMA HoursOfStored ==
    ASSUME Inv, NEW c \in schedules
    PROVE  HoursOf(call[c].room) = call[c].sch
  <1>1. SchedulesOf(call[c].room) = {c}
    BY DEF SchedulesOf, Inv, OneSchedulePerRoom
  <1> QED BY <1>1 DEF HoursOf

(* The four ways in which the tables change.                               *)
NoTableChanges == UNCHANGED <<rooms, schedules, slots>>

RoomOpens ==
    /\ \E room \in Rooms : room \notin rooms /\ rooms' = rooms \cup {room}
    /\ UNCHANGED <<schedules, slots>>

ScheduleIsStored ==
    /\ \E c \in Calls : /\ Storable(c) /\ RoomIsFree(c)
                        /\ schedules' = schedules \cup {c} /\ call'[c] = call[c]
    /\ UNCHANGED <<rooms, slots>>

SlotIsStored ==
    /\ \E row : FromSchedule(row) /\ InsertSlot(row)
    /\ UNCHANGED <<rooms, schedules>>

(* Every step changes the tables in one of these ways.                     *)
LEMMA TableStep ==
    ASSUME Inv, [Next]_vars
    PROVE  NoTableChanges \/ RoomOpens \/ ScheduleIsStored \/ SlotIsStored
  <1> USE DEF Inv, TypeOK, ControlInv, RefusalInv, RowsInv,
      tables, calls, work, delays
  <1>1. ASSUME NEW c \in Calls, NEW role \in Roles, NEW request \in Request, CreateHandler(c, role, request)
        PROVE  NoTableChanges \/ RoomOpens \/ ScheduleIsStored \/ SlotIsStored
    BY <1>1 DEF CreateHandler, NoTableChanges
  <1>2. ASSUME NEW c \in Calls, GetRoom(c)
        PROVE  NoTableChanges \/ RoomOpens \/ ScheduleIsStored \/ SlotIsStored
    BY <1>2 DEF GetRoom, NoTableChanges
  <1>3. ASSUME NEW c \in Calls, GetSchedule(c)
        PROVE  NoTableChanges \/ RoomOpens \/ ScheduleIsStored \/ SlotIsStored
    BY <1>3 DEF GetSchedule, NoTableChanges
  <1>4. ASSUME NEW c \in Calls, InsertSchedule(c)
        PROVE  NoTableChanges \/ RoomOpens \/ ScheduleIsStored \/ SlotIsStored
    BY <1>4 DEF InsertSchedule, ScheduleStored, ScheduleIsStored, NoTableChanges
  <1>5. ASSUME NEW c \in Calls, CallInsertsSlot(c)
        PROVE  NoTableChanges \/ RoomOpens \/ ScheduleIsStored \/ SlotIsStored
    <2>1. FromSchedule(Earliest(pending[c])) /\ InsertSlot(Earliest(pending[c]))
      BY <1>5, EarliestExists DEF CallInsertsSlot, BulkInsert, Writers
    <2> QED BY <1>5, <2>1 DEF CallInsertsSlot, SlotIsStored
  <1>6. ASSUME NEW c \in Calls, CallCreated(c)
        PROVE  NoTableChanges \/ RoomOpens \/ ScheduleIsStored \/ SlotIsStored
    BY <1>6 DEF CallCreated, NoTableChanges
  <1>7. ASSUME NEW c \in Calls, CallFails(c)
        PROVE  NoTableChanges \/ RoomOpens \/ ScheduleIsStored \/ SlotIsStored
    BY <1>7 DEF CallFails, NoTableChanges
  <1>8. ASSUME NEW c \in Calls, CallFailsToInsert(c)
        PROVE  NoTableChanges \/ RoomOpens \/ ScheduleIsStored \/ SlotIsStored
    BY <1>8 DEF CallFailsToInsert, BulkFails, NoTableChanges
  <1>9. ASSUME NEW c \in Calls, LateSchedule(c)
        PROVE  NoTableChanges \/ RoomOpens \/ ScheduleIsStored \/ SlotIsStored
    BY <1>9 DEF LateSchedule, ScheduleIsStored, NoTableChanges
  <1>10. CASE WorkerTick
    BY <1>10 DEF WorkerTick, NoTableChanges
  <1>11. CASE WorkerLists
    BY <1>11 DEF WorkerLists, StartRound, NoTableChanges
  <1>12. ASSUME NEW c \in Calls, WorkerTakes(c)
        PROVE  NoTableChanges \/ RoomOpens \/ ScheduleIsStored \/ SlotIsStored
    BY <1>12 DEF WorkerTakes, NoTableChanges
  <1>13. CASE WorkerInsertsSlot
    <2>1. FromSchedule(Earliest(pending[Worker])) /\ InsertSlot(Earliest(pending[Worker]))
      BY <1>13, EarliestExists DEF WorkerInsertsSlot, BulkInsert, Writers
    <2> QED BY <1>13, <2>1 DEF WorkerInsertsSlot, SlotIsStored
  <1>14. CASE WorkerDone
    BY <1>14 DEF WorkerDone, NoTableChanges
  <1>15. CASE WorkerListsSome
    BY <1>15 DEF WorkerListsSome, StartRound, NoTableChanges
  <1>16. CASE WorkerFailsToList
    BY <1>16 DEF WorkerFailsToList, NoTableChanges
  <1>17. CASE WorkerFailsToInsert
    BY <1>17 DEF WorkerFailsToInsert, BulkFails, RoomInWork, NoTableChanges
  <1>18. ASSUME NEW room \in Rooms, CreateRoom(room)
        PROVE  NoTableChanges \/ RoomOpens \/ ScheduleIsStored \/ SlotIsStored
    BY <1>18 DEF CreateRoom, RoomOpens
  <1>19. ASSUME NEW row \in late, LateSlot(row)
        PROVE  NoTableChanges \/ RoomOpens \/ ScheduleIsStored \/ SlotIsStored
    BY <1>19 DEF LateSlot, SlotIsStored, NoTableChanges
  <1>20. CASE Midnight
    BY <1>20 DEF Midnight, NoTableChanges
  <1>21. CASE Crash
    BY <1>21 DEF Crash, NoTableChanges
  <1>22. CASE Restart
    BY <1>22 DEF Restart, NoTableChanges
  <1>23. CASE UNCHANGED vars
    BY <1>23 DEF vars, NoTableChanges
  <1> QED
    BY <1>1, <1>2, <1>3, <1>4, <1>5, <1>6, <1>7, <1>8, <1>9, <1>10, <1>11, <1>12, <1>13, <1>14, <1>15, <1>16, <1>17, <1>18, <1>19, <1>20, <1>21, <1>22, <1>23
    DEF Next, Serve, Work

(* One schedule decides a room's hours, and keeps doing so.                *)
LEMMA HoursStay ==
    ASSUME Inv, [Next]_vars, schedules' = schedules, NEW room
    PROVE  HoursOf(room)' = HoursOf(room)
  <1>1. SchedulesOf(room)' = SchedulesOf(room)
    BY StoredStays DEF SchedulesOf
  <1>2. SchedulesOf(room) # {} =>
            (CHOOSE c \in SchedulesOf(room) : TRUE) \in schedules
    BY DEF SchedulesOf
  <1> QED BY <1>1, <1>2, StoredStays DEF HoursOf

(* Each of them is a step of SlotCalendar, or shows nothing.               *)
LEMMA CalendarStep ==
    ASSUME Inv, Inv', [Next]_vars
    PROVE  [Calendar!Next]_(Calendar!vars)
  <1> DEFINE hours == [room \in Rooms |-> HoursOf(room)]
  <1>1. schedules' = schedules => hours' = hours
    BY HoursStay
  <1>2. CASE NoTableChanges
    BY <1>1, <1>2 DEF NoTableChanges, Calendar!vars
  <1>3. CASE RoomOpens
    BY <1>1, <1>3 DEF RoomOpens, Calendar!Next, Calendar!OpenRoom
  <1>4. CASE ScheduleIsStored
    <2>1. PICK c \in Calls : /\ Storable(c) /\ RoomIsFree(c)
                             /\ schedules' = schedules \cup {c} /\ call'[c] = call[c]
      BY <1>4 DEF ScheduleIsStored
    <2>2. call[c].room \in Rooms /\ call[c].sch \in Inputs /\ call[c].sch \in Sch
      BY <2>1, RequestsAreSchedules DEF Storable
    <2>3. hours[call[c].room] = [days |-> {}]
      BY <2>1, <2>2 DEF RoomIsFree, HoursOf
    <2>4. ASSUME NEW room, room = call[c].room
          PROVE  HoursOf(room)' = call[c].sch
      <3>1. SchedulesOf(room)' = {c}
        BY <2>1, <2>4, StoredStays DEF RoomIsFree, SchedulesOf
      <3> QED BY <3>1, <2>1 DEF HoursOf
    <2>5. \A room \in Rooms \ {call[c].room} : HoursOf(room)' = HoursOf(room)
      <3> SUFFICES ASSUME NEW room \in Rooms \ {call[c].room}
                   PROVE  HoursOf(room)' = HoursOf(room)
        OBVIOUS
      <3>1. SchedulesOf(room)' = SchedulesOf(room)
        BY <2>1, StoredStays DEF SchedulesOf
      <3>2. SchedulesOf(room) # {} =>
                (CHOOSE d \in SchedulesOf(room) : TRUE) \in schedules
        BY DEF SchedulesOf
      <3> QED BY <3>1, <3>2, StoredStays DEF HoursOf
    <2>6. hours' = [hours EXCEPT ![call[c].room] = call[c].sch]
      <3>1. hours' = [room \in Rooms |-> HoursOf(room)']
        OBVIOUS
      <3>2. \A room \in Rooms :
                HoursOf(room)' = IF room = call[c].room THEN call[c].sch ELSE hours[room]
        <4> SUFFICES ASSUME NEW room \in Rooms
                     PROVE  HoursOf(room)' = IF room = call[c].room THEN call[c].sch ELSE hours[room]
          OBVIOUS
        <4>1. CASE room = call[c].room
          BY <2>4, <4>1
        <4>2. CASE room # call[c].room
          BY <2>5, <4>2
        <4> QED BY <4>1, <4>2
      <3>3. hours' = [room \in Rooms |-> IF room = call[c].room THEN call[c].sch ELSE hours[room]]
        BY <3>1, <3>2
      <3>4. hours = [room \in Rooms |-> hours[room]]
        OBVIOUS
      <3> HIDE DEF hours
      <3> QED BY <3>3, <3>4
    <2>7. /\ call[c].room \in rooms
          /\ call[c].sch.days # {} /\ call[c].sch.days \subseteq 1 .. 7
          /\ call[c].sch.start + SlotMinutes <= call[c].sch.end
      BY <2>1, <2>2, HoursAreNumbers DEF Storable, Valid, SlotMinutes
    <2>8. Calendar!SetHours(call[c].room, call[c].sch)
      BY <1>4, <2>3, <2>6, <2>7
      DEF ScheduleIsStored, Calendar!SetHours, Calendar!Closed, Calendar!SlotMinutes, SlotMinutes
    <2> QED BY <2>2, <2>8 DEF Calendar!Next
  <1>5. CASE SlotIsStored
    <2>1. PICK row : FromSchedule(row) /\ InsertSlot(row)
      BY <1>5 DEF SlotIsStored
    <2>2. CASE \E s \in slots : s.room = row.room /\ s.startAt = row.startAt
      BY <1>1, <1>5, <2>1, <2>2 DEF SlotIsStored, InsertSlot, Calendar!vars
    <2>3. CASE ~\E s \in slots : s.room = row.room /\ s.startAt = row.startAt
      <3>1. PICK c \in schedules : CutFrom(row, c)
        BY <2>1 DEF FromSchedule
      <3>2. PICK day \in 0 .. MaxDay + GenerationDays, w \in Writers :
                /\ Weekday(day) \in call[c].sch.days
                /\ \E s \in DaySlots(call[c].sch, day) : row = SlotOf(c, s, w)
        BY <3>1 DEF CutFrom
      <3>3. PICK s \in DaySlots(call[c].sch, day) : row = SlotOf(c, s, w)
        BY <3>2
      <3>4. call[c].room \in Rooms /\ hours[call[c].room] = call[c].sch
        BY HoursOfStored, RequestsAreSchedules DEF Inv, RefusalInv, Storable
      <3>5. slots' = slots \cup {row} /\ slots' # slots
        BY <2>1, <2>3 DEF InsertSlot
      <3>6. /\ row = Calendar!SlotRow(call[c].room, s, w)
            /\ \A t \in slots : t.room = call[c].room => t.startAt # s.startAt
        BY <2>3, <3>3 DEF SlotOf, Calendar!SlotRow
      <3>7. Calendar!CutSlot(call[c].room, day)
        BY <1>1, <1>5, <3>2, <3>4, <3>5, <3>6
        DEF SlotIsStored, Calendar!CutSlot, Calendar!Weekday, Weekday, Calendar!DaySlots, DaySlots,
            Calendar!Slot, Slot, Calendar!SlotsPerDay, SlotsPerDay, Calendar!DayMinutes, DayMinutes,
            Calendar!SlotMinutes, SlotMinutes
      <3> QED BY <3>2, <3>4, <3>7 DEF Calendar!Next
    <2> QED BY <2>2, <2>3
  <1> QED BY <1>2, <1>3, <1>4, <1>5, TableStep

(* Calls, worker, late statements and crashes together never do more to    *)
(* the tables than open a room, give it hours for good, or add a slot.     *)
THEOREM GenerationImplementsCalendar == Spec => ImplementsCalendar
  <1>1. Init => Calendar!Init
    BY DEF Init, Calendar!Init, Calendar!Closed, HoursOf, SchedulesOf
  <1>2. Inv /\ Inv' /\ [Next]_vars => [Calendar!Next]_(Calendar!vars)
    BY CalendarStep
  <1> QED BY <1>1, <1>2, Invariance, PTL DEF Spec, Calendar!Spec, ImplementsCalendar

-----------------------------------------------------------------------------
(* What a call answered 201 and a finished round of the worker have put    *)
(* into table slots.  Both run BulkCreate, which takes its rows one by one *)
(* and drops the rest when one fails.  The invariant says that whatever a  *)
(* call, or a round, owes is stored or yet to be inserted, and that a      *)
(* failure only drops rows of one room.                                    *)

(* Every one of these slots is among the rows, for that room.              *)
Fit(wanted, room, rows) ==
    \A s \in wanted : \E row \in rows :
        row.room = room /\ row.startAt = s.startAt /\ row.endAt = s.endAt

(* A call owes the slots of its first days from the moment its schedule is *)
(* stored, and has delivered them when it answers 201.                     *)
CallOwes(c) ==
    /\ pc[c] = "createSlots" =>
          Fit(Ahead(c, from[c]), call[c].room, slots \cup pending[c])
    /\ result[c] = "Created" => Fit(Ahead(c, from[c]), call[c].room, slots)

CallInv == \A c \in Calls : CallOwes(c)

(* The worker owes those of every schedule that it has taken, unless an    *)
(* INSERT of that room failed; what it is at is the slots of one room.     *)
RoundInv ==
    /\ round.listed \subseteq schedules
    /\ worker # "generating" => todo = {} /\ pending[Worker] = {}
    /\ \A a, b \in pending[Worker] : a.room = b.room
    /\ \A c \in round.listed \ todo : call[c].room \notin round.failed =>
          Fit(Ahead(c, from[Worker]), call[c].room, slots \cup pending[Worker])

(* Rows are replaced by rows for the same room and time.                   *)
Kept(old, new) ==
    \A a \in old : \E b \in new :
        a.room = b.room /\ a.startAt = b.startAt /\ a.endAt = b.endAt

-----------------------------------------------------------------------------
(* Slots are only added.                                                   *)

(* What fits the rows fits those that replace them.                        *)
LEMMA FitStays ==
    ASSUME NEW wanted, NEW room, NEW old, NEW new, Kept(old, new), Fit(wanted, room, old)
    PROVE  Fit(wanted, room, new)
  <1> SUFFICES ASSUME NEW s \in wanted
               PROVE  \E row \in new :
                          row.room = room /\ row.startAt = s.startAt /\ row.endAt = s.endAt
    BY DEF Fit
  <1>1. PICK a \in old : a.room = room /\ a.startAt = s.startAt /\ a.endAt = s.endAt
    BY DEF Fit
  <1>2. PICK b \in new : a.room = b.room /\ a.startAt = b.startAt /\ a.endAt = b.endAt
    BY DEF Kept
  <1> QED BY <1>1, <1>2

(* BulkCreate is given a row for every slot that Build makes.              *)
LEMMA RowsFit ==
    ASSUME NEW w, NEW c, NEW day
    PROVE  Fit(Ahead(c, day), call[c].room, RowsOf(w, c, day))
  <1> SUFFICES ASSUME NEW s \in Ahead(c, day)
               PROVE  \E row \in RowsOf(w, c, day) :
                          row.room = call[c].room /\ row.startAt = s.startAt /\ row.endAt = s.endAt
    BY DEF Fit
  <1> DEFINE row == [room |-> call[c].room, startAt |-> s.startAt, endAt |-> s.endAt, by |-> w]
  <1>1. row \in RowsOf(w, c, day)
    BY Zenon DEF RowsOf
  <1>2. row.room = call[c].room /\ row.startAt = s.startAt /\ row.endAt = s.endAt
    OBVIOUS
  <1> HIDE DEF row
  <1> QED BY <1>1, <1>2

(* INSERT ... ON CONFLICT DO NOTHING leaves a slot with that start.        *)
LEMMA InsertKeeps ==
    ASSUME NEW row, InsertSlot(row)
    PROVE  slots \subseteq slots'
  BY DEF InsertSlot

(* BulkCreate moves a row from what it has to insert to the table, or      *)
(* finds the same half hour there.                                         *)
LEMMA BulkInsertKeeps ==
    ASSUME Inv, NEW w \in Writers, BulkInsert(w)
    PROVE  slots \subseteq slots' /\ Kept(slots \cup pending[w], slots' \cup pending'[w])
  <1> DEFINE row == Earliest(pending[w])
  <1>1. row \in pending[w] /\ pending'[w] = pending[w] \ {row} /\ InsertSlot(row)
    BY EarliestExists DEF BulkInsert, Inv, TypeOK
  <1> HIDE DEF row
  <1>2. slots \subseteq slots'
    BY <1>1, InsertKeeps
  <1>3. row \in slots' \/ \E s \in slots' : s.room = row.room /\ s.startAt = row.startAt
    BY <1>1 DEF InsertSlot
  <1>4. ASSUME NEW s \in slots', s.room = row.room, s.startAt = row.startAt, s \in slots
        PROVE  s.endAt = row.endAt
    <2>1. FromSchedule(s) /\ FromSchedule(row)
      BY <1>1, <1>4 DEF Inv, RowsInv
    <2>2. s.endAt = s.startAt + 30 /\ row.endAt = row.startAt + 30
      BY <2>1, HalfHours DEF FromSchedule
    <2> QED BY <1>4, <2>2
  <1>5. slots' \subseteq slots \cup {row}
    BY <1>1 DEF InsertSlot
  <1>6. \E b \in slots' : row.room = b.room /\ row.startAt = b.startAt /\ row.endAt = b.endAt
    BY <1>3, <1>4, <1>5
  <1> QED BY <1>1, <1>2, <1>6 DEF Kept

(* No statement removes a slot.                                            *)
LEMMA SlotsStay ==
    ASSUME Inv, [Next]_vars
    PROVE  slots \subseteq slots'
  <1>1. CASE NoTableChanges \/ RoomOpens \/ ScheduleIsStored
    BY <1>1 DEF NoTableChanges, RoomOpens, ScheduleIsStored
  <1>2. CASE SlotIsStored
    BY <1>2, InsertKeeps DEF SlotIsStored
  <1> QED BY <1>1, <1>2, TableStep

-----------------------------------------------------------------------------
(* Calls.                                                                  *)

(* A step that does not move a call leaves what it owes and what it has.   *)
Unmoved(c) ==
    /\ pc'[c] = "createSlots" => pc[c] = "createSlots" /\ pending'[c] = pending[c]
    /\ result'[c] = "Created" => result[c] = "Created"
    /\ pc'[c] = "createSlots" \/ result'[c] = "Created" =>
          call'[c] = call[c] /\ from'[c] = from[c]

(* So it owes, and has, the same as before.                                *)
LEMMA UnmovedOwes ==
    ASSUME NEW c \in Calls, CallOwes(c), Unmoved(c), slots \subseteq slots'
    PROVE  CallOwes(c)'
  <1>1. ASSUME pc'[c] = "createSlots" \/ result'[c] = "Created"
        PROVE  call'[c] = call[c] /\ Ahead(c, from[c])' = Ahead(c, from[c])
    BY <1>1 DEF Unmoved, Ahead
  <1>2. Kept(slots, slots')
    BY DEF Kept
  <1>3. pc'[c] = "createSlots" => Kept(slots \cup pending[c], slots' \cup pending'[c])
    BY DEF Unmoved, Kept
  <1>4. ASSUME pc'[c] = "createSlots"
        PROVE  Fit(Ahead(c, from[c])', call'[c].room, slots' \cup pending'[c])
    <2>1. Fit(Ahead(c, from[c]), call[c].room, slots \cup pending[c])
      BY <1>4 DEF Unmoved, CallOwes
    <2> QED BY <1>1, <1>3, <1>4, <2>1, FitStays
  <1>5. ASSUME result'[c] = "Created"
        PROVE  Fit(Ahead(c, from[c])', call'[c].room, slots')
    <2>1. Fit(Ahead(c, from[c]), call[c].room, slots)
      BY <1>5 DEF Unmoved, CallOwes
    <2> QED BY <1>1, <1>2, <1>5, <2>1, FitStays
  <1> QED BY <1>4, <1>5 DEF CallOwes

(* Every step leaves a call unmoved, or starts, advances or ends its       *)
(* BulkCreate.                                                             *)
LEMMA CallStep ==
    ASSUME Inv, CallInv, [Next]_vars
    PROVE  CallInv'
  <1> USE DEF Inv, TypeOK, ControlInv, Writers, InService, tables, calls, work, delays
  <1>a. \A d \in Calls : CallOwes(d)
    BY DEF CallInv, CallOwes
  <1>b. slots \subseteq slots'
    BY SlotsStay
  <1>c. (\A d \in Calls : CallOwes(d)') => CallInv'
    BY DEF CallInv, CallOwes
  <1>d. ASSUME \A d \in Calls : Unmoved(d)
        PROVE  CallInv'
    BY <1>a, <1>b, <1>c, <1>d, UnmovedOwes
  <1>1. ASSUME NEW c \in Calls, NEW role \in Roles, NEW request \in Request, CreateHandler(c, role, request)
        PROVE  CallInv'
    <2>1. \A d \in Calls : Unmoved(d)
      BY <1>1, ConstantsAssumption DEF CreateHandler, Answer, Proceed, Unmoved
    <2> QED BY <1>d, <2>1
  <1>2. ASSUME NEW c \in Calls, GetRoom(c)
        PROVE  CallInv'
    <2>1. \A d \in Calls : Unmoved(d)
      BY <1>2, ConstantsAssumption DEF GetRoom, Answer, Proceed, Unmoved
    <2> QED BY <1>d, <2>1
  <1>3. ASSUME NEW c \in Calls, GetSchedule(c)
        PROVE  CallInv'
    <2>1. \A d \in Calls : Unmoved(d)
      BY <1>3, ConstantsAssumption DEF GetSchedule, Answer, Proceed, Unmoved
    <2> QED BY <1>d, <2>1
  <1>4. ASSUME NEW c \in Calls, InsertSchedule(c)
        PROVE  CallInv'
    <2>1. \A d \in Calls \ {c} : Unmoved(d)
      BY <1>4 DEF InsertSchedule, ScheduleStored, Proceed, Answer, Unmoved
    <2>2. CASE RoomIsFree(c) /\ ScheduleStored(c)
      <3>1. /\ pc'[c] = "createSlots" /\ result'[c] # "Created" /\ call' = call
            /\ from'[c] = today /\ pending'[c] = RowsOf(c, c, today)
        BY <1>4, <2>2 DEF InsertSchedule, ScheduleStored, Proceed
      <3>2. Fit(Ahead(c, today), call[c].room, RowsOf(c, c, today))
        BY RowsFit
      <3>3. Fit(Ahead(c, today), call[c].room, slots' \cup pending'[c])
        BY <3>1, <3>2 DEF Fit
      <3>4. Ahead(c, from[c])' = Ahead(c, today)
        BY <3>1 DEF Ahead
      <3>5. CallOwes(c)'
        BY <3>1, <3>3, <3>4 DEF CallOwes
      <3> QED BY <1>a, <1>b, <1>c, <2>1, <3>5, UnmovedOwes
    <2>3. CASE Answer(c, "ScheduleExists") /\ UNCHANGED <<schedules, from, pending>>
      <3>1. Unmoved(c)
        BY <1>4, <2>3 DEF InsertSchedule, Answer, Unmoved
      <3> QED BY <1>d, <2>1, <3>1
    <2> QED BY <1>4, <2>2, <2>3 DEF InsertSchedule
  <1>5. ASSUME NEW c \in Calls, CallInsertsSlot(c)
        PROVE  CallInv'
    <2>1. \A d \in Calls \ {c} : Unmoved(d)
      BY <1>5 DEF CallInsertsSlot, BulkInsert, Unmoved
    <2>2. c \in Writers /\ BulkInsert(c) /\ pc[c] = "createSlots"
      BY <1>5 DEF CallInsertsSlot
    <2>3. Kept(slots \cup pending[c], slots' \cup pending'[c])
      BY <2>2, BulkInsertKeeps
    <2>4. Ahead(c, from[c])' = Ahead(c, from[c]) /\ call' = call /\ result' = result
      BY <1>5 DEF CallInsertsSlot, Ahead
    <2>5. Fit(Ahead(c, from[c]), call[c].room, slots' \cup pending'[c])
      BY <2>2, <2>3, <1>a, FitStays DEF CallOwes
    <2>6. CallOwes(c)'
      BY <2>2, <2>4, <2>5 DEF CallOwes
    <2> QED BY <1>a, <1>b, <1>c, <2>1, <2>6, UnmovedOwes
  <1>6. ASSUME NEW c \in Calls, CallCreated(c)
        PROVE  CallInv'
    <2>1. \A d \in Calls \ {c} : Unmoved(d)
      BY <1>6 DEF CallCreated, Answer, Unmoved
    <2>2. /\ pc[c] = "createSlots" /\ pending[c] = {} /\ pc'[c] = "done"
          /\ call' = call /\ slots' = slots /\ Ahead(c, from[c])' = Ahead(c, from[c])
      BY <1>6 DEF CallCreated, Answer, Ahead
    <2>3. Fit(Ahead(c, from[c]), call[c].room, slots \cup pending[c])
      BY <1>a, <2>2 DEF CallOwes
    <2>4. slots \cup pending[c] = slots
      BY <2>2
    <2>5. CallOwes(c)'
      BY <2>2, <2>3, <2>4 DEF CallOwes
    <2> QED BY <1>a, <1>b, <1>c, <2>1, <2>5, UnmovedOwes
  <1>7. ASSUME NEW c \in Calls, CallFails(c)
        PROVE  CallInv'
    <2>1. \A d \in Calls : Unmoved(d)
      BY <1>7, ConstantsAssumption DEF CallFails, Answer, Unmoved
    <2> QED BY <1>d, <2>1
  <1>8. ASSUME NEW c \in Calls, CallFailsToInsert(c)
        PROVE  CallInv'
    <2>1. \A d \in Calls : Unmoved(d)
      BY <1>8, ConstantsAssumption DEF CallFailsToInsert, BulkFails, Answer, Unmoved
    <2> QED BY <1>d, <2>1
  <1>9. ASSUME NEW c \in Calls, LateSchedule(c)
        PROVE  CallInv'
    <2>1. \A d \in Calls : Unmoved(d)
      BY <1>9, ConstantsAssumption DEF LateSchedule, Unmoved
    <2> QED BY <1>d, <2>1
  <1>10. CASE WorkerTick
    <2>1. \A d \in Calls : Unmoved(d)
      BY <1>10, ConstantsAssumption DEF WorkerTick, Unmoved
    <2> QED BY <1>d, <2>1
  <1>11. CASE WorkerLists
    <2>1. \A d \in Calls : Unmoved(d)
      BY <1>11, ConstantsAssumption DEF WorkerLists, StartRound, Unmoved
    <2> QED BY <1>d, <2>1
  <1>12. ASSUME NEW c \in Calls, WorkerTakes(c)
        PROVE  CallInv'
    <2>1. \A d \in Calls : Unmoved(d)
      BY <1>12, ConstantsAssumption DEF WorkerTakes, Unmoved
    <2> QED BY <1>d, <2>1
  <1>13. CASE WorkerInsertsSlot
    <2>1. \A d \in Calls : Unmoved(d)
      BY <1>13, ConstantsAssumption DEF WorkerInsertsSlot, BulkInsert, Unmoved
    <2> QED BY <1>d, <2>1
  <1>14. CASE WorkerDone
    <2>1. \A d \in Calls : Unmoved(d)
      BY <1>14, ConstantsAssumption DEF WorkerDone, Unmoved
    <2> QED BY <1>d, <2>1
  <1>15. CASE WorkerListsSome
    <2>1. \A d \in Calls : Unmoved(d)
      BY <1>15, ConstantsAssumption DEF WorkerListsSome, StartRound, Unmoved
    <2> QED BY <1>d, <2>1
  <1>16. CASE WorkerFailsToList
    <2>1. \A d \in Calls : Unmoved(d)
      BY <1>16, ConstantsAssumption DEF WorkerFailsToList, Unmoved
    <2> QED BY <1>d, <2>1
  <1>17. CASE WorkerFailsToInsert
    <2>1. \A d \in Calls : Unmoved(d)
      BY <1>17, ConstantsAssumption DEF WorkerFailsToInsert, BulkFails, Unmoved
    <2> QED BY <1>d, <2>1
  <1>18. ASSUME NEW room \in Rooms, CreateRoom(room)
        PROVE  CallInv'
    <2>1. \A d \in Calls : Unmoved(d)
      BY <1>18, ConstantsAssumption DEF CreateRoom, Unmoved
    <2> QED BY <1>d, <2>1
  <1>19. ASSUME NEW row \in late, LateSlot(row)
        PROVE  CallInv'
    <2>1. \A d \in Calls : Unmoved(d)
      BY <1>19, ConstantsAssumption DEF LateSlot, Unmoved
    <2> QED BY <1>d, <2>1
  <1>20. CASE Midnight
    <2>1. \A d \in Calls : Unmoved(d)
      BY <1>20, ConstantsAssumption DEF Midnight, Unmoved
    <2> QED BY <1>d, <2>1
  <1>21. CASE Crash
    <2>1. \A d \in Calls : Unmoved(d)
      BY <1>21, ConstantsAssumption DEF Crash, Unmoved
    <2> QED BY <1>d, <2>1
  <1>22. CASE Restart
    <2>1. \A d \in Calls : Unmoved(d)
      BY <1>22, ConstantsAssumption DEF Restart, Unmoved
    <2> QED BY <1>d, <2>1
  <1>23. CASE UNCHANGED vars
    <2>1. \A d \in Calls : Unmoved(d)
      BY <1>23, ConstantsAssumption DEF vars, Unmoved
    <2> QED BY <1>d, <2>1
  <1> QED
    BY <1>1, <1>2, <1>3, <1>4, <1>5, <1>6, <1>7, <1>8, <1>9, <1>10, <1>11, <1>12,
       <1>13, <1>14, <1>15, <1>16, <1>17, <1>18, <1>19, <1>20, <1>21, <1>22, <1>23
    DEF Next, Serve, Work

-----------------------------------------------------------------------------
(* Rounds.                                                                 *)

(* A step that is not the worker's leaves what it owes and what it has.    *)
LEMMA RoundRests ==
    ASSUME Inv, RoundInv, [Next]_vars, UNCHANGED <<work, from[Worker], pending[Worker]>>
    PROVE  RoundInv'
  <1>1. worker' = worker /\ todo' = todo /\ round' = round
    BY DEF work
  <1>2. schedules \subseteq schedules' /\ \A c \in schedules : call'[c] = call[c]
    BY StoredStays
  <1>3. Kept(slots \cup pending[Worker], slots' \cup pending'[Worker])
    BY SlotsStay DEF Kept
  <1>4. ASSUME NEW c \in round.listed \ todo, call'[c].room \notin round.failed
        PROVE  Fit(Ahead(c, from[Worker])', call'[c].room, slots' \cup pending'[Worker])
    <2>1. call'[c] = call[c] /\ Ahead(c, from[Worker])' = Ahead(c, from[Worker])
      BY <1>2 DEF RoundInv, Ahead
    <2>2. Fit(Ahead(c, from[Worker]), call[c].room, slots \cup pending[Worker])
      BY <1>4, <2>1 DEF RoundInv
    <2> QED BY <1>3, <2>1, <2>2, FitStays
  <1> QED BY <1>1, <1>2, <1>4 DEF RoundInv

(* A round begins with everything still to do.                             *)
LEMMA RoundStarts ==
    ASSUME Inv, RoundInv, [Next]_vars, worker = "listing",
           NEW list \in SUBSET schedules, StartRound(list), UNCHANGED pending
    PROVE  RoundInv'
  <1>1. worker' = "generating" /\ todo' = list /\ round' = [listed |-> list, failed |-> {}]
    BY DEF StartRound
  <1>2. schedules \subseteq schedules'
    BY StoredStays
  <1>3. pending'[Worker] = {}
    BY DEF RoundInv
  <1> QED BY <1>1, <1>2, <1>3 DEF RoundInv

(* The worker has done, or still has at hand, what it has taken.           *)
LEMMA RoundStep ==
    ASSUME Inv, RoundInv, [Next]_vars
    PROVE  RoundInv'
  <1> USE ConstantsAssumption DEF tables, calls, work, delays
  <1>t. from \in [Writers -> Nat] /\ pending \in [Writers -> SUBSET Row] /\ Worker \in Writers
    BY DEF Inv, TypeOK, Writers
  <1>1. ASSUME NEW c \in Calls, NEW role \in Roles, NEW request \in Request, CreateHandler(c, role, request)
        PROVE  RoundInv'
    <2>1. UNCHANGED <<work, from[Worker], pending[Worker]>>
      BY <1>1, <1>t DEF CreateHandler, Answer, Proceed
    <2> QED BY <2>1, RoundRests
  <1>2. ASSUME NEW c \in Calls, GetRoom(c)
        PROVE  RoundInv'
    <2>1. UNCHANGED <<work, from[Worker], pending[Worker]>>
      BY <1>2, <1>t DEF GetRoom, Answer, Proceed
    <2> QED BY <2>1, RoundRests
  <1>3. ASSUME NEW c \in Calls, GetSchedule(c)
        PROVE  RoundInv'
    <2>1. UNCHANGED <<work, from[Worker], pending[Worker]>>
      BY <1>3, <1>t DEF GetSchedule, Answer, Proceed
    <2> QED BY <2>1, RoundRests
  <1>4. ASSUME NEW c \in Calls, InsertSchedule(c)
        PROVE  RoundInv'
    <2>1. UNCHANGED <<work, from[Worker], pending[Worker]>>
      BY <1>4, <1>t DEF InsertSchedule, ScheduleStored, Writers
    <2> QED BY <2>1, RoundRests
  <1>5. ASSUME NEW c \in Calls, CallInsertsSlot(c)
        PROVE  RoundInv'
    <2>1. UNCHANGED <<work, from[Worker], pending[Worker]>>
      BY <1>5, <1>t DEF CallInsertsSlot, BulkInsert, Writers
    <2> QED BY <2>1, RoundRests
  <1>6. ASSUME NEW c \in Calls, CallCreated(c)
        PROVE  RoundInv'
    <2>1. UNCHANGED <<work, from[Worker], pending[Worker]>>
      BY <1>6, <1>t DEF CallCreated, Answer
    <2> QED BY <2>1, RoundRests
  <1>7. ASSUME NEW c \in Calls, CallFails(c)
        PROVE  RoundInv'
    <2>1. UNCHANGED <<work, from[Worker], pending[Worker]>>
      BY <1>7, <1>t DEF CallFails, Answer
    <2> QED BY <2>1, RoundRests
  <1>8. ASSUME NEW c \in Calls, CallFailsToInsert(c)
        PROVE  RoundInv'
    <2>1. UNCHANGED <<work, from[Worker], pending[Worker]>>
      BY <1>8, <1>t DEF CallFailsToInsert, BulkFails, Writers
    <2> QED BY <2>1, RoundRests
  <1>9. ASSUME NEW c \in Calls, LateSchedule(c)
        PROVE  RoundInv'
    <2>1. UNCHANGED <<work, from[Worker], pending[Worker]>>
      BY <1>9, <1>t DEF LateSchedule
    <2> QED BY <2>1, RoundRests
  <1>10. CASE WorkerTick
    BY <1>10, <1>t DEF WorkerTick, RoundInv, Ahead
  <1>11. CASE WorkerLists
    BY <1>11, RoundStarts DEF WorkerLists
  <1>12. ASSUME NEW c \in Calls, WorkerTakes(c)
        PROVE  RoundInv'
    <2>1. /\ worker' = "generating" /\ todo' = todo \ {c} /\ round' = round /\ call' = call
          /\ schedules' = schedules /\ slots' = slots /\ from' = from
          /\ pending[Worker] = {} /\ pending'[Worker] = RowsOf(Worker, c, from[Worker])
      BY <1>12, <1>t DEF WorkerTakes
    <2>2. \A a, b \in pending'[Worker] : a.room = b.room
      BY <2>1 DEF RowsOf
    <2>3. ASSUME NEW d \in round.listed \ todo', call[d].room \notin round.failed
          PROVE  Fit(Ahead(d, from[Worker]), call[d].room, slots \cup pending'[Worker])
      <3>1. CASE d = c
        <4>1. Fit(Ahead(c, from[Worker]), call[c].room, pending'[Worker])
          BY <2>1, RowsFit
        <4> QED BY <3>1, <4>1 DEF Fit
      <3>2. CASE d # c
        <4>1. Fit(Ahead(d, from[Worker]), call[d].room, slots \cup pending[Worker])
          BY <2>1, <2>3, <3>2 DEF RoundInv
        <4>2. Kept(slots \cup pending[Worker], slots \cup pending'[Worker])
          BY <2>1 DEF Kept
        <4> QED BY <4>1, <4>2, FitStays
      <3> QED BY <3>1, <3>2
    <2>4. \A d : Ahead(d, from[Worker])' = Ahead(d, from[Worker])
      BY <2>1 DEF Ahead
    <2> QED BY <2>1, <2>2, <2>3, <2>4 DEF RoundInv
  <1>13. CASE WorkerInsertsSlot
    <2>1. /\ worker = "generating" /\ worker' = "generating" /\ todo' = todo /\ round' = round
          /\ call' = call /\ schedules' = schedules /\ from' = from /\ BulkInsert(Worker)
      BY <1>13 DEF WorkerInsertsSlot
    <2>2. Kept(slots \cup pending[Worker], slots' \cup pending'[Worker])
      BY <1>t, <2>1, BulkInsertKeeps
    <2>3. pending'[Worker] \subseteq pending[Worker]
      BY <1>t, <2>1 DEF BulkInsert
    <2>4. \A d : Ahead(d, from[Worker])' = Ahead(d, from[Worker])
      BY <2>1 DEF Ahead
    <2>5. \A d \in round.listed \ todo : call[d].room \notin round.failed =>
              Fit(Ahead(d, from[Worker]), call[d].room, slots' \cup pending'[Worker])
      BY <2>2, FitStays DEF RoundInv
    <2> QED BY <2>1, <2>3, <2>4, <2>5 DEF RoundInv
  <1>14. CASE WorkerDone
    BY <1>14, <1>t DEF WorkerDone, RoundInv, Ahead
  <1>15. CASE WorkerListsSome
    BY <1>15, RoundStarts DEF WorkerListsSome
  <1>16. CASE WorkerFailsToList
    BY <1>16, <1>t DEF WorkerFailsToList, RoundInv, Ahead
  <1>17. CASE WorkerFailsToInsert
    <2>1. /\ worker = "generating" /\ worker' = "generating" /\ todo' = todo
          /\ call' = call /\ schedules' = schedules /\ slots' = slots /\ from' = from
          /\ pending[Worker] # {} /\ pending'[Worker] = {}
      BY <1>17, <1>t DEF WorkerFailsToInsert, BulkFails
    <2>2. round'.listed = round.listed /\ round'.failed = round.failed \cup {RoomInWork}
      BY <1>17 DEF WorkerFailsToInsert, Inv, TypeOK
    <2>3. \A row \in pending[Worker] : row.room = RoomInWork
      BY <1>t, <2>1, EarliestExists DEF RoomInWork, RoundInv
    <2>4. ASSUME NEW d \in round.listed \ todo, call[d].room \notin round'.failed
          PROVE  Fit(Ahead(d, from[Worker]), call[d].room, slots)
      <3>1. call[d].room # RoomInWork /\ call[d].room \notin round.failed
        BY <2>2, <2>4
      <3>2. Fit(Ahead(d, from[Worker]), call[d].room, slots \cup pending[Worker])
        BY <2>4, <3>1 DEF RoundInv
      <3> QED BY <2>3, <3>1, <3>2 DEF Fit
    <2>5. \A d : Ahead(d, from[Worker])' = Ahead(d, from[Worker])
      BY <2>1 DEF Ahead
    <2>6. slots' \cup pending'[Worker] = slots
      BY <2>1
    <2> QED BY <2>1, <2>2, <2>4, <2>5, <2>6 DEF RoundInv
  <1>18. ASSUME NEW room \in Rooms, CreateRoom(room)
        PROVE  RoundInv'
    <2>1. UNCHANGED <<work, from[Worker], pending[Worker]>>
      BY <1>18, <1>t DEF CreateRoom
    <2> QED BY <2>1, RoundRests
  <1>19. ASSUME NEW row \in late, LateSlot(row)
        PROVE  RoundInv'
    <2>1. UNCHANGED <<work, from[Worker], pending[Worker]>>
      BY <1>19, <1>t DEF LateSlot
    <2> QED BY <2>1, RoundRests
  <1>20. CASE Midnight
    <2>1. UNCHANGED <<work, from[Worker], pending[Worker]>>
      BY <1>20, <1>t DEF Midnight
    <2> QED BY <2>1, RoundRests
  <1>21. CASE Crash
    BY <1>21, <1>t DEF Crash, RoundInv
  <1>22. CASE Restart
    BY <1>22, <1>t DEF Restart, RoundInv, Ahead
  <1>23. CASE UNCHANGED vars
    <2>1. UNCHANGED <<work, from[Worker], pending[Worker]>>
      BY <1>23, <1>t DEF vars
    <2> QED BY <2>1, RoundRests
  <1> QED
    BY <1>1, <1>2, <1>3, <1>4, <1>5, <1>6, <1>7, <1>8, <1>9, <1>10, <1>11, <1>12,
       <1>13, <1>14, <1>15, <1>16, <1>17, <1>18, <1>19, <1>20, <1>21, <1>22, <1>23
    DEF Next, Serve, Work

-----------------------------------------------------------------------------
(* At first nobody owes anything.                                          *)
LEMMA CoverageStart == Init => CallInv /\ RoundInv
  BY DEF Init, CallInv, CallOwes, RoundInv, Writers

(* Both parts hold whatever happens.                                       *)
LEMMA CoverageInvariance == Spec => [](Inv /\ CallInv /\ RoundInv)
  <1>1. Inv /\ CallInv /\ RoundInv /\ [Next]_vars => CallInv' /\ RoundInv'
    BY CallStep, RoundStep
  <1> QED BY CoverageStart, <1>1, Invariance, PTL DEF Spec

(* A schedule-create call that is answered 201 has stored its schedule,    *)
(* and each half hour of its first days is in table slots, whoever of the  *)
(* call, the worker and late statements came first.                        *)
THEOREM CreatedIsGenerated == Spec => []CreatedMeansGenerated
  <1>1. Inv /\ CallInv => CreatedMeansGenerated
    BY DEF Inv, RefusalInv, CallInv, CallOwes, CreatedMeansGenerated, Covered, Fit
  <1> QED BY <1>1, CoverageInvariance, PTL

(* A round of the worker that is over has generated the days ahead of      *)
(* every room it listed, but those whose own INSERT failed.                *)
THEOREM FailuresAreIsolated == Spec => []RoundIsolatesFailures
  <1>1. RoundInv => RoundIsolatesFailures
    <2> SUFFICES ASSUME RoundInv, worker = "waiting", NEW c \in round.listed,
                        call[c].room \notin round.failed
                 PROVE  Covered(c, from[Worker])
      BY DEF RoundIsolatesFailures
    <2>1. todo = {} /\ slots \cup pending[Worker] = slots
      BY DEF RoundInv
    <2>2. Fit(Ahead(c, from[Worker]), call[c].room, slots)
      BY <2>1 DEF RoundInv
    <2> QED BY <2>2 DEF Covered, Fit
  <1> QED BY <1>1, CoverageInvariance, PTL

=============================================================================
