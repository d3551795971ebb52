--------------------------- MODULE SlotGeneration ---------------------------
(***************************************************************************)
(* How slots come into being: POST /rooms/{roomID}/schedule/create, which  *)
(* stores a room's schedule and cuts its first days into slots, and the    *)
(* slot worker, which does the same again and again as the days pass.      *)
(* Both insert slot by slot, in no transaction, and either can fail or die *)
(* between two of the statements.                                          *)
(*                                                                         *)
(* A step is one SQL statement with the local code up to the next one.  A  *)
(* schedule carries a fresh UUID, so the call that makes it is its name.   *)
(* So does a slot; of that the model keeps who made it.                    *)
(***************************************************************************)
EXTENDS SlotBuilder

CONSTANTS
    Rooms,           \* the ids of the rooms that ever exist
    Calls,           \* the schedule-create calls, and the ids they generate
    Inputs,          \* the [days, start, end] that their bodies parse to
    Roles,           \* the roles that the tokens of callers carry
    Worker,          \* the slot worker
    GenerationDays,  \* WORKER_SLOT_GENERATION_DAYS
    MaxDay,          \* bound on the calendar
    MaxFaults        \* bound on failed statements, cut-off lists and crashes

ASSUME ConstantsAssumption ==
    /\ Inputs \subseteq [days : SUBSET Int, start : 0 .. DayMinutes - 1,
                         end : 0 .. DayMinutes - 1]
    /\ Worker \notin Calls
    /\ GenerationDays \in Nat \ {0}
    /\ MaxDay \in Nat
    /\ MaxFaults \in Nat

VARIABLES
    today,      \* the UTC date
    rooms,      \* table rooms
    schedules,  \* table schedules: the calls whose row is stored
    slots,      \* table slots
    call,       \* what each schedule-create call asks for
    pc,         \* the statement each call makes next
    result,     \* its answer
    worker,     \* where the slot worker is
    todo,       \* the schedules that it has yet to process
    round,      \* of its current round: the schedules listed, the rooms failed
    from,       \* the first day that each call, and the worker, generates
    pending,    \* the slots that the BulkCreate of each has yet to insert
    late,       \* the slots whose abandoned INSERT may still be executed
    lateCalls,  \* the calls whose abandoned INSERT of a schedule may be
    faults      \* what went wrong so far

tables == <<rooms, schedules, slots>>
calls  == <<call, pc, result>>
work   == <<worker, todo, round>>
delays == <<late, lateCalls>>
vars   == <<today, rooms, schedules, slots, call, pc, result, worker, todo, round,
            from, pending, late, lateCalls, faults>>

NoRequest == [room |-> "none"]
Request   == [room : Rooms, sch : Inputs]
Writers   == Calls \cup {Worker}
Row       == [room : Rooms, startAt : Nat, endAt : Nat, by : Writers]

InService == {"getRoom", "getSchedule", "insertSchedule", "createSlots"}
Control   == InService \cup {"idle", "done", "lost"}
Refusals  == {"Forbidden", "RoomNotFound", "ScheduleExists", "InvalidRequest"}
Results   == Refusals \cup {"none", "Created", "Internal"}

TypeOK ==
    /\ today \in Nat
    /\ rooms \subseteq Rooms
    /\ schedules \subseteq Calls
    /\ slots \subseteq Row
    /\ call \in [Calls -> Request \cup {NoRequest}]
    /\ pc \in [Calls -> Control]
    /\ result \in [Calls -> Results]
    /\ worker \in {"down", "waiting", "listing", "generating"}
    /\ todo \subseteq Calls
    /\ round \in [listed : SUBSET Calls, failed : SUBSET Rooms]
    /\ from \in [Writers -> Nat]
    /\ pending \in [Writers -> SUBSET Row]
    /\ late \subseteq Row
    /\ lateCalls \subseteq Calls
    /\ faults \in Nat

Init ==
    /\ today = 0
    /\ rooms = {} /\ schedules = {} /\ slots = {}
    /\ call = [c \in Calls |-> NoRequest]
    /\ pc = [c \in Calls |-> "idle"]
    /\ result = [c \in Calls |-> "none"]
    /\ worker = "listing"
    /\ todo = {}
    /\ round = [listed |-> {}, failed |-> {}]
    /\ from = [w \in Writers |-> 0]
    /\ pending = [w \in Writers |-> {}]
    /\ late = {} /\ lateCalls = {}
    /\ faults = 0

-----------------------------------------------------------------------------
(* Helpers.                                                                *)

(* Something goes wrong, as long as MaxFaults allows.                      *)
Fault == faults < MaxFaults /\ faults' = faults + 1

Proceed(c, next) == pc' = [pc EXCEPT ![c] = next] /\ UNCHANGED result
Answer(c, res)   == pc' = [pc EXCEPT ![c] = "done"] /\ result' = [result EXCEPT ![c] = res]

(* Service.Create 67-92, and again the CHECKs of table schedules.          *)
Valid(sch) ==
    /\ sch.days # {} /\ sch.days \subseteq 1 .. 7
    /\ sch.end > sch.start
    /\ sch.end - sch.start >= SlotMinutes

SchedulesOf(room) == {c \in schedules : call[c].room = room}

(* What Build makes of schedule c for GenerationDays from day on.          *)
Ahead(c, day) == Build(call[c].sch, day, day + GenerationDays)

RowsOf(w, c, day) ==
    {[room |-> call[c].room, startAt |-> s.startAt, endAt |-> s.endAt, by |-> w] :
        s \in Ahead(c, day)}

Earliest(rows) == CHOOSE x \in rows : \A y \in rows : x.startAt <= y.startAt

(* INSERT INTO slots ... ON CONFLICT (room_id, start_at) DO NOTHING.       *)
InsertSlotUpserting(row) ==                                      \* defect
    slots' = {s \in slots : s.room # row.room \/ s.startAt # row.startAt} \cup {row}

InsertSlot(row) ==
    slots' = IF \E s \in slots : s.room = row.room /\ s.startAt = row.startAt
             THEN slots ELSE slots \cup {row}

(* INSERT INTO schedules, and schedules_room_id_unique.                    *)
RoomIsFreeUnchecked(c) == TRUE                                   \* defect
RoomIsFree(c) == SchedulesOf(call[c].room) = {}

-----------------------------------------------------------------------------
(* POST /rooms/{roomID}/schedule/create                                    *)

CreateHandler(c, role, request) ==
    /\ worker # "down"
    /\ pc[c] = "idle"
    /\ call' = [call EXCEPT ![c] = request]
    /\ IF role # "admin" THEN Answer(c, "Forbidden") ELSE Proceed(c, "getRoom")
    /\ UNCHANGED <<today, tables, work, from, pending, delays, faults>>

GetRoom(c) ==
    /\ pc[c] = "getRoom"
    /\ IF call[c].room \in rooms THEN Proceed(c, "getSchedule")
                                 ELSE Answer(c, "RoomNotFound")
    /\ UNCHANGED <<today, tables, call, work, from, pending, delays, faults>>

(* scheduleRepo.GetByRoomID, then the validation.                          *)
GetSchedule(c) ==
    /\ pc[c] = "getSchedule"
    /\ IF SchedulesOf(call[c].room) # {} THEN Answer(c, "ScheduleExists")
       ELSE IF ~Valid(call[c].sch) THEN Answer(c, "InvalidRequest")
       ELSE Proceed(c, "insertSchedule")
    /\ UNCHANGED <<today, tables, call, work, from, pending, delays, faults>>

(* The row is there; the clock is read, and Build's slots are to follow.   *)
ScheduleStored(c) ==
    /\ schedules' = schedules \cup {c}
    /\ from' = [from EXCEPT ![c] = today]
    /\ pending' = [pending EXCEPT ![c] = RowsOf(c, c, today)]
    /\ Proceed(c, "createSlots")

InsertSchedule(c) ==
    /\ pc[c] = "insertSchedule"
    /\ \/ RoomIsFree(c) /\ ScheduleStored(c)
       \/ ~RoomIsFree(c) /\ Answer(c, "ScheduleExists") /\ UNCHANGED <<schedules, from, pending>>
    /\ UNCHANGED <<today, rooms, slots, call, work, delays, faults>>

(* A read fails, or the INSERT gets no answer: it may yet be executed.     *)
CallFailsAsConflict(c) ==                                        \* defect
    /\ pc[c] \in {"getRoom", "getSchedule", "insertSchedule"}
    /\ Fault /\ Answer(c, "ScheduleExists")
    /\ lateCalls' = IF pc[c] = "insertSchedule" THEN lateCalls \cup {c} ELSE lateCalls
    /\ UNCHANGED <<today, tables, call, work, from, pending, late>>

CallFails(c) ==
    /\ pc[c] \in {"getRoom", "getSchedule", "insertSchedule"}
    /\ Fault /\ Answer(c, "Internal")
    /\ lateCalls' = IF pc[c] = "insertSchedule" THEN lateCalls \cup {c} ELSE lateCalls
    /\ UNCHANGED <<today, tables, call, work, from, pending, late>>

-----------------------------------------------------------------------------
(* slotRepo.BulkCreate, as the call and the worker use it: one INSERT      *)
(* after the other, in Build's order, up to the first that fails.          *)

BulkInsert(w) ==
    /\ pending[w] # {}
    /\ InsertSlot(Earliest(pending[w]))
    /\ pending' = [pending EXCEPT ![w] = @ \ {Earliest(@)}]

BulkFails(w) ==
    /\ pending[w] # {}
    /\ Fault
    /\ pending' = [pending EXCEPT ![w] = {}]
    /\ late' = late \cup {Earliest(pending[w])}

CallInsertsSlot(c) ==
    /\ pc[c] = "createSlots"
    /\ BulkInsert(c)
    /\ UNCHANGED <<today, rooms, schedules, calls, work, from, delays, faults>>

CallFailsToInsertButGoesOn(c) ==                                 \* defect
    /\ pc[c] = "createSlots"
    /\ BulkFails(c) /\ Answer(c, "Created")
    /\ UNCHANGED <<today, tables, call, work, from, lateCalls>>

CallFailsToInsert(c) ==
    /\ pc[c] = "createSlots"
    /\ BulkFails(c) /\ Answer(c, "Internal")
    /\ UNCHANGED <<today, tables, call, work, from, lateCalls>>

CallCreated(c) ==
    /\ pc[c] = "createSlots"
    /\ pending[c] = {}
    /\ Answer(c, "Created")
    /\ UNCHANGED <<today, tables, call, work, from, pending, delays, faults>>

-----------------------------------------------------------------------------
(* The slot worker.                                                        *)

WorkerTick ==
    /\ worker = "waiting"
    /\ worker' = "listing"
    /\ UNCHANGED <<today, tables, calls, todo, round, from, pending, delays, faults>>

StartRoundOfFirstDay(list) ==                                    \* defect
    /\ worker' = "generating"
    /\ todo' = list
    /\ round' = [listed |-> list, failed |-> {}]
    /\ UNCHANGED from

(* generate gets its list and reads the clock.                             *)
StartRound(list) ==
    /\ worker' = "generating"
    /\ todo' = list
    /\ round' = [listed |-> list, failed |-> {}]
    /\ from' = [from EXCEPT ![Worker] = today]

WorkerLists ==
    /\ worker = "listing"
    /\ StartRound(schedules)
    /\ UNCHANGED <<today, tables, calls, pending, delays, faults>>

(* ListAll does not look at rows.Err, and Storage.Query has cancelled the  *)
(* context before the rows are read: when that, or a broken connection,    *)
(* ends the reading, ListAll returns some of the rows and no error.        *)
WorkerListsSome ==
    /\ worker = "listing"
    /\ Fault
    /\ \E list \in SUBSET schedules : StartRound(list)
    /\ UNCHANGED <<today, tables, calls, pending, delays>>

WorkerFailsToListAndReturns ==                                   \* defect
    /\ worker = "listing"
    /\ Fault
    /\ worker' = "returned"
    /\ UNCHANGED <<today, tables, calls, todo, round, from, pending, delays>>

WorkerFailsToList ==
    /\ worker = "listing"
    /\ Fault
    /\ worker' = "waiting"
    /\ UNCHANGED <<today, tables, calls, todo, round, from, pending, delays>>

WorkerTakes(c) ==
    /\ worker = "generating" /\ pending[Worker] = {}
    /\ c \in todo
    /\ todo' = todo \ {c}
    /\ pending' = [pending EXCEPT ![Worker] = RowsOf(Worker, c, from[Worker])]
    /\ UNCHANGED <<today, tables, calls, worker, round, from, delays, faults>>

WorkerInsertsSlot ==
    /\ worker = "generating"
    /\ BulkInsert(Worker)
    /\ UNCHANGED <<today, rooms, schedules, calls, work, from, delays, faults>>

RoomInWork == Earliest(pending[Worker]).room

(* The error is logged and the next schedule is taken.                     *)
WorkerFailsToInsertAndStops ==                                   \* defect
    /\ worker = "generating"
    /\ BulkFails(Worker)
    /\ round' = [round EXCEPT !.failed = @ \cup {RoomInWork}]
    /\ todo' = {}
    /\ UNCHANGED <<today, tables, calls, worker, from, lateCalls>>

WorkerFailsToInsert ==
    /\ worker = "generating"
    /\ BulkFails(Worker)
    /\ round' = [round EXCEPT !.failed = @ \cup {RoomInWork}]
    /\ UNCHANGED <<today, tables, calls, worker, todo, from, lateCalls>>

WorkerDone ==
    /\ worker = "generating" /\ pending[Worker] = {} /\ todo = {}
    /\ worker' = "waiting"
    /\ UNCHANGED <<today, tables, calls, todo, round, from, pending, delays, faults>>

-----------------------------------------------------------------------------
(* The surroundings.                                                       *)

CreateRoom(room) ==
    /\ room \notin rooms
    /\ rooms' = rooms \cup {room}
    /\ UNCHANGED <<today, schedules, slots, calls, work, from, pending, delays, faults>>

Midnight ==
    /\ today < MaxDay
    /\ today' = today + 1
    /\ UNCHANGED <<tables, calls, work, from, pending, delays, faults>>

(* The process dies with what it was doing.                                *)
Crash ==
    /\ worker # "down"
    /\ Fault
    /\ worker' = "down"
    /\ pc' = [c \in Calls |-> IF pc[c] \in InService THEN "lost" ELSE pc[c]]
    /\ late' = late \cup {Earliest(pending[w]) : w \in {w \in Writers : pending[w] # {}}}
    /\ lateCalls' = lateCalls \cup {c \in Calls : pc[c] = "insertSchedule"}
    /\ pending' = [w \in Writers |-> {}]
    /\ todo' = {}
    /\ round' = [listed |-> {}, failed |-> {}]
    /\ UNCHANGED <<today, tables, call, result, from>>

(* main starts the server and the worker, whose first round is at once.    *)
Restart ==
    /\ worker = "down"
    /\ worker' = "listing"
    /\ UNCHANGED <<today, tables, calls, todo, round, from, pending, delays, faults>>

(* The server executes, or drops, a statement whose client is gone.        *)
LateSlot(row) ==
    /\ row \in late
    /\ late' = late \ {row}
    /\ InsertSlot(row) \/ UNCHANGED slots
    /\ UNCHANGED <<today, rooms, schedules, calls, work, from, pending, lateCalls, faults>>

LateSchedule(c) ==
    /\ c \in lateCalls
    /\ lateCalls' = lateCalls \ {c}
    /\ schedules' = schedules \/ (RoomIsFree(c) /\ schedules' = schedules \cup {c})
    /\ UNCHANGED <<today, rooms, slots, calls, work, from, pending, late, faults>>

-----------------------------------------------------------------------------
Serve(c) ==
    GetRoom(c) \/ GetSchedule(c) \/ InsertSchedule(c) \/ CallInsertsSlot(c) \/ CallCreated(c)

Work ==
    \/ WorkerTick \/ WorkerLists \/ WorkerInsertsSlot \/ WorkerDone
    \/ \E c \in Calls : WorkerTakes(c)

Next ==
    \/ \E c \in Calls :
          \/ \E role \in Roles, request \in Request : CreateHandler(c, role, request)
          \/ Serve(c) \/ CallFails(c) \/ CallFailsToInsert(c) \/ LateSchedule(c)
    \/ Work
    \/ WorkerListsSome \/ WorkerFailsToList \/ WorkerFailsToInsert
    \/ \E room \in Rooms : CreateRoom(room)
    \/ \E row \in late : LateSlot(row)
    \/ Midnight \/ Crash \/ Restart

Spec == Init /\ [][Next]_vars

(* A call and the worker are goroutines that nothing blocks, the ticker    *)
(* ticks, and somebody restarts a dead process.                            *)
Fairness ==
    /\ \A c \in Calls : WF_vars(Serve(c))
    /\ WF_vars(Work)
    /\ WF_vars(Restart)

FairSpec == Spec /\ Fairness

-----------------------------------------------------------------------------
(* Properties.                                                             *)

(* The slots of a room never overlap, although the table only forbids two  *)
(* that start together: they are all cut from one schedule, which no race  *)
(* of two create calls, retry or late INSERT doubles or changes.           *)
NoOverlap ==
    \A a, b \in slots : a.room = b.room /\ Overlap(a, b) => a = b

(* A call refused with a definite error stored nothing, now or later.      *)
RefusalStoresNothing ==
    \A c \in Calls : result[c] \in Refusals => c \notin schedules /\ c \notin lateCalls

(* All the slots that Build makes of schedule c from day on are there.     *)
Covered(c, day) ==
    \A s \in Ahead(c, day) : \E row \in slots :
        row.room = call[c].room /\ row.startAt = s.startAt /\ row.endAt = s.endAt

(* A call answered 201 has its schedule and every slot of its first days,  *)
(* whoever inserted them first.                                            *)
CreatedMeansGenerated ==
    \A c \in Calls : result[c] = "Created" => c \in schedules /\ Covered(c, from[c])

(* What it all amounts to in terms of SlotCalendar: a room is open at the  *)
(* hours of its stored schedule.                                           *)
HoursOf(room) ==
    IF SchedulesOf(room) = {} THEN [days |-> {}]
    ELSE call[CHOOSE c \in SchedulesOf(room) : TRUE].sch

Calendar == INSTANCE SlotCalendar WITH
    Hours <- Inputs, Makers <- Writers, Days <- 0 .. MaxDay + GenerationDays,
    hours <- [room \in Rooms |-> HoursOf(room)]

(* Calls, worker and late statements together implement the calendar: each *)
(* step opens a room, gives an open room without hours its hours, or adds  *)
(* one slot of those hours, or nothing of it shows.                        *)
ImplementsCalendar == Calendar!Spec

(* A round that is over leaves out only rooms whose own INSERT failed: an  *)
(* error of one schedule costs the others nothing.                         *)
RoundIsolatesFailures ==
    worker = "waiting" =>
        \A c \in round.listed :
            call[c].room \notin round.failed => Covered(c, from[Worker])

(* Whatever failed on the way, a stored schedule gets all the slots of the *)
(* days ahead, also when its call died or was told 500.                    *)
HorizonIsCovered ==
    \A c \in Calls : c \in schedules ~> (c \in schedules /\ Covered(c, today))
=============================================================================
