-------------------------------- MODULE Seed --------------------------------
(***************************************************************************)
(* cmd/seed/main.go: demonstration data, put into a database that may hold *)
(* the remains of earlier runs of the command, beside other runs of it and *)
(* beside a service whose users, admins and worker write the same tables.  *)
(*                                                                         *)
(* A step is one statement with the local code up to the next one.  The    *)
(* service's own writes are steps of the surroundings.                     *)
(***************************************************************************)
EXTENDS SlotBuilder, Sequences

CONSTANTS
    Runs,           \* the runs of the command
    SeedRooms,      \* the rooms of seedData, in its order: <<board, focus>>
    HoursOf,        \* the hours of each, 9 to 12 and 13 to 17
    OtherHours,     \* hours an admin may have given one of them instead
    Target,         \* 9:00, in minutes
    GenerationDays, \* WORKER_SLOT_GENERATION_DAYS
    MaxDay,         \* bound on the calendar
    MaxFaults       \* bound on failed statements and deaths

Rooms == {SeedRooms[i] : i \in 1 .. Len(SeedRooms)}
Board == SeedRooms[1]
Users == {"admin", "user"}

ASSUME ConstantsAssumption ==
    /\ Len(SeedRooms) \in Nat \ {0}
    /\ \A room \in Rooms : HoursOf[room].days = 1 .. 7
    /\ Target = HoursOf[Board].start
    /\ GenerationDays \in Nat \ {0}
    /\ {MaxDay, MaxFaults} \subseteq Nat

VARIABLES
    today,     \* the UTC date
    users,     \* who has the address of each test user: "none", "seed", "other"
    rooms,     \* table rooms, of the seed rooms
    hours,     \* table schedules: the hours of each, or Closed
    slots,     \* table slots
    held,      \* the slots that an active booking holds
    run,       \* each run: its next statement and what it keeps for it
    faults     \* what went wrong so far

tables == <<users, rooms, hours, slots, held>>
vars   == <<today, users, rooms, hours, slots, held, run, faults>>

AllHours == {OtherHours} \cup {HoursOf[room] : room \in Rooms}

(* They pass the validation of slot.Service.Create.                        *)
ASSUME HoursAssumption ==
    \A sch \in AllHours :
        /\ sch \in [days : SUBSET (1 .. 7), start : 0 .. DayMinutes - 1, end : 0 .. DayMinutes - 1]
        /\ sch.days # {} /\ sch.start + SlotMinutes <= sch.end

Closed == [days |-> {}]

(* Who inserted a slot is not kept.                                        *)
Row(room, s) == [room |-> room, startAt |-> s.startAt, endAt |-> s.endAt, by |-> "anyone"]

(* How a run ends: well, with the error that ended it, or not at all.      *)
Ended == {"ok", "Internal", "EmailTaken", "ScheduleExists", "SlotInThePast",
          "ConferenceUnavailable", "died"}

Init ==
    /\ today = 0
    /\ users = [u \in Users |-> "none"]
    /\ rooms = {}
    /\ hours = [room \in Rooms |-> Closed]
    /\ slots = {} /\ held = {}
    /\ run = [w \in Runs |-> [pc |-> "idle"]]
    /\ faults = 0

-----------------------------------------------------------------------------
Fault       == faults < MaxFaults /\ faults' = faults + 1
At(w, l)    == run[w].pc = l
Set(w, x)   == run' = [run EXCEPT ![w] = x]
GoTo(w, l)  == run' = [run EXCEPT ![w].pc = l]
End(w, how) == Set(w, [pc |-> how])
Room(w)     == SeedRooms[run[w].room]

(* After a room comes the next one, after the last the sample booking, for *)
(* which the clock is read.                                                *)
RoomDone(w) ==
    IF run[w].room < Len(SeedRooms)
    THEN Set(w, [run[w] EXCEPT !.pc = "upsertRoom", !.room = @ + 1])
    ELSE Set(w, [pc |-> "listSlots", tomorrow |-> today + 1])

(* What Build makes of a schedule from each day on, computed once.         *)
Ahead ==
    [sch \in AllHours |-> [day \in 0 .. MaxDay |-> Build(sch, day, day + GenerationDays)]]

SlotsFrom(room, sch, day) == {Row(room, s) : s \in Ahead[sch][day]}
SlotsAhead(room, sch)     == SlotsFrom(room, sch, today)

Earliest(rows) == CHOOSE x \in rows : \A y \in rows : x.startAt <= y.startAt

AddSlot(row) ==
    slots' = IF \E s \in slots : s.room = row.room /\ s.startAt = row.startAt
             THEN slots ELSE slots \cup {row}

-----------------------------------------------------------------------------
(* seedData.  A run remembers which rooms had a schedule when it started;  *)
(* the code does not.                                                      *)

Start(w) ==
    /\ At(w, "idle")
    /\ Set(w, [pc |-> "admin", room |-> 1, pending |-> {},
               open |-> {room \in Rooms : hours[room] # Closed}])
    /\ UNCHANGED <<today, tables, faults>>

(* userRepo.Ensure, for the admin and then the user: ON CONFLICT (id), so  *)
(* that an address taken under another id is an error.                     *)
Ensure(w, u, next) ==
    /\ At(w, u)
    /\ IF users[u] = "other" THEN End(w, "EmailTaken") /\ UNCHANGED users
       ELSE GoTo(w, next) /\ users' = [users EXCEPT ![u] = "seed"]
    /\ UNCHANGED <<today, rooms, hours, slots, held, faults>>

InsertRoom(w) ==                                                 \* defect
    /\ At(w, "upsertRoom")
    /\ IF Room(w) \in rooms THEN End(w, "Internal") ELSE GoTo(w, "getSchedule")
    /\ rooms' = rooms \cup {Room(w)}
    /\ UNCHANGED <<today, users, hours, slots, held, faults>>

UpsertRoom(w) ==
    /\ At(w, "upsertRoom")
    /\ rooms' = rooms \cup {Room(w)}
    /\ GoTo(w, "getSchedule")
    /\ UNCHANGED <<today, users, hours, slots, held, faults>>

GetScheduleOnly(w) ==                                            \* defect
    /\ At(w, "getSchedule")
    /\ IF hours[Room(w)] = Closed THEN GoTo(w, "recheck") ELSE RoomDone(w)
    /\ UNCHANGED <<today, tables, faults>>

CreateSlots(w, sch) ==
    Set(w, [run[w] EXCEPT !.pc = "createSlots", !.pending = SlotsAhead(Room(w), sch)])

(* A schedule that is there is kept, whoever made it, and its slots from   *)
(* today on are generated again.                                           *)
GetSchedule(w) ==
    /\ At(w, "getSchedule")
    /\ IF hours[Room(w)] = Closed THEN GoTo(w, "recheck") ELSE CreateSlots(w, hours[Room(w)])
    /\ UNCHANGED <<today, tables, faults>>

(* scheduleService.Create reads the room, which is there, and the schedule *)
(* once more.                                                              *)
Recheck(w) ==
    /\ At(w, "recheck")
    /\ IF hours[Room(w)] = Closed THEN GoTo(w, "insertSchedule") ELSE End(w, "ScheduleExists")
    /\ UNCHANGED <<today, tables, faults>>

ReplaceSchedule(w) ==                                            \* defect
    /\ At(w, "insertSchedule")
    /\ hours' = [hours EXCEPT ![Room(w)] = HoursOf[Room(w)]]
    /\ CreateSlots(w, HoursOf[Room(w)])
    /\ UNCHANGED <<today, users, rooms, slots, held, faults>>

InsertSchedule(w) ==
    /\ At(w, "insertSchedule")
    /\ IF hours[Room(w)] # Closed THEN End(w, "ScheduleExists") /\ UNCHANGED hours
       ELSE /\ hours' = [hours EXCEPT ![Room(w)] = HoursOf[Room(w)]]
            /\ CreateSlots(w, HoursOf[Room(w)])
    /\ UNCHANGED <<today, users, rooms, slots, held, faults>>

BulkCreate(w) ==
    LET pending == run[w].pending IN
    /\ At(w, "createSlots")
    /\ IF pending = {} THEN RoomDone(w) /\ UNCHANGED slots
       ELSE /\ AddSlot(Earliest(pending))
            /\ run' = [run EXCEPT ![w].pending = @ \ {Earliest(@)}]
    /\ UNCHANGED <<today, users, rooms, hours, held, faults>>

-----------------------------------------------------------------------------
(* ensureSampleBooking: tomorrow at 9:00 in the board room.                *)

Targets(day) ==
    {s \in slots : s.room = Board /\ s.startAt = day * DayMinutes + Target}

(* No such slot, or a booked one: nothing to do.                           *)
ListSlots(w) ==
    LET targets == Targets(run[w].tomorrow) IN
    /\ At(w, "listSlots")
    /\ IF targets \subseteq held THEN End(w, "ok")
       ELSE \E s \in targets :
                Set(w, [pc |-> "createLink", tomorrow |-> run[w].tomorrow, slot |-> s])
    /\ UNCHANGED <<today, tables, faults>>

(* bookingService.Create finds the slot, which is there, and makes a       *)
(* conference link, unless midnight has struck and 9:00 has passed since   *)
(* the clock was read.                                                     *)
CreateLink(w) ==
    /\ At(w, "createLink")
    /\ \/ GoTo(w, "insertBooking") /\ UNCHANGED faults
       \/ run[w].tomorrow <= today /\ End(w, "SlotInThePast") /\ UNCHANGED faults
       \/ Fault /\ End(w, "ConferenceUnavailable")
    /\ UNCHANGED <<today, tables>>

(* ErrSlotAlreadyBooked is as good as a booking, if the link can be        *)
(* deleted again.                                                          *)
InsertBooking(w) ==
    /\ At(w, "insertBooking")
    /\ \/ End(w, "ok") /\ UNCHANGED faults
       \/ run[w].slot \in held /\ Fault /\ End(w, "Internal")
    /\ held' = held \cup {run[w].slot}
    /\ UNCHANGED <<today, users, rooms, hours, slots>>

-----------------------------------------------------------------------------
(* A statement gets no answer, or the process dies: what was sent may have *)
(* been executed.                                                          *)
Effect(w) ==
    \/ UNCHANGED tables
    \/ \E u \in Users : /\ At(w, u) /\ users[u] # "other"
                        /\ users' = [users EXCEPT ![u] = "seed"]
                        /\ UNCHANGED <<rooms, hours, slots, held>>
    \/ /\ At(w, "upsertRoom") /\ rooms' = rooms \cup {Room(w)}
       /\ UNCHANGED <<users, hours, slots, held>>
    \/ /\ At(w, "insertSchedule") /\ hours[Room(w)] = Closed
       /\ hours' = [hours EXCEPT ![Room(w)] = HoursOf[Room(w)]]
       /\ UNCHANGED <<users, rooms, slots, held>>
    \/ /\ At(w, "createSlots") /\ run[w].pending # {} /\ AddSlot(Earliest(run[w].pending))
       /\ UNCHANGED <<users, rooms, hours, held>>
    \/ /\ At(w, "insertBooking") /\ held' = held \cup {run[w].slot}
       /\ UNCHANGED <<users, rooms, hours, slots>>

Fails(w) ==
    /\ run[w].pc \notin Ended \cup {"idle"}
    /\ Fault
    /\ Effect(w)
    /\ End(w, "Internal") \/ End(w, "died")
    /\ UNCHANGED today

-----------------------------------------------------------------------------
(* The surroundings.                                                       *)

(* POST /register with the address of a test user.                         *)
Register(u) ==
    /\ users[u] = "none"
    /\ users' = [users EXCEPT ![u] = "other"]
    /\ UNCHANGED <<today, rooms, hours, slots, held, run, faults>>

(* An admin gives a seed room a schedule before the command does.          *)
OtherSchedule(room) ==
    /\ room \in rooms /\ hours[room] = Closed
    /\ hours' = [hours EXCEPT ![room] = OtherHours]
    /\ UNCHANGED <<today, users, rooms, slots, held, run, faults>>

(* The worker, or the call of an admin, inserts the next slot of a room;   *)
(* it may have begun on an earlier day.                                    *)
OtherSlot(room) ==
    /\ hours[room] # Closed
    /\ \E day \in 0 .. today :
          LET rows == SlotsFrom(room, hours[room], day) \ slots IN
          rows # {} /\ AddSlot(Earliest(rows))
    /\ UNCHANGED <<today, users, rooms, hours, held, run, faults>>

(* A user books, or cancels, a slot that the command may look for: nothing *)
(* here asks who holds another one.                                        *)
OtherBooking(s) ==
    /\ s.startAt % DayMinutes = Target
    /\ held' = IF s \in held THEN held \ {s} ELSE held \cup {s}
    /\ UNCHANGED <<today, users, rooms, hours, slots, run, faults>>

Midnight ==
    /\ today < MaxDay
    /\ today' = today + 1
    /\ UNCHANGED <<tables, run, faults>>

Step(w) ==
    \/ Start(w) \/ Ensure(w, "admin", "user") \/ Ensure(w, "user", "upsertRoom")
    \/ UpsertRoom(w) \/ GetSchedule(w) \/ Recheck(w) \/ InsertSchedule(w) \/ BulkCreate(w)
    \/ ListSlots(w) \/ CreateLink(w) \/ InsertBooking(w)

Next ==
    \/ \E w \in Runs : Step(w) \/ Fails(w)
    \/ \E u \in Users : Register(u)
    \/ \E room \in Rooms : OtherSchedule(room) \/ OtherSlot(room)
    \/ \E s \in slots : OtherBooking(s)
    \/ Midnight

Spec == Init /\ [][Next]_vars

-----------------------------------------------------------------------------
(* Properties.                                                             *)

Ends(w, hows) == run[w].pc \notin Ended /\ run'[w].pc \in hows

(* A run that reports success leaves the two test users (README.md:143),   *)
(* both rooms and a schedule for each, whatever earlier runs, other runs   *)
(* and the service did.  If the schedule of the board room is its own, and *)
(* the days generated outlast the midnights that pass, tomorrow's slot at  *)
(* 9:00 is held in the step that ends the run.                             *)
SuccessIsComplete ==
    [][\A w \in Runs : Ends(w, {"ok"}) =>
         /\ \A u \in Users : users'[u] = "seed"
         /\ \A room \in Rooms : room \in rooms' /\ hours'[room] # Closed
         /\ hours'[Board] = HoursOf[Board] /\ GenerationDays >= MaxDay + 2 =>
               \E s \in held' : /\ s.room = Board
                               /\ s.startAt = run[w].tomorrow * DayMinutes + Target]_vars

(* What earlier runs left, complete or not, never makes a run fail: it     *)
(* fails because a statement or a conference call of its own does, because *)
(* an address is taken, because a schedule was stored under its hands, or  *)
(* because it was so slow that its tomorrow had come.                      *)
RemainsAreNoReasonToFail ==
    [][\A w \in Runs :
         /\ Ends(w, {"Internal", "ConferenceUnavailable"}) => faults' # faults
         /\ Ends(w, {"EmailTaken"}) => \E u \in Users : users[u] = "other"
         /\ Ends(w, {"ScheduleExists"}) => Room(w) \notin run[w].open
         /\ Ends(w, {"SlotInThePast"}) => run[w].tomorrow <= today]_vars

Calendar == INSTANCE SlotCalendar WITH
    Hours <- AllHours, Makers <- {"anyone"}, Days <- 0 .. MaxDay + GenerationDays

(* However runs overlap, fail and are repeated, rooms, schedules and slots *)
(* are those of SlotCalendar: one schedule per room, each slot once.       *)
ImplementsCalendar == Calendar!Spec
=============================================================================
