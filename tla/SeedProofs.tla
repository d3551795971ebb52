----------------------------- MODULE SeedProofs -----------------------------
(***************************************************************************)
(* Theorems about Seed, for any runs, rooms, hours, number of generated    *)
(* days, faults and midnights.                                             *)
(*                                                                         *)
(* A room that has hours keeps them (OpenInv), so a run only finds hours   *)
(* under its hands in a room that had none when it started; and each row   *)
(* that anybody inserts is cut from the hours stored for its room          *)
(* (RowsInv), which makes every write a step of SlotCalendar.  SuccessInv  *)
(* says what a run has achieved before each of its statements, and that    *)
(* nobody undoes it.                                                       *)
(***************************************************************************)
EXTENDS Seed, WellFoundedInduction, TLAPS

-----------------------------------------------------------------------------
(* The inductive invariant.                                                *)

SlotRow == [room : Rooms, startAt : Nat, endAt : Nat, by : {"anyone"}]

(* What a run keeps, by its next statement.                                *)
Seeding == [pc : {"admin", "user", "upsertRoom", "getSchedule", "recheck",
                  "insertSchedule", "createSlots"},
            room : 1 .. Len(SeedRooms), pending : SUBSET SlotRow, open : SUBSET Rooms]
Looking == [pc : {"listSlots"}, tomorrow : Nat]
Booking == [pc : {"createLink", "insertBooking"}, tomorrow : Nat, slot : SlotRow]
Resting == [pc : Ended \cup {"idle"}]

States == Seeding \cup Looking \cup Booking \cup Resting

TypeOK ==
    /\ today \in 0 .. MaxDay
    /\ users \in [Users -> {"none", "seed", "other"}]
    /\ rooms \subseteq Rooms
    /\ hours \in [Rooms -> AllHours \cup {Closed}]
    /\ slots \subseteq SlotRow
    /\ run \in [Runs -> States]
    /\ faults \in Nat

(* The room that a run is at is there once it has been put in, and has     *)
(* hours once they are read or stored.                                     *)
Placed(x) ==
    /\ x.pc \in {"getSchedule", "recheck", "insertSchedule", "createSlots"} =>
          SeedRooms[x.room] \in rooms
    /\ x.pc = "createSlots" => hours[SeedRooms[x.room]] # Closed

(* Rooms that had hours when a run started have them, and the run has not  *)
(* taken them for closed.                                                  *)
Open(x) ==
    x \in Seeding =>
        /\ \A room \in x.open : hours[room] # Closed
        /\ x.pc \in {"recheck", "insertSchedule"} => SeedRooms[x.room] \notin x.open

(* A half hour of the stored hours of its room.                            *)
IsCut(row) ==
    \E day \in 0 .. MaxDay + GenerationDays :
        /\ Weekday(day) \in hours[row.room].days
        /\ \E s \in DaySlots(hours[row.room], day) : row = Row(row.room, s)

Cutting(x) == x.pc = "createSlots" => \A row \in x.pending : IsCut(row)

PlaceInv == \A w \in Runs : Placed(run[w])
OpenInv  == \A w \in Runs : Open(run[w])
RowsInv  == \A w \in Runs : Cutting(run[w])

Inv == TypeOK /\ PlaceInv /\ OpenInv /\ RowsInv

-----------------------------------------------------------------------------
(* What Build makes.                                                       *)

(* A slot of a day is half an hour that starts at some minute.             *)
LEMMA SlotShape ==
    ASSUME NEW sch \in AllHours, NEW day \in Nat, NEW s \in DaySlots(sch, day)
    PROVE  s.startAt \in Nat /\ s.endAt \in Nat
  <1>1. PICK k \in 0 .. SlotsPerDay - 1 : s = Slot(day * DayMinutes + sch.start + k * SlotMinutes)
    BY DEF DaySlots
  <1>2. sch.start \in 0 .. DayMinutes - 1
    BY HoursAssumption
  <1>3. \A minute \in 0 .. DayMinutes - 1 : minute \in Nat
    BY DEF DayMinutes
  <1>4. k \in Nat /\ sch.start \in Nat
    BY <1>2, <1>3
  <1>5. day * DayMinutes + sch.start + k * SlotMinutes \in Nat
    BY <1>4 DEF DayMinutes, SlotMinutes
  <1> QED BY <1>1, <1>5 DEF Slot, SlotMinutes

(* What Ahead holds for a day is made of slots of that and later days.     *)
LEMMA AheadIsBuilt ==
    ASSUME NEW sch \in AllHours, NEW from \in 0 .. MaxDay, NEW s \in Ahead[sch][from]
    PROVE  /\ s.startAt \in Nat /\ s.endAt \in Nat
           /\ \E day \in 0 .. MaxDay + GenerationDays :
                 Weekday(day) \in sch.days /\ s \in DaySlots(sch, day)
  <1>1. s \in Build(sch, from, from + GenerationDays)
    BY Zenon DEF Ahead
  <1>2. from \in Nat /\ from <= MaxDay /\ MaxDay \in Nat /\ GenerationDays \in Nat
    BY ConstantsAssumption
  <1>3. PICK day \in from .. (from + GenerationDays) - 1 :
            Weekday(day) \in sch.days /\ s \in DaySlots(sch, day)
    BY <1>1, Zenon DEF Build
  <1>4. day \in Nat /\ day \in 0 .. MaxDay + GenerationDays
    BY <1>2, <1>3
  <1> QED BY <1>3, <1>4, SlotShape

(* What is generated for a room is cut from its hours.                     *)
LEMMA AheadIsCut ==
    ASSUME TypeOK, NEW room \in Rooms, hours[room] # Closed,
           NEW day \in 0 .. MaxDay, NEW row \in SlotsFrom(room, hours[room], day)
    PROVE  row \in SlotRow /\ row.room = room /\ IsCut(row)
  <1>1. hours[room] \in AllHours
    BY DEF TypeOK
  <1>2. PICK s \in Ahead[hours[room]][day] : row = Row(room, s)
    BY DEF SlotsFrom
  <1>3. row \in SlotRow /\ row.room = room
    BY <1>1, <1>2, AheadIsBuilt DEF Row, SlotRow
  <1> QED BY <1>1, <1>2, <1>3, AheadIsBuilt DEF IsCut

(* The slot with the earliest start of any set of them.                    *)
LEMMA EarliestExists ==
    ASSUME NEW rows \in SUBSET SlotRow, rows # {}
    PROVE  Earliest(rows) \in rows
  <1> DEFINE starts == {row.startAt : row \in rows}
  <1>1. starts \subseteq Nat /\ starts # {}
    BY DEF SlotRow
  <1>2. PICK t \in starts : \A u \in starts : ~(<<u, t>> \in OpToRel(<, Nat))
    <2> HIDE DEF starts
    <2> QED BY <1>1, NatLessThanWellFounded, WFMin
  <1>3. PICK x \in rows : x.startAt = t
    OBVIOUS
  <1>4. \A y \in rows : x.startAt <= y.startAt
    <2> SUFFICES ASSUME NEW y \in rows PROVE x.startAt <= y.startAt
      OBVIOUS
    <2>1. ~(<<y.startAt, t>> \in OpToRel(<, Nat))
      BY <1>2
    <2>2. y.startAt \in Nat /\ t \in Nat
      BY <1>1
    <2>3. ~(y.startAt < t)
      BY <2>1, <2>2 DEF OpToRel
    <2> QED BY <1>3, <2>2, <2>3
  <1> QED BY <1>3, <1>4 DEF Earliest

-----------------------------------------------------------------------------
(* The statements.                                                         *)

(* What a statement on its way writes, whether or not it is answered.      *)
OpensRoom   == /\ \E room \in Rooms : rooms' = rooms \cup {room}
               /\ UNCHANGED <<hours, slots>>
GivesHours  == /\ \E room \in rooms, sch \in AllHours :
                     hours[room] = Closed /\ hours' = [hours EXCEPT ![room] = sch]
               /\ UNCHANGED <<rooms, slots>>
InsertsSlot == /\ \E row \in SlotRow : IsCut(row) /\ AddSlot(row)
               /\ UNCHANGED <<rooms, hours>>
NoChange    == UNCHANGED <<rooms, hours, slots>>

TableChange == OpensRoom \/ GivesHours \/ InsertsSlot \/ NoChange

(* The fields of a run, by its next statement.                             *)
LEMMA RunShape ==
    ASSUME TypeOK, NEW w \in Runs
    PROVE  /\ run[w].pc \in {"admin", "user", "upsertRoom", "getSchedule", "recheck",
                             "insertSchedule", "createSlots"} =>
                 /\ run[w] \in Seeding /\ Room(w) \in Rooms
                 /\ run[w].pending \in SUBSET SlotRow
           /\ run[w].pc = "listSlots" => run[w] \in Looking
           /\ run[w].pc \in {"createLink", "insertBooking"} => run[w] \in Booking
  <1>1. run[w] \in Seeding \cup Looking \cup Booking \cup Resting
    BY DEF TypeOK, States
  <1>2. run[w] \in Seeding => run[w].room \in 1 .. Len(SeedRooms)
    BY DEF Seeding
  <1>3. run[w] \in Seeding => Room(w) \in Rooms
    BY <1>2 DEF Room, Rooms
  <1> QED BY <1>1, <1>3 DEF Seeding, Looking, Booking, Resting, Ended

(* A row that a run is to insert next.                                     *)
LEMMA NextRow ==
    ASSUME Inv, NEW w \in Runs, run[w].pc = "createSlots", run[w].pending # {}
    PROVE  /\ Earliest(run[w].pending) \in run[w].pending
           /\ Earliest(run[w].pending) \in SlotRow /\ IsCut(Earliest(run[w].pending))
  BY RunShape, EarliestExists DEF Inv, RowsInv, Cutting

(* Every step changes the tables of the calendar in one of these ways.     *)
LEMMA TableStep ==
    ASSUME Inv, [Next]_vars
    PROVE  TableChange
  <1> USE DEF TableChange
  <1>1. ASSUME NEW w \in Runs,
               \/ Start(w) \/ Ensure(w, "admin", "user") \/ Ensure(w, "user", "upsertRoom")
               \/ GetSchedule(w) \/ Recheck(w) \/ ListSlots(w) \/ CreateLink(w) \/ InsertBooking(w)
        PROVE  NoChange
    BY <1>1 DEF Start, Ensure, GetSchedule, Recheck, ListSlots, CreateLink, InsertBooking, tables, NoChange
  <1>2. ASSUME NEW w \in Runs, UpsertRoom(w)
        PROVE  OpensRoom
    BY <1>2, RunShape DEF UpsertRoom, At, OpensRoom, Inv
  <1>3. ASSUME NEW w \in Runs, InsertSchedule(w)
        PROVE  GivesHours \/ NoChange
    <2>1. Room(w) \in rooms /\ Room(w) \in Rooms
      BY <1>3, RunShape DEF InsertSchedule, At, Inv, PlaceInv, Placed, Room
    <2>2. HoursOf[Room(w)] \in AllHours
      BY <2>1 DEF AllHours
    <2> QED BY <1>3, <2>1, <2>2 DEF InsertSchedule, GivesHours, NoChange
  <1>4. ASSUME NEW w \in Runs, BulkCreate(w)
        PROVE  InsertsSlot \/ NoChange
    BY <1>4, NextRow DEF BulkCreate, At, InsertsSlot, NoChange
  <1>5. ASSUME NEW w \in Runs, Fails(w)
        PROVE  TableChange
    <2>1. CASE UNCHANGED tables
      BY <2>1 DEF tables, NoChange
    <2>2. CASE At(w, "upsertRoom") /\ rooms' = rooms \cup {Room(w)}
               /\ UNCHANGED <<users, hours, slots, held>>
      BY <2>2, RunShape DEF At, OpensRoom, Inv
    <2>3. CASE /\ At(w, "insertSchedule") /\ hours[Room(w)] = Closed
               /\ hours' = [hours EXCEPT ![Room(w)] = HoursOf[Room(w)]]
               /\ UNCHANGED <<users, rooms, slots, held>>
      <3>1. Room(w) \in rooms /\ Room(w) \in Rooms
        BY <2>3, RunShape DEF At, Inv, PlaceInv, Placed, Room
      <3>2. HoursOf[Room(w)] \in AllHours
        BY <3>1 DEF AllHours
      <3> QED BY <2>3, <3>1, <3>2 DEF GivesHours
    <2>4. CASE /\ At(w, "createSlots") /\ run[w].pending # {}
               /\ AddSlot(Earliest(run[w].pending))
               /\ UNCHANGED <<users, rooms, hours, held>>
      BY <2>4, NextRow DEF At, InsertsSlot
    <2>5. CASE UNCHANGED <<rooms, hours, slots>>
      BY <2>5 DEF NoChange
    <2> QED BY <1>5, <2>1, <2>2, <2>3, <2>4, <2>5 DEF Fails, Effect
  <1>6. ASSUME NEW u \in Users, Register(u)
        PROVE  NoChange
    BY <1>6 DEF Register, NoChange
  <1>7. ASSUME NEW room \in Rooms, OtherSchedule(room)
        PROVE  GivesHours
    BY <1>7 DEF OtherSchedule, GivesHours, AllHours
  <1>8. ASSUME NEW room \in Rooms, OtherSlot(room)
        PROVE  InsertsSlot
    <2>d. PICK day \in 0 .. today :
              /\ SlotsFrom(room, hours[room], day) \ slots # {}
              /\ AddSlot(Earliest(SlotsFrom(room, hours[room], day) \ slots))
      BY <1>8 DEF OtherSlot
    <2> DEFINE rows == SlotsFrom(room, hours[room], day) \ slots
    <2>h. day \in 0 .. MaxDay /\ hours[room] # Closed
      BY <1>8, <2>d, ConstantsAssumption DEF OtherSlot, Inv, TypeOK
    <2>1. \A row \in rows : row \in SlotRow /\ IsCut(row)
      BY <2>h, AheadIsCut DEF Inv
    <2>2. rows # {} /\ AddSlot(Earliest(rows)) /\ UNCHANGED <<rooms, hours>>
      BY <1>8, <2>d DEF OtherSlot
    <2> HIDE DEF rows
    <2>3. Earliest(rows) \in rows
      BY <2>1, <2>2, EarliestExists
    <2> QED BY <2>1, <2>2, <2>3 DEF InsertsSlot
  <1>9. ASSUME NEW s \in slots, OtherBooking(s)
        PROVE  NoChange
    BY <1>9 DEF OtherBooking, NoChange
  <1>10. CASE Midnight \/ UNCHANGED vars
    BY <1>10 DEF Midnight, tables, vars, NoChange
  <1> QED
    BY <1>1, <1>2, <1>3, <1>4, <1>5, <1>6, <1>7, <1>8, <1>9, <1>10 DEF Next, Step

-----------------------------------------------------------------------------
(* What no change of the tables undoes.                                    *)

(* Rooms stay, hours stay once they are given, and what was cut from them  *)
(* still is.                                                               *)
LEMMA TablesKeep ==
    ASSUME Inv, TableChange
    PROVE  /\ rooms \subseteq rooms' /\ rooms' \subseteq Rooms
           /\ hours' \in [Rooms -> AllHours \cup {Closed}]
           /\ \A room \in Rooms : hours[room] # Closed => hours'[room] = hours[room]
           /\ slots \subseteq slots' /\ slots' \subseteq SlotRow
  <1> USE DEF Inv, TypeOK
  <1>1. CASE OpensRoom
    BY <1>1 DEF OpensRoom
  <1>2. CASE GivesHours
    BY <1>2 DEF GivesHours
  <1>3. CASE InsertsSlot
    BY <1>3 DEF InsertsSlot, AddSlot
  <1>4. CASE NoChange
    BY <1>4 DEF NoChange
  <1> QED BY <1>1, <1>2, <1>3, <1>4 DEF TableChange

LEMMA CutStays ==
    ASSUME Inv, TableChange, NEW row \in SlotRow, IsCut(row)
    PROVE  IsCut(row)'
  <1>1. row.room \in Rooms
    BY DEF SlotRow
  <1>2. hours[row.room] # Closed
    BY DEF IsCut, Closed
  <1>3. hours'[row.room] = hours[row.room]
    BY <1>1, <1>2, TablesKeep
  <1> QED BY <1>3 DEF IsCut

(* What the invariant says of one run, in the state it is in.              *)
Sound(w) == Placed(run[w]) /\ Open(run[w]) /\ Cutting(run[w])

(* A run that does nothing stays sound whatever is written.                *)
LEMMA RestStays ==
    ASSUME Inv, TableChange, NEW w \in Runs, run'[w] = run[w]
    PROVE  Sound(w)'
  <1>1. Placed(run[w]) /\ Open(run[w]) /\ Cutting(run[w])
    BY DEF Inv, PlaceInv, OpenInv, RowsInv
  <1>2. run[w].pc \in {"getSchedule", "recheck", "insertSchedule", "createSlots"} =>
           SeedRooms[run[w].room] \in Rooms /\ run[w].pending \in SUBSET SlotRow
    BY RunShape DEF Inv, Room
  <1>3. Placed(run[w])'
    BY <1>1, <1>2, TablesKeep DEF Placed
  <1>4. run[w] \in Seeding => run[w].open \subseteq Rooms
    BY DEF Seeding
  <1>5. Open(run[w])'
    BY <1>1, <1>4, TablesKeep DEF Open
  <1>6. Cutting(run[w])'
    BY <1>1, <1>2, CutStays DEF Cutting
  <1> QED BY <1>3, <1>5, <1>6 DEF Sound

-----------------------------------------------------------------------------
(* The run that moves.                                                     *)

Moves(w) == run'[w] \in States /\ run' = [run EXCEPT ![w] = run'[w]] /\ Sound(w)'

(* A run that has ended, or looks for its slot, has nothing to be sound.   *)
LEMMA LaterMoves ==
    ASSUME Inv, NEW w \in Runs, NEW x \in Looking \cup Booking \cup Resting, Set(w, x)
    PROVE  Moves(w)
  <1>1. run'[w] = x /\ run' = [run EXCEPT ![w] = x]
    BY DEF Set, Inv, TypeOK
  <1>2. x \notin Seeding /\ x.pc \notin {"getSchedule", "recheck", "insertSchedule", "createSlots"}
    BY DEF Looking, Booking, Resting, Seeding, Ended
  <1>3. Sound(w)'
    BY <1>1, <1>2 DEF Sound, Placed, Open, Cutting
  <1> QED BY <1>1, <1>3 DEF Moves, States

LEMMA EndMoves ==
    ASSUME Inv, NEW w \in Runs, NEW how \in Ended, End(w, how)
    PROVE  Moves(w)
  BY LaterMoves DEF End, Resting

(* What a run in seedData keeps when it goes to another of its statements. *)
LEMMA SeedingMoves ==
    ASSUME Inv, NEW w \in Runs, NEW x \in Seeding, Set(w, x),
           \A room \in x.open : hours'[room] # Closed,
           x.pc \in {"recheck", "insertSchedule"} => SeedRooms[x.room] \notin x.open,
           x.pc \in {"getSchedule", "recheck", "insertSchedule", "createSlots"} =>
               SeedRooms[x.room] \in rooms',
           x.pc = "createSlots" => /\ hours'[SeedRooms[x.room]] # Closed
                                   /\ \A row \in x.pending : IsCut(row)'
    PROVE  Moves(w)
  <1>1. run'[w] = x /\ run' = [run EXCEPT ![w] = x]
    BY DEF Set, Inv, TypeOK
  <1>2. Placed(run[w])' /\ Open(run[w])' /\ Cutting(run[w])'
    BY <1>1 DEF Placed, Open, Cutting
  <1> QED BY <1>1, <1>2 DEF Moves, Sound, States

(* The rooms a run remembers as open stay so.                              *)
LEMMA StillOpen ==
    ASSUME Inv, TableChange, NEW w \in Runs, run[w] \in Seeding
    PROVE  \A room \in run[w].open : room \in Rooms /\ hours'[room] # Closed
  <1>1. run[w].open \subseteq Rooms
    BY DEF Seeding
  <1> QED BY <1>1, TablesKeep DEF Inv, OpenInv, Open

(* The same statement's place in the loop: only pc changes.                *)
LEMMA GoToMoves ==
    ASSUME Inv, TableChange, NEW w \in Runs, run[w] \in Seeding,
           NEW l \in {"user", "upsertRoom", "getSchedule", "recheck", "insertSchedule"}, GoTo(w, l),
           l \in {"getSchedule", "recheck", "insertSchedule"} => Room(w) \in rooms',
           l \in {"recheck", "insertSchedule"} => Room(w) \notin run[w].open
    PROVE  Moves(w)
  <1> DEFINE x == [run[w] EXCEPT !.pc = l]
  <1>1. Set(w, x)
    BY DEF GoTo, Set, Inv, TypeOK
  <1>2. x \in Seeding /\ x.pc = l /\ x.room = run[w].room /\ x.open = run[w].open
    BY DEF Seeding
  <1>3. \A room \in x.open : hours'[room] # Closed
    BY <1>2, StillOpen
  <1> HIDE DEF x
  <1> QED BY <1>1, <1>2, <1>3, SeedingMoves DEF Room

(* The room is done: the next one, or the sample booking.                  *)
LEMMA RoomDoneMoves ==
    ASSUME Inv, TableChange, NEW w \in Runs, run[w] \in Seeding, RoomDone(w)
    PROVE  Moves(w)
  <1>1. CASE run[w].room < Len(SeedRooms)
    <2> DEFINE x == [run[w] EXCEPT !.pc = "upsertRoom", !.room = @ + 1]
    <2>1. Set(w, x)
      BY <1>1 DEF RoomDone
    <2>2. run[w].room + 1 \in 1 .. Len(SeedRooms)
      <3>1. run[w].room \in 1 .. Len(SeedRooms) /\ Len(SeedRooms) \in Nat
        BY ConstantsAssumption DEF Seeding
      <3> QED BY <1>1, <3>1
    <2>3. x \in Seeding /\ x.pc = "upsertRoom" /\ x.open = run[w].open
      BY <2>2 DEF Seeding
    <2>4. \A room \in x.open : hours'[room] # Closed
      BY <2>3, StillOpen
    <2> HIDE DEF x
    <2> QED BY <2>1, <2>3, <2>4, SeedingMoves
  <1>2. CASE ~(run[w].room < Len(SeedRooms))
    <2> DEFINE x == [pc |-> "listSlots", tomorrow |-> today + 1]
    <2>1. Set(w, x)
      BY <1>2 DEF RoomDone
    <2>2. x \in Looking
      BY ConstantsAssumption DEF Looking, Inv, TypeOK
    <2> QED BY <2>1, <2>2, LaterMoves
  <1> QED BY <1>1, <1>2

(* The slots of a room are computed from hours that are, or have just      *)
(* been, stored for it.                                                    *)
LEMMA CreateSlotsMoves ==
    ASSUME Inv, TableChange, NEW w \in Runs, run[w] \in Seeding,
           NEW sch \in AllHours, CreateSlots(w, sch), Room(w) \in Rooms,
           Room(w) \in rooms', hours'[Room(w)] = sch, sch # Closed
    PROVE  Moves(w)
  <1> DEFINE rows == SlotsAhead(Room(w), sch)
             x    == [run[w] EXCEPT !.pc = "createSlots", !.pending = rows]
  <1>1. ASSUME NEW row \in rows
        PROVE  row \in SlotRow /\ IsCut(row)'
    <2>1. PICK s \in Ahead[sch][today] : row = Row(Room(w), s)
      BY <1>1 DEF SlotsAhead, SlotsFrom
    <2>2. today \in 0 .. MaxDay
      BY DEF Inv, TypeOK
    <2>3. row \in SlotRow /\ row.room = Room(w)
      BY <2>1, <2>2, AheadIsBuilt DEF Row, SlotRow
    <2> QED BY <2>1, <2>2, <2>3, AheadIsBuilt DEF IsCut
  <1>2. Set(w, x)
    BY DEF CreateSlots
  <1> HIDE DEF rows
  <1>3. /\ x \in Seeding /\ x.pc = "createSlots" /\ x.pending = rows
        /\ x.room = run[w].room /\ x.open = run[w].open
    BY <1>1 DEF Seeding
  <1>4. \A room \in x.open : hours'[room] # Closed
    BY <1>3, StillOpen
  <1> HIDE DEF x
  <1> QED BY <1>1, <1>2, <1>3, <1>4, SeedingMoves DEF Room

LEMMA HoursAreOpen == \A sch \in AllHours : sch # Closed
  BY HoursAssumption DEF Closed

(* Every statement of a run leaves it sound.                               *)
LEMMA StepMoves ==
    ASSUME Inv, TableChange, NEW w \in Runs, Step(w) \/ Fails(w)
    PROVE  Moves(w)
  <1>1. CASE Start(w)
    <2> DEFINE x == [pc |-> "admin", room |-> 1, pending |-> {},
                     open |-> {room \in Rooms : hours[room] # Closed}]
    <2>1. Set(w, x) /\ UNCHANGED hours
      BY <1>1 DEF Start, tables
    <2>2. 1 \in 1 .. Len(SeedRooms)
      BY ConstantsAssumption
    <2>3. x \in Seeding
      BY <2>2 DEF Seeding
    <2>4. \A room \in x.open : hours'[room] # Closed
      BY <2>1
    <2> QED BY <2>1, <2>3, <2>4, SeedingMoves
  <1>2. ASSUME NEW u \in Users, NEW next \in {"user", "upsertRoom"}, Ensure(w, u, next)
        PROVE  Moves(w)
    <2>1. CASE users[u] = "other"
      BY <1>2, <2>1, EndMoves DEF Ensure, Ended
    <2>2. CASE users[u] # "other"
      BY <1>2, <2>2, RunShape, GoToMoves DEF Ensure, At, Users, Inv
    <2> QED BY <2>1, <2>2
  <1>3. CASE UpsertRoom(w)
    <2>1. run[w] \in Seeding /\ GoTo(w, "getSchedule") /\ Room(w) \in rooms'
      BY <1>3, RunShape DEF UpsertRoom, At, Inv
    <2> QED BY <2>1, GoToMoves
  <1>4. CASE GetSchedule(w)
    <2>1. /\ run[w] \in Seeding /\ Room(w) \in Rooms /\ Room(w) \in rooms
          /\ UNCHANGED <<rooms, hours>>
      BY <1>4, RunShape DEF GetSchedule, At, tables, Inv, PlaceInv, Placed, Room
    <2>2. CASE hours[Room(w)] = Closed
      <3>1. Room(w) \notin run[w].open
        BY <2>1, <2>2 DEF Inv, OpenInv, Open
      <3> QED BY <1>4, <2>1, <2>2, <3>1, GoToMoves DEF GetSchedule
    <2>3. CASE hours[Room(w)] # Closed
      <3>1. hours[Room(w)] \in AllHours
        BY <2>1, <2>3 DEF Inv, TypeOK
      <3> QED BY <1>4, <2>1, <2>3, <3>1, CreateSlotsMoves DEF GetSchedule
    <2> QED BY <2>2, <2>3
  <1>5. CASE Recheck(w)
    <2>1. /\ run[w] \in Seeding /\ Room(w) \in rooms /\ Room(w) \notin run[w].open
          /\ UNCHANGED rooms
      BY <1>5, RunShape DEF Recheck, At, tables, Inv, PlaceInv, Placed, OpenInv, Open, Room
    <2>2. CASE hours[Room(w)] = Closed
      BY <1>5, <2>1, <2>2, GoToMoves DEF Recheck
    <2>3. CASE hours[Room(w)] # Closed
      BY <1>5, <2>3, EndMoves DEF Recheck, Ended
    <2> QED BY <2>2, <2>3
  <1>6. CASE InsertSchedule(w)
    <2>1. CASE hours[Room(w)] # Closed
      BY <1>6, <2>1, EndMoves DEF InsertSchedule, Ended
    <2>2. CASE hours[Room(w)] = Closed
      <3>1. /\ run[w] \in Seeding /\ Room(w) \in Rooms /\ Room(w) \in rooms'
        BY <1>6, RunShape DEF InsertSchedule, At, Inv, PlaceInv, Placed, Room
      <3>2. HoursOf[Room(w)] \in AllHours
        BY <3>1 DEF AllHours
      <3>3. hours'[Room(w)] = HoursOf[Room(w)] /\ CreateSlots(w, HoursOf[Room(w)])
        BY <1>6, <2>2, <3>1 DEF InsertSchedule, Inv, TypeOK
      <3> QED BY <3>1, <3>2, <3>3, HoursAreOpen, CreateSlotsMoves
    <2> QED BY <2>1, <2>2
  <1>7. CASE BulkCreate(w)
    <2>1. /\ run[w] \in Seeding /\ run[w].pc = "createSlots" /\ Room(w) \in Rooms
          /\ Room(w) \in rooms /\ hours[Room(w)] # Closed /\ UNCHANGED <<rooms, hours>>
      BY <1>7, RunShape DEF BulkCreate, At, Inv, PlaceInv, Placed, Room
    <2>2. CASE run[w].pending = {}
      BY <1>7, <2>1, <2>2, RoomDoneMoves DEF BulkCreate
    <2>3. CASE run[w].pending # {}
      <3> DEFINE left == run[w].pending \ {Earliest(run[w].pending)}
                 x    == [run[w] EXCEPT !.pending = left]
      <3>1. Set(w, x)
        BY <1>7, <2>3 DEF BulkCreate, Set
      <3>2. \A row \in left : row \in SlotRow /\ IsCut(row)'
        BY <2>1, RunShape, CutStays DEF Inv, RowsInv, Cutting
      <3> HIDE DEF left
      <3>3. /\ x \in Seeding /\ x.pc = "createSlots" /\ x.pending = left
            /\ x.room = run[w].room /\ x.open = run[w].open
        BY <2>1, <3>2 DEF Seeding
      <3>4. \A room \in x.open : hours'[room] # Closed
        BY <2>1, <3>3, StillOpen
      <3> HIDE DEF x
      <3> QED BY <2>1, <3>1, <3>2, <3>3, <3>4, SeedingMoves DEF Room
    <2> QED BY <2>2, <2>3
  <1>8. CASE ListSlots(w)
    <2>1. CASE Targets(run[w].tomorrow) \subseteq held
      BY <1>8, <2>1, EndMoves DEF ListSlots, Ended
    <2>2. CASE ~(Targets(run[w].tomorrow) \subseteq held)
      <3>1. PICK s \in Targets(run[w].tomorrow) :
                Set(w, [pc |-> "createLink", tomorrow |-> run[w].tomorrow, slot |-> s])
        BY <1>8, <2>2 DEF ListSlots
      <3>2. s \in SlotRow /\ run[w].tomorrow \in Nat
        BY <1>8, <3>1, RunShape DEF ListSlots, At, Targets, Looking, Inv, TypeOK
      <3>3. [pc |-> "createLink", tomorrow |-> run[w].tomorrow, slot |-> s] \in Booking
        BY <3>2 DEF Booking
      <3> QED BY <3>1, <3>3, LaterMoves
    <2> QED BY <2>1, <2>2
  <1>9. CASE CreateLink(w)
    <2>1. CASE GoTo(w, "insertBooking")
      <3>1. run[w] \in Booking
        BY <1>9, RunShape DEF CreateLink, At, Inv
      <3>2. [run[w] EXCEPT !.pc = "insertBooking"] \in Booking
        BY <3>1 DEF Booking
      <3>3. Set(w, [run[w] EXCEPT !.pc = "insertBooking"])
        BY <2>1 DEF GoTo, Set
      <3> QED BY <3>2, <3>3, LaterMoves
    <2>2. CASE End(w, "ConferenceUnavailable") \/ End(w, "SlotInThePast")
      BY <2>2, EndMoves DEF Ended
    <2> QED BY <1>9, <2>1, <2>2 DEF CreateLink
  <1>10. CASE InsertBooking(w)
    BY <1>10, EndMoves DEF InsertBooking, Ended
  <1>11. CASE Fails(w)
    BY <1>11, EndMoves DEF Fails, Ended
  <1> QED
    BY <1>1, <1>2, <1>3, <1>4, <1>5, <1>6, <1>7, <1>8, <1>9, <1>10, <1>11 DEF Step, Users

-----------------------------------------------------------------------------
(* The theorems.                                                           *)

LEMMA Starts == Init => Inv
  <1> SUFFICES ASSUME Init PROVE Inv
    OBVIOUS
  <1>1. \A w \in Runs : run[w] \in Resting /\ run[w].pc = "idle"
    BY DEF Init, Resting
  <1>2. TypeOK
    <2>1. run \in [Runs -> States]
      BY <1>1 DEF Init, States
    <2>2. today \in 0 .. MaxDay /\ faults \in Nat
      BY ConstantsAssumption DEF Init
    <2> QED BY <2>1, <2>2 DEF Init, TypeOK
  <1>3. \A w \in Runs : run[w] \notin Seeding
    BY <1>1 DEF Seeding
  <1> QED BY <1>1, <1>2, <1>3 DEF Inv, PlaceInv, OpenInv, RowsInv, Placed, Open, Cutting

(* A step is one statement of one run, or of the surroundings.             *)
LEMMA WhoMoves ==
    ASSUME Inv, [Next]_vars
    PROVE  \/ \E w \in Runs : (Step(w) \/ Fails(w)) /\ Moves(w)
           \/ UNCHANGED run
  <1>1. ASSUME NEW w \in Runs, Step(w) \/ Fails(w)
        PROVE  Moves(w)
    BY <1>1, TableStep, StepMoves
  <1> QED
    BY <1>1 DEF Next, Register, OtherSchedule, OtherSlot, OtherBooking, Midnight, vars

LEMMA Types ==
    ASSUME Inv, [Next]_vars
    PROVE  TypeOK'
  <1> USE DEF Inv, TypeOK
  <1>1. rooms' \subseteq Rooms /\ hours' \in [Rooms -> AllHours \cup {Closed}] /\ slots' \subseteq SlotRow
    BY TableStep, TablesKeep
  <1>2. run' \in [Runs -> States]
    BY WhoMoves DEF Moves
  <1>3. today' \in 0 .. MaxDay
    <2>1. UNCHANGED today \/ Midnight
      BY DEF Next, Step, Start, Ensure, UpsertRoom, GetSchedule, Recheck, InsertSchedule,
         BulkCreate, ListSlots, CreateLink, InsertBooking, Fails, Register, OtherSchedule,
         OtherSlot, OtherBooking, vars
    <2>2. CASE Midnight
      BY <2>2, ConstantsAssumption DEF Midnight
    <2> QED BY <2>1, <2>2
  <1>4. faults' \in Nat
    <2>1. UNCHANGED faults \/ Fault
      BY DEF Next, Step, Start, Ensure, UpsertRoom, GetSchedule, Recheck, InsertSchedule,
         BulkCreate, ListSlots, CreateLink, InsertBooking, Fails, Register, OtherSchedule,
         OtherSlot, OtherBooking, Midnight, vars
    <2> QED BY <2>1 DEF Fault
  <1>5. users' \in [Users -> {"none", "seed", "other"}]
    BY DEF Next, Step, Start, Ensure, UpsertRoom, GetSchedule, Recheck, tables, Effect,
       InsertSchedule, BulkCreate, ListSlots, CreateLink, InsertBooking, Fails, Register,
       OtherSchedule, OtherSlot, OtherBooking, Midnight, vars
  <1> QED BY <1>1, <1>2, <1>3, <1>4, <1>5

LEMMA Invariance ==
    ASSUME Inv, [Next]_vars
    PROVE  Inv'
  <1>1. ASSUME NEW w \in Runs
        PROVE  Sound(w)'
    <2>1. CASE run'[w] = run[w]
      BY <2>1, TableStep, RestStays
    <2>2. CASE run'[w] # run[w]
      <3>1. PICK v \in Runs : Moves(v)
        BY <2>2, WhoMoves
      <3>2. v = w
        BY <2>2, <3>1 DEF Moves, Inv, TypeOK
      <3> QED BY <3>1, <3>2 DEF Moves
    <2> QED BY <2>1, <2>2
  <1>2. PlaceInv' /\ OpenInv' /\ RowsInv'
    BY <1>1 DEF Sound, PlaceInv, OpenInv, RowsInv
  <1> QED BY <1>2, Types DEF Inv

(* The variables have their types, and every run is sound.                 *)
THEOREM TypeCorrect == Spec => []Inv
  <1> QED BY Starts, Invariance, PTL DEF Spec

(* However runs of the command overlap, fail and are repeated beside a     *)
(* service, the tables are those of SlotCalendar.                          *)
THEOREM SeedImplementsCalendar == Spec => ImplementsCalendar
  <1>1. Init => Calendar!Init
    BY DEF Init, Calendar!Init, Closed, Calendar!Closed
  <1>2. ASSUME Inv, [Next]_vars
        PROVE  [Calendar!Next]_(Calendar!vars)
    <2> USE DEF Calendar!vars
    <2>1. CASE OpensRoom
      <3>1. PICK room \in Rooms : rooms' = rooms \cup {room}
        BY <2>1 DEF OpensRoom
      <3>2. CASE room \in rooms
        BY <2>1, <3>1, <3>2 DEF OpensRoom
      <3>3. CASE room \notin rooms
        BY <2>1, <3>1, <3>3 DEF OpensRoom, Calendar!OpenRoom, Calendar!Next
      <3> QED BY <3>2, <3>3
    <2>2. CASE GivesHours
      <3>1. PICK room \in rooms, sch \in AllHours :
                hours[room] = Closed /\ hours' = [hours EXCEPT ![room] = sch]
        BY <2>2 DEF GivesHours
      <3>2. sch.days # {} /\ sch.days \subseteq 1 .. 7 /\ sch.start + SlotMinutes <= sch.end
        BY HoursAssumption
      <3>3. room \in Rooms
        BY <1>2 DEF Inv, TypeOK
      <3>4. Calendar!SetHours(room, sch)
        BY <2>2, <3>1, <3>2 DEF GivesHours, Calendar!SetHours, Calendar!Closed, Closed, Calendar!SlotMinutes, SlotMinutes
      <3> QED BY <3>3, <3>4 DEF Calendar!Next
    <2>3. CASE InsertsSlot
      <3>1. PICK row \in SlotRow : IsCut(row) /\ AddSlot(row)
        BY <2>3 DEF InsertsSlot
      <3>2. CASE \E s \in slots : s.room = row.room /\ s.startAt = row.startAt
        BY <2>3, <3>1, <3>2 DEF InsertsSlot, AddSlot
      <3>3. CASE ~ \E s \in slots : s.room = row.room /\ s.startAt = row.startAt
        <4>1. slots' = slots \cup {row} /\ row \notin slots
          BY <3>1, <3>3 DEF AddSlot
        <4>2. PICK day \in 0 .. MaxDay + GenerationDays :
                  /\ Weekday(day) \in hours[row.room].days
                  /\ \E s \in DaySlots(hours[row.room], day) : row = Row(row.room, s)
          BY <3>1 DEF IsCut
        <4>3. PICK s \in DaySlots(hours[row.room], day) : row = Row(row.room, s)
          BY <4>2
        <4>4. \A t \in slots : t.room = row.room => t.startAt # s.startAt
          BY <3>3, <4>3 DEF Row
        <4>5. slots' = slots \cup {Calendar!SlotRow(row.room, s, "anyone")}
          BY <4>1, <4>3 DEF Row, Calendar!SlotRow
        <4>6. Calendar!CutSlot(row.room, day)
          BY <2>3, <4>1, <4>2, <4>3, <4>4, <4>5
          DEF InsertsSlot, Calendar!CutSlot, Calendar!Weekday, Weekday, Calendar!DaySlots, DaySlots,
              Calendar!Slot, Slot, Calendar!SlotsPerDay, SlotsPerDay, Calendar!DayMinutes, DayMinutes,
              Calendar!SlotMinutes, SlotMinutes
        <4>7. row.room \in Rooms
          BY DEF SlotRow
        <4> QED BY <4>6, <4>7 DEF Calendar!Next
      <3> QED BY <3>2, <3>3
    <2>4. CASE NoChange
      BY <2>4 DEF NoChange
    <2> QED BY <1>2, TableStep, <2>1, <2>2, <2>3, <2>4 DEF TableChange
  <1> QED BY <1>1, <1>2, TypeCorrect, PTL DEF Spec, ImplementsCalendar, Calendar!Spec

(* How a run may end: "Internal" and "ConferenceUnavailable" cost a fault, *)
(* "EmailTaken" somebody else's address, and "ScheduleExists" comes from   *)
(* the two statements that found the room without hours before.  A run     *)
(* ends well if it finds tomorrow's slot held, or when it has booked it.   *)
LEMMA HowStepsEnd ==
    ASSUME Inv, NEW w \in Runs, Step(w) \/ Fails(w), run[w].pc \notin Ended, run'[w].pc \in Ended
    PROVE  /\ run'[w].pc \in {"Internal", "ConferenceUnavailable"} => faults' # faults
           /\ run'[w].pc = "EmailTaken" => \E u \in Users : users[u] = "other"
           /\ run'[w].pc = "ScheduleExists" => run[w].pc \in {"recheck", "insertSchedule"}
           /\ run'[w].pc = "SlotInThePast" => run[w].tomorrow <= today
           /\ run'[w].pc = "ok" => \/ ListSlots(w) /\ Targets(run[w].tomorrow) \subseteq held
                                  \/ InsertBooking(w)
  <1>1. ASSUME NEW how, End(w, how)
        PROVE  run'[w].pc = how
    BY <1>1 DEF End, Set, Inv, TypeOK
  <1>2. ASSUME NEW l \in {"user", "upsertRoom", "getSchedule", "recheck", "insertSchedule",
                         "insertBooking"}, GoTo(w, l)
        PROVE  run'[w].pc \notin Ended
    <2>1. run'[w] = [run[w] EXCEPT !.pc = l]
      BY <1>2 DEF GoTo, Inv, TypeOK
    <2>2. run[w] \in States
      BY DEF Inv, TypeOK
    <2>3. run'[w].pc = l
      BY <2>1, <2>2 DEF States, Seeding, Looking, Booking, Resting
    <2> QED BY <1>2, <2>3 DEF Ended
  <1>3. ASSUME run[w] \in Seeding, RoomDone(w) \/ \E sch : CreateSlots(w, sch)
        PROVE  run'[w].pc \notin Ended
    <2>1. ASSUME NEW x, Set(w, x), x.pc \in {"upsertRoom", "listSlots", "createSlots"}
          PROVE  run'[w].pc \notin Ended
      BY <2>1 DEF Set, Inv, TypeOK, Ended
    <2>2. CASE RoomDone(w)
      <3>1. [run[w] EXCEPT !.pc = "upsertRoom", !.room = @ + 1].pc = "upsertRoom"
        BY <1>3 DEF Seeding
      <3>2. [pc |-> "listSlots", tomorrow |-> today + 1].pc = "listSlots"
        OBVIOUS
      <3> QED BY <2>1, <2>2, <3>1, <3>2 DEF RoomDone
    <2>3. ASSUME NEW sch, CreateSlots(w, sch)
          PROVE  run'[w].pc \notin Ended
      <3> DEFINE rows == SlotsAhead(Room(w), sch)
      <3>1. [run[w] EXCEPT !.pc = "createSlots", !.pending = rows].pc = "createSlots"
        <4> HIDE DEF rows
        <4> QED BY <1>3 DEF Seeding
      <3> QED BY <2>1, <2>3, <3>1 DEF CreateSlots
    <2> QED BY <1>3, <2>2, <2>3
  <1>4. ASSUME NEW u \in Users, NEW next \in {"user", "upsertRoom"}, Ensure(w, u, next)
        PROVE  run'[w].pc = "EmailTaken" /\ users[u] = "other"
    BY <1>1, <1>2, <1>4 DEF Ensure, Ended
  <1>5. CASE Recheck(w)
    BY <1>1, <1>2, <1>5 DEF Recheck, At, Ended
  <1>6. CASE InsertSchedule(w)
    <2>1. run[w] \in Seeding /\ run[w].pc = "insertSchedule"
      BY <1>6, RunShape DEF InsertSchedule, At, Inv
    <2> QED BY <1>1, <1>3, <1>6, <2>1 DEF InsertSchedule
  <1>7. CASE GetSchedule(w) \/ UpsertRoom(w) \/ BulkCreate(w) \/ Start(w)
    <2>1. run'[w].pc \notin Ended
      <3>1. CASE GetSchedule(w)
        <4>1. run[w] \in Seeding
          BY <3>1, RunShape DEF GetSchedule, At, Inv
        <4> QED BY <1>2, <1>3, <3>1, <4>1 DEF GetSchedule, Ended
      <3>2. CASE UpsertRoom(w)
        BY <1>2, <3>2 DEF UpsertRoom, Ended
      <3>3. CASE BulkCreate(w)
        <4>1. run[w] \in Seeding /\ run[w].pc = "createSlots"
          BY <3>3, RunShape DEF BulkCreate, At, Inv
        <4>2. CASE run[w].pending = {}
          BY <1>3, <3>3, <4>1, <4>2 DEF BulkCreate
        <4>3. CASE run[w].pending # {}
          <5>1. run'[w] = [run[w] EXCEPT !.pending = @ \ {Earliest(@)}]
            BY <3>3, <4>3 DEF BulkCreate, Inv, TypeOK
          <5> QED BY <4>1, <5>1 DEF Seeding, Ended
        <4> QED BY <4>2, <4>3
      <3>4. CASE Start(w)
        BY <3>4 DEF Start, Set, Inv, TypeOK, Ended
      <3> QED BY <1>7, <3>1, <3>2, <3>3, <3>4
    <2> QED BY <2>1
  <1>8. CASE ListSlots(w)
    <2>1. CASE Targets(run[w].tomorrow) \subseteq held
      BY <1>1, <1>8, <2>1 DEF ListSlots
    <2>2. CASE ~(Targets(run[w].tomorrow) \subseteq held)
      <3>1. PICK s \in Targets(run[w].tomorrow) :
                Set(w, [pc |-> "createLink", tomorrow |-> run[w].tomorrow, slot |-> s])
        BY <1>8, <2>2 DEF ListSlots
      <3> QED BY <3>1 DEF Set, Inv, TypeOK, Ended
    <2> QED BY <2>1, <2>2
  <1>9. ASSUME Fault
        PROVE  faults' # faults
    BY <1>9 DEF Fault, Inv, TypeOK
  <1>10. CASE CreateLink(w)
    BY <1>1, <1>2, <1>9, <1>10 DEF CreateLink, Ended
  <1>11. CASE InsertBooking(w)
    BY <1>1, <1>9, <1>11 DEF InsertBooking
  <1>12. CASE Fails(w)
    BY <1>1, <1>9, <1>12 DEF Fails
  <1> QED
    BY <1>4, <1>5, <1>6, <1>7, <1>8, <1>10, <1>11, <1>12 DEF Step, Users

(* What earlier runs of the command left never makes a run fail.           *)
THEOREM RemainsNeverFailARun == Spec => RemainsAreNoReasonToFail
  <1>1. ASSUME Inv, [Next]_vars
        PROVE  \A w \in Runs :
                 /\ Ends(w, {"Internal", "ConferenceUnavailable"}) => faults' # faults
                 /\ Ends(w, {"EmailTaken"}) => \E u \in Users : users[u] = "other"
                 /\ Ends(w, {"ScheduleExists"}) => Room(w) \notin run[w].open
                 /\ Ends(w, {"SlotInThePast"}) => run[w].tomorrow <= today
    <2> SUFFICES ASSUME NEW w \in Runs, run[w].pc \notin Ended, run'[w].pc \in Ended
                 PROVE  /\ run'[w].pc \in {"Internal", "ConferenceUnavailable"} => faults' # faults
                        /\ run'[w].pc = "EmailTaken" => \E u \in Users : users[u] = "other"
                        /\ run'[w].pc = "ScheduleExists" => Room(w) \notin run[w].open
                        /\ run'[w].pc = "SlotInThePast" => run[w].tomorrow <= today
      BY DEF Ends, Ended
    <2>1. Step(w) \/ Fails(w)
      <3>1. PICK v \in Runs : (Step(v) \/ Fails(v)) /\ Moves(v)
        BY <1>1, WhoMoves
      <3>2. v = w
        BY <1>1, <3>1 DEF Moves, Inv, TypeOK
      <3> QED BY <3>1, <3>2
    <2>2. run[w].pc \in {"recheck", "insertSchedule"} => Room(w) \notin run[w].open
      BY <1>1, RunShape DEF Inv, OpenInv, Open, Room
    <2> QED BY <1>1, <2>1, <2>2, HowStepsEnd
  <1> QED BY <1>1, TypeCorrect, PTL DEF Spec, RemainsAreNoReasonToFail

-----------------------------------------------------------------------------
(* What a run that ends well has done.  Before each of its statements it   *)
(* has put in the users and the rooms before it, and once the hours of the *)
(* board room are generated, tomorrow's slot is stored or to be inserted.  *)

(* The test users that a run has put in when it comes to a statement.      *)
Ensured(l) ==
    IF l \in Ended \cup {"idle", "admin"} THEN {}
    ELSE IF l = "user" THEN {"admin"} ELSE Users

(* The rooms that a run has done with.                                     *)
Behind(x) ==
    IF x \in Seeding THEN {SeedRooms[i] : i \in 1 .. x.room - 1}
    ELSE IF x \in Looking \cup Booking THEN Rooms ELSE {}

Achieved(x) ==
    /\ \A u \in Ensured(x.pc) : users[u] = "seed"
    /\ \A room \in Behind(x) : room \in rooms /\ hours[room] # Closed

(* The slot of the sample booking, on some day.                            *)
IsTarget(row, day) == row.room = Board /\ row.startAt = day * DayMinutes + Target

Aimed(x) == x \in Booking => IsTarget(x.slot, x.tomorrow)

HasTarget(rows, day) == \E row \in rows : IsTarget(row, day)
Tomorrows == today + 1 .. MaxDay + 1

(* From the moment that the board room's own hours are generated, the slot *)
(* is stored, or to be inserted, for whatever day will be tomorrow.        *)
OwnHours == hours[Board] = HoursOf[Board] /\ GenerationDays >= MaxDay + 2
Ready(x) ==
    /\ x \in Seeding /\ x.pc = "createSlots" /\ x.room = 1 =>
          \A day \in Tomorrows : HasTarget(slots \cup x.pending, day)
    /\ x \in Seeding /\ x.room > 1 => \A day \in Tomorrows : HasTarget(slots, day)
    /\ x \in Looking \cup Booking => HasTarget(slots, x.tomorrow)

Fulfilled(x) == Achieved(x) /\ Aimed(x) /\ (OwnHours => Ready(x))

SuccessInv == \A w \in Runs : Fulfilled(run[w])

LEMMA BoardIsARoom == Board = SeedRooms[1] /\ Board \in Rooms
  BY ConstantsAssumption DEF Board, Rooms

(* Half hours are generated from the start of each day on.                 *)
LEMMA TargetIsAhead ==
    ASSUME NEW from \in 0 .. MaxDay, NEW day \in from + 1 .. MaxDay + 1,
           GenerationDays >= MaxDay + 2
    PROVE  \E s \in Ahead[HoursOf[Board]][from] : s.startAt = day * DayMinutes + Target
  <1> DEFINE sch == HoursOf[Board]
             s   == Slot(day * DayMinutes + sch.start + 0 * SlotMinutes)
  <1>1. sch \in AllHours /\ sch.days = 1 .. 7 /\ Target = sch.start
    BY BoardIsARoom, ConstantsAssumption DEF AllHours
  <1>2. sch.start \in Nat /\ sch.start + SlotMinutes <= sch.end
    <2>1. sch.start \in 0 .. DayMinutes - 1
      BY <1>1, HoursAssumption
    <2>2. \A minute \in 0 .. DayMinutes - 1 : minute \in Nat
      BY DEF DayMinutes
    <2> QED BY <1>1, <2>1, <2>2, HoursAssumption
  <1>3. from \in Nat /\ day \in Nat /\ from < day /\ day <= from + GenerationDays - 1
    BY ConstantsAssumption
  <1>4. day \in from .. (from + GenerationDays) - 1
    BY <1>3, ConstantsAssumption
  <1>5. 0 \in 0 .. SlotsPerDay - 1
    BY DEF SlotsPerDay, DayMinutes, SlotMinutes
  <1>6. sch.start + (0 + 1) * SlotMinutes <= sch.end
    BY <1>2 DEF SlotMinutes
  <1>7. s \in DaySlots(sch, day)
    BY <1>5, <1>6 DEF DaySlots
  <1>8. Weekday(day) \in 1 .. 7
    BY <1>3 DEF Weekday
  <1>9. s \in Build(sch, from, from + GenerationDays)
    <2> HIDE DEF s, sch
    <2>1. Weekday(day) \in sch.days
      BY <1>1, <1>8
    <2> QED BY <1>4, <1>7, <2>1, Zenon DEF Build
  <1>10. s \in Ahead[sch][from]
    <2> HIDE DEF s, sch
    <2> QED BY <1>1, <1>9, Zenon DEF Ahead
  <1>11. s.startAt = day * DayMinutes + sch.start
    BY <1>2, <1>3 DEF Slot, SlotMinutes, DayMinutes
  <1> QED BY <1>1, <1>10, <1>11

(* So that they are among the rows that a run is to insert.                *)
LEMMA TargetIsGenerated ==
    ASSUME Inv, NEW day \in Tomorrows, GenerationDays >= MaxDay + 2
    PROVE  HasTarget(SlotsAhead(Board, HoursOf[Board]), day)
  <1>1. today \in 0 .. MaxDay
    BY DEF Inv, TypeOK
  <1>2. PICK s \in Ahead[HoursOf[Board]][today] : s.startAt = day * DayMinutes + Target
    BY <1>1, TargetIsAhead DEF Tomorrows
  <1>3. Row(Board, s) \in SlotsAhead(Board, HoursOf[Board])
    BY DEF SlotsAhead, SlotsFrom
  <1>4. IsTarget(Row(Board, s), day)
    BY <1>2 DEF IsTarget, Row
  <1> QED BY <1>3, <1>4 DEF HasTarget

(* Nothing that a run has achieved is undone, by anybody.                  *)
LEMMA NothingIsUndone ==
    ASSUME Inv, [Next]_vars
    PROVE  /\ \A u \in Users : users[u] = "seed" => users'[u] = "seed"
           /\ rooms \subseteq rooms'
           /\ \A room \in Rooms : hours[room] # Closed => hours'[room] = hours[room]
           /\ slots \subseteq slots'
           /\ Tomorrows' \subseteq Tomorrows
  <1>1. /\ rooms \subseteq rooms' /\ slots \subseteq slots'
        /\ \A room \in Rooms : hours[room] # Closed => hours'[room] = hours[room]
    BY TableStep, TablesKeep
  <1>2. \A u \in Users : users[u] = "seed" => users'[u] = "seed"
    BY DEF Next, Step, Start, Ensure, UpsertRoom, GetSchedule, Recheck, tables, Effect,
       InsertSchedule, BulkCreate, ListSlots, CreateLink, InsertBooking, Fails, Register,
       OtherSchedule, OtherSlot, OtherBooking, Midnight, vars, Inv, TypeOK
  <1>3. Tomorrows' \subseteq Tomorrows
    <2>1. today' = today \/ today' = today + 1
      BY DEF Next, Step, Start, Ensure, UpsertRoom, GetSchedule, Recheck, InsertSchedule,
         BulkCreate, ListSlots, CreateLink, InsertBooking, Fails, Register, OtherSchedule,
         OtherSlot, OtherBooking, Midnight, vars
    <2>2. today \in Nat /\ MaxDay \in Nat
      BY ConstantsAssumption DEF Inv, TypeOK
    <2> QED BY <2>1, <2>2 DEF Tomorrows
  <1> QED BY <1>1, <1>2, <1>3

(* The records of the two parts of the command and of no part.             *)
LEMMA Kinds ==
    /\ \A x \in Seeding : x \notin Looking \cup Booking /\ x.pc \notin Ended \cup {"idle"}
                          /\ x.room \in 1 .. Len(SeedRooms)
    /\ \A x \in Looking \cup Booking : x \notin Seeding /\ Ensured(x.pc) = Users
    /\ \A x \in Resting : x \notin Seeding \cup Looking \cup Booking /\ Ensured(x.pc) = {}
    /\ \A l : Ensured(l) \subseteq Users
  BY DEF Seeding, Looking, Booking, Resting, Ended, Ensured, Users

(* What is true of a run's record stays true while it is kept.             *)
LEMMA FulfilledStays ==
    ASSUME Inv, [Next]_vars, NEW w \in Runs, NEW x, x = run[w], Fulfilled(x)
    PROVE  Fulfilled(x)'
  <1>1. x \in Seeding => \A i \in 1 .. x.room - 1 : SeedRooms[i] \in Rooms
    BY Kinds, ConstantsAssumption DEF Rooms
  <1>2. Behind(x) \subseteq Rooms
    BY <1>1 DEF Behind
  <1>3. Achieved(x)'
    BY <1>2, NothingIsUndone, Kinds DEF Fulfilled, Achieved
  <1>4. Aimed(x)'
    BY DEF Fulfilled, Aimed, IsTarget
  <1>5. ASSUME OwnHours', \/ x \in Seeding /\ x.pc = "createSlots" /\ x.room = 1
                          \/ x \in Seeding /\ x.room > 1
                          \/ x \in Looking \cup Booking
        PROVE  OwnHours
    <2>1. hours[Board] # Closed
      <3>1. CASE x \in Seeding /\ x.pc = "createSlots" /\ x.room = 1
        BY <3>1, BoardIsARoom DEF Inv, PlaceInv, Placed
      <3>2. CASE x \in Seeding /\ x.room > 1
        <4>1. 1 \in 1 .. x.room - 1
          BY <3>2, Kinds
        <4> QED BY <3>2, <4>1, BoardIsARoom DEF Fulfilled, Achieved, Behind
      <3>3. CASE x \in Looking \cup Booking
        BY <3>3, Kinds, BoardIsARoom DEF Fulfilled, Achieved, Behind
      <3> QED BY <1>5, <3>1, <3>2, <3>3
    <2> QED BY <1>5, <2>1, BoardIsARoom, NothingIsUndone DEF OwnHours
  <1>6. \A rows, day : HasTarget(slots \cup rows, day) => HasTarget(slots \cup rows, day)'
    <2> SUFFICES ASSUME NEW rows, NEW day, HasTarget(slots \cup rows, day)
                 PROVE  \E row \in slots' \cup rows : IsTarget(row, day)
      BY DEF HasTarget, IsTarget
    <2> QED BY NothingIsUndone DEF HasTarget
  <1>7. \A day : HasTarget(slots, day) => HasTarget(slots, day)'
    BY NothingIsUndone DEF HasTarget, IsTarget
  <1>8. OwnHours' => Ready(x)'
    BY <1>5, <1>6, <1>7, NothingIsUndone DEF Fulfilled, Ready
  <1> QED BY <1>3, <1>4, <1>8 DEF Fulfilled

(* A run that has ended owes nothing.                                      *)
LEMMA EndFulfils ==
    ASSUME Inv, NEW w \in Runs, NEW how \in Ended, End(w, how), NEW y, y = run'[w]
    PROVE  Fulfilled(y)'
  <1>1. y = [pc |-> how]
    BY DEF End, Set, Inv, TypeOK
  <1>2. y \in Resting
    BY <1>1 DEF Resting
  <1> QED BY <1>2, Kinds DEF Fulfilled, Achieved, Aimed, Ready, Behind

(* Another statement about the same room.                                  *)
LEMMA SameRoomFulfils ==
    ASSUME NEW x \in Seeding, NEW y \in Seeding, y.room = x.room, Fulfilled(x)',
           \A u \in Ensured(y.pc) : users'[u] = "seed",
           OwnHours' /\ y.pc = "createSlots" /\ y.room = 1 =>
               \A day \in Tomorrows' : HasTarget(slots \cup y.pending, day)'
    PROVE  Fulfilled(y)'
  <1>1. Behind(y) = Behind(x)
    BY DEF Behind
  <1>2. Achieved(y)' /\ Aimed(y)'
    BY <1>1, Kinds DEF Fulfilled, Achieved, Aimed
  <1>3. OwnHours' => Ready(y)'
    BY Kinds DEF Fulfilled, Ready
  <1> QED BY <1>2, <1>3 DEF Fulfilled

(* The slots of a room are computed.                                       *)
LEMMA CreateSlotsFulfils ==
    ASSUME Inv, NEW w \in Runs, NEW x \in Seeding, x = run[w], NEW y, y = run'[w], Fulfilled(x)',
           NEW sch \in AllHours, CreateSlots(w, sch), hours'[Room(w)] = sch, UNCHANGED today,
           Ensured(x.pc) = Users
    PROVE  Fulfilled(y)'
  <1> DEFINE rows == SlotsAhead(Room(w), sch)
  <1>1. y = [x EXCEPT !.pc = "createSlots", !.pending = rows]
    BY DEF CreateSlots, Set, Inv, TypeOK
  <1>2. rows \subseteq SlotRow
    <2>1. today \in 0 .. MaxDay /\ Room(w) \in Rooms
      BY Kinds DEF Inv, TypeOK, Room, Rooms
    <2> QED BY <2>1, AheadIsBuilt DEF SlotsAhead, SlotsFrom, Row, SlotRow
  <1>3. y \in Seeding /\ y.room = x.room /\ y.pc = "createSlots" /\ y.pending = rows
    <2> HIDE DEF rows
    <2> QED BY <1>1, <1>2 DEF Seeding
  <1>4. ASSUME OwnHours', y.room = 1, NEW day \in Tomorrows'
        PROVE  HasTarget(slots \cup y.pending, day)'
    <2>1. Room(w) = Board
      BY <1>3, <1>4, BoardIsARoom DEF Room
    <2>2. rows = SlotsAhead(Board, HoursOf[Board])
      BY <1>4, <2>1 DEF OwnHours
    <2>3. HasTarget(rows, day)
      BY <1>4, <2>2, TargetIsGenerated DEF OwnHours, Tomorrows
    <2> HIDE DEF rows
    <2> QED BY <1>3, <2>3 DEF HasTarget, IsTarget
  <1>5. \A u \in Ensured(y.pc) : users'[u] = "seed"
    BY Kinds DEF Fulfilled, Achieved
  <1> HIDE DEF rows
  <1> QED BY <1>3, <1>4, <1>5, SameRoomFulfils

(* A room with all its slots is one more of those done with.               *)
LEMMA RoomDoneFulfils ==
    ASSUME Inv, NEW w \in Runs, NEW x \in Seeding, x = run[w], NEW y, y = run'[w], Fulfilled(x),
           x.pc = "createSlots", x.pending = {}, RoomDone(w),
           UNCHANGED <<today, tables>>
    PROVE  Fulfilled(y)'
  <1>1. \A i \in 1 .. x.room : SeedRooms[i] \in rooms' /\ hours'[SeedRooms[i]] # Closed
    <2>1. SeedRooms[x.room] \in rooms /\ hours[SeedRooms[x.room]] # Closed
      BY DEF Inv, PlaceInv, Placed
    <2>2. \A i \in 1 .. x.room : i = x.room \/ i \in 1 .. x.room - 1
      BY Kinds
    <2> QED BY <2>1, <2>2 DEF Fulfilled, Achieved, Behind, tables
  <1>2. OwnHours' => \A day \in Tomorrows' : HasTarget(slots, day)'
    <2>1. x.room = 1 \/ x.room > 1
      BY Kinds
    <2> QED BY <2>1 DEF Fulfilled, Ready, OwnHours, HasTarget, Tomorrows, tables
  <1>3. \A u \in Users : users'[u] = "seed"
    <2>1. Ensured(x.pc) = Users
      BY DEF Ensured, Ended
    <2> QED BY <2>1 DEF Fulfilled, Achieved, tables
  <1>4. CASE x.room < Len(SeedRooms)
    <2>1. y = [x EXCEPT !.pc = "upsertRoom", !.room = @ + 1]
      BY <1>4 DEF RoomDone, Set, Inv, TypeOK
    <2>2. x.room \in Nat /\ x.room + 1 \in 1 .. Len(SeedRooms)
      BY <1>4, Kinds, ConstantsAssumption
    <2>3. y \in Seeding /\ y.room = x.room + 1 /\ y.pc = "upsertRoom"
      BY <2>1, <2>2 DEF Seeding
    <2>4. \A i \in 1 .. y.room - 1 : i \in 1 .. x.room
      BY <2>2, <2>3
    <2>5. Behind(y) = {SeedRooms[i] : i \in 1 .. y.room - 1}
      BY <2>3 DEF Behind
    <2>6. Achieved(y)' /\ Aimed(y)'
      BY <1>1, <1>3, <2>3, <2>4, <2>5, Kinds DEF Achieved, Aimed
    <2>7. OwnHours' => Ready(y)'
      BY <1>2, <2>3, Kinds DEF Ready
    <2> QED BY <2>6, <2>7 DEF Fulfilled
  <1>5. CASE ~(x.room < Len(SeedRooms))
    <2>1. y = [pc |-> "listSlots", tomorrow |-> today + 1]
      BY <1>5 DEF RoomDone, Set, Inv, TypeOK
    <2>2. today \in 0 .. MaxDay /\ MaxDay \in Nat
      BY ConstantsAssumption DEF Inv, TypeOK
    <2>3. y \in Looking /\ y.tomorrow = today + 1 /\ y.tomorrow \in Tomorrows'
      BY <2>1, <2>2 DEF Looking, Tomorrows
    <2>4. \A room \in Rooms : room \in rooms' /\ hours'[room] # Closed
      <3>1. x.room \in 1 .. Len(SeedRooms) /\ Len(SeedRooms) \in Nat
        BY Kinds, ConstantsAssumption
      <3>2. x.room = Len(SeedRooms)
        BY <1>5, <3>1
      <3> QED BY <1>1, <3>2 DEF Rooms
    <2>5. Achieved(y)' /\ Aimed(y)'
      BY <1>3, <2>3, <2>4, Kinds DEF Achieved, Aimed, Behind, Looking, Booking
    <2>6. OwnHours' => Ready(y)'
      BY <1>2, <2>3, Kinds DEF Ready
    <2> QED BY <2>5, <2>6 DEF Fulfilled
  <1> QED BY <1>4, <1>5

(* Every statement of a run leaves it with what it owes.                   *)
LEMMA StepFulfils ==
    ASSUME Inv, [Next]_vars, NEW w \in Runs, Step(w) \/ Fails(w),
           NEW x, x = run[w], NEW y, y = run'[w], Fulfilled(x)
    PROVE  Fulfilled(y)'
  <1>1. Fulfilled(x)'
    BY FulfilledStays
  <1>2. /\ x.pc \in {"admin", "user", "upsertRoom", "getSchedule", "recheck",
                     "insertSchedule", "createSlots"} => x \in Seeding /\ Room(w) \in Rooms
        /\ x.pc = "listSlots" => x \in Looking
        /\ x.pc \in {"createLink", "insertBooking"} => x \in Booking
    BY RunShape DEF Inv
  <1>3. ASSUME NEW l \in {"user", "upsertRoom", "getSchedule", "recheck", "insertSchedule"},
               x \in Seeding, GoTo(w, l), \A u \in Ensured(l) : users'[u] = "seed"
        PROVE  Fulfilled(y)'
    <2>1. y = [x EXCEPT !.pc = l]
      BY <1>3 DEF GoTo, Inv, TypeOK
    <2>2. y \in Seeding /\ y.room = x.room /\ y.pc = l
      BY <1>3, <2>1 DEF Seeding
    <2> QED BY <1>1, <1>3, <2>2, SameRoomFulfils
  <1>4. ASSUME x.pc \in {"upsertRoom", "getSchedule", "recheck", "insertSchedule", "createSlots"}
        PROVE  Ensured(x.pc) = Users /\ \A u \in Users : users'[u] = "seed"
    <2>1. Ensured(x.pc) = Users
      BY <1>4 DEF Ensured, Ended
    <2> QED BY <1>1, <2>1 DEF Fulfilled, Achieved
  <1>5. CASE Start(w)
    <2>1. y = [pc |-> "admin", room |-> 1, pending |-> {},
               open |-> {room \in Rooms : hours[room] # Closed}]
      BY <1>5 DEF Start, Set, Inv, TypeOK
    <2>2. y \in Seeding /\ y.pc = "admin" /\ y.room = 1
      BY <2>1, ConstantsAssumption DEF Seeding
    <2>3. Behind(y) = {} /\ Ensured(y.pc) = {}
      BY <2>2 DEF Behind, Ensured
    <2> QED BY <2>2, <2>3, Kinds DEF Fulfilled, Achieved, Aimed, Ready
  <1>6. CASE Ensure(w, "admin", "user") \/ Ensure(w, "user", "upsertRoom")
    <2>1. ASSUME NEW u \in Users, NEW next \in {"user", "upsertRoom"}, Ensure(w, u, next),
                 u = "admin" => next = "user"
          PROVE  Fulfilled(y)'
      <3>1. CASE End(w, "EmailTaken")
        BY <3>1, EndFulfils DEF Ended
      <3>2. CASE GoTo(w, next) /\ users' = [users EXCEPT ![u] = "seed"]
        <4>1. x.pc = u /\ x \in Seeding
          BY <1>2, <2>1 DEF Ensure, At, Users
        <4>2. users'[u] = "seed"
          BY <3>2 DEF Inv, TypeOK
        <4>3. \A v \in Ensured(x.pc) : users'[v] = "seed"
          BY <1>1 DEF Fulfilled, Achieved
        <4>4. Ensured(next) \subseteq Ensured(x.pc) \cup {u}
          BY <2>1, <4>1 DEF Ensured, Users, Ended
        <4> QED BY <1>3, <3>2, <4>1, <4>2, <4>3, <4>4
      <3> QED BY <2>1, <3>1, <3>2 DEF Ensure
    <2> QED BY <1>6, <2>1 DEF Users
  <1>7. CASE UpsertRoom(w)
    BY <1>2, <1>3, <1>4, <1>7, Kinds DEF UpsertRoom, At
  <1>8. CASE GetSchedule(w)
    <2>1. x.pc = "getSchedule" /\ x \in Seeding /\ Room(w) \in Rooms /\ UNCHANGED <<today, hours>>
      BY <1>2, <1>8 DEF GetSchedule, At, tables
    <2>2. CASE hours[Room(w)] = Closed
      BY <1>3, <1>4, <1>8, <2>1, <2>2, Kinds DEF GetSchedule
    <2>3. CASE hours[Room(w)] # Closed
      <3>1. hours[Room(w)] \in AllHours
        BY <2>1, <2>3 DEF Inv, TypeOK
      <3>2. CreateSlots(w, hours[Room(w)])
        BY <1>8, <2>3 DEF GetSchedule
      <3> QED BY <1>1, <1>4, <2>1, <3>1, <3>2, CreateSlotsFulfils
    <2> QED BY <2>2, <2>3
  <1>9. CASE Recheck(w)
    <2>1. x.pc = "recheck" /\ x \in Seeding
      BY <1>2, <1>9 DEF Recheck, At
    <2>2. GoTo(w, "insertSchedule") \/ End(w, "ScheduleExists")
      BY <1>9 DEF Recheck
    <2> QED BY <1>3, <1>4, <2>1, <2>2, EndFulfils, Kinds DEF Ended
  <1>10. CASE InsertSchedule(w)
    <2>1. x.pc = "insertSchedule" /\ x \in Seeding /\ Room(w) \in Rooms /\ UNCHANGED today
      BY <1>2, <1>10 DEF InsertSchedule, At
    <2>2. CASE hours[Room(w)] # Closed
      BY <1>10, <2>2, EndFulfils DEF InsertSchedule, Ended
    <2>3. CASE hours[Room(w)] = Closed
      <3>1. HoursOf[Room(w)] \in AllHours
        BY <2>1 DEF AllHours
      <3>2. CreateSlots(w, HoursOf[Room(w)]) /\ hours'[Room(w)] = HoursOf[Room(w)]
        BY <1>10, <2>1, <2>3 DEF InsertSchedule, Inv, TypeOK
      <3> QED BY <1>1, <1>4, <2>1, <3>1, <3>2, CreateSlotsFulfils
    <2> QED BY <2>2, <2>3
  <1>11. CASE BulkCreate(w)
    <2>1. /\ x.pc = "createSlots" /\ x \in Seeding
          /\ UNCHANGED <<today, users, rooms, hours, held>>
      BY <1>2, <1>11 DEF BulkCreate, At
    <2>2. CASE x.pending = {}
      BY <1>11, <2>1, <2>2, RoomDoneFulfils DEF BulkCreate, tables
    <2>3. CASE x.pending # {}
      <3> DEFINE row  == Earliest(x.pending)
                 left == x.pending \ {row}
      <3>1. y = [x EXCEPT !.pending = left] /\ AddSlot(row)
        BY <1>11, <2>3 DEF BulkCreate, Inv, TypeOK
      <3>2. left \subseteq SlotRow
        BY <2>1 DEF Seeding
      <3> HIDE DEF row
      <3>3. y \in Seeding /\ y.room = x.room /\ y.pc = "createSlots" /\ y.pending = left
        <4> HIDE DEF left
        <4> QED BY <2>1, <3>1, <3>2 DEF Seeding
      <3>4. ASSUME NEW day, HasTarget(slots \cup x.pending, day)
            PROVE  HasTarget(slots \cup y.pending, day)'
        <4>1. PICK r \in slots \cup x.pending : IsTarget(r, day)
          BY <3>4 DEF HasTarget
        <4>2. CASE r # row
          BY <3>1, <3>3, <4>1, <4>2 DEF AddSlot, HasTarget, IsTarget
        <4>3. CASE r = row
          <5>1. \E s \in slots' : s.room = r.room /\ s.startAt = r.startAt
            BY <3>1, <4>3 DEF AddSlot
          <5> QED BY <4>1, <5>1 DEF HasTarget, IsTarget
        <4> QED BY <4>2, <4>3
      <3>5. OwnHours' /\ y.pc = "createSlots" /\ y.room = 1 =>
                \A day \in Tomorrows' : HasTarget(slots \cup y.pending, day)'
        BY <2>1, <3>3, <3>4 DEF Fulfilled, Ready, OwnHours, Tomorrows
      <3>6. \A u \in Ensured(y.pc) : users'[u] = "seed"
        BY <1>4, <2>1, Kinds
      <3> QED BY <1>1, <2>1, <3>3, <3>5, <3>6, SameRoomFulfils
    <2> QED BY <2>2, <2>3
  <1>12. CASE ListSlots(w)
    <2>1. CASE End(w, "ok")
      BY <2>1, EndFulfils DEF Ended
    <2>2. CASE ~End(w, "ok")
      <3>1. x \in Looking
        BY <1>2, <1>12 DEF ListSlots, At
      <3>2. PICK s \in Targets(x.tomorrow) :
                Set(w, [pc |-> "createLink", tomorrow |-> x.tomorrow, slot |-> s])
        BY <1>12, <2>2 DEF ListSlots
      <3>3. y = [pc |-> "createLink", tomorrow |-> x.tomorrow, slot |-> s]
        BY <3>2 DEF Set, Inv, TypeOK
      <3>4. IsTarget(s, x.tomorrow) /\ s \in SlotRow
        BY <3>2 DEF Targets, IsTarget, Inv, TypeOK
      <3>5. y \in Booking /\ y.slot = s /\ y.tomorrow = x.tomorrow
        BY <3>1, <3>3, <3>4 DEF Booking, Looking
      <3>6. Ensured(y.pc) = Ensured(x.pc) /\ Behind(y) = Behind(x)
        BY <3>1, <3>5, Kinds DEF Behind
      <3> QED BY <1>1, <3>1, <3>4, <3>5, <3>6, Kinds DEF Fulfilled, Achieved, Aimed, Ready, IsTarget
    <2> QED BY <2>1, <2>2
  <1>13. CASE CreateLink(w)
    <2>1. CASE GoTo(w, "insertBooking")
      <3>1. x \in Booking
        BY <1>2, <1>13 DEF CreateLink, At
      <3>2. y = [x EXCEPT !.pc = "insertBooking"]
        BY <2>1 DEF GoTo, Inv, TypeOK
      <3>3. y \in Booking /\ y.slot = x.slot /\ y.tomorrow = x.tomorrow
        BY <3>1, <3>2 DEF Booking
      <3>4. Ensured(y.pc) = Ensured(x.pc) /\ Behind(y) = Behind(x)
        BY <3>1, <3>3, Kinds DEF Behind
      <3> QED BY <1>1, <3>1, <3>3, <3>4, Kinds DEF Fulfilled, Achieved, Aimed, Ready, IsTarget
    <2>2. CASE End(w, "ConferenceUnavailable") \/ End(w, "SlotInThePast")
      BY <2>2, EndFulfils DEF Ended
    <2> QED BY <1>13, <2>1, <2>2 DEF CreateLink
  <1>14. CASE InsertBooking(w)
    BY <1>14, EndFulfils DEF InsertBooking, Ended
  <1>15. CASE Fails(w)
    BY <1>15, EndFulfils DEF Fails, Ended
  <1> QED
    BY <1>5, <1>6, <1>7, <1>8, <1>9, <1>10, <1>11, <1>12, <1>13, <1>14, <1>15 DEF Step

(* So does every step, whoever takes it.                                   *)
LEMMA SuccessInvariance ==
    ASSUME Inv, [Next]_vars, SuccessInv
    PROVE  SuccessInv'
  <1> SUFFICES ASSUME NEW w \in Runs, NEW y, y = run'[w] PROVE Fulfilled(y)'
    BY DEF SuccessInv, Fulfilled, Achieved, Aimed, Ready
  <1>1. PICK x : x = run[w] /\ Fulfilled(x)
    BY DEF SuccessInv
  <1>2. CASE y = x
    BY <1>1, <1>2, FulfilledStays
  <1>3. CASE y # x
    <2>1. PICK v \in Runs : (Step(v) \/ Fails(v)) /\ Moves(v)
      BY <1>1, <1>3, WhoMoves
    <2>2. v = w
      BY <1>1, <1>3, <2>1 DEF Moves, Inv, TypeOK
    <2> QED BY <1>1, <2>1, <2>2, StepFulfils
  <1> QED BY <1>2, <1>3

(* Every run has done what it is to have done before its next statement.   *)
THEOREM RunsDeliver == Spec => []SuccessInv
  <1>1. Init => SuccessInv
    <2> SUFFICES ASSUME Init, NEW w \in Runs PROVE Fulfilled(run[w])
      BY DEF SuccessInv
    <2>1. run[w] \in Resting
      BY DEF Init, Resting
    <2> QED BY <2>1, Kinds DEF Fulfilled, Achieved, Aimed, Ready, Behind
  <1> QED BY <1>1, SuccessInvariance, TypeCorrect, PTL DEF Spec

(* A run that reports success has done all that it is to do.               *)
THEOREM SuccessMeansComplete == Spec => SuccessIsComplete
  <1>1. ASSUME Inv, SuccessInv, [Next]_vars, NEW w \in Runs, Ends(w, {"ok"})
        PROVE  /\ \A u \in Users : users'[u] = "seed"
               /\ \A room \in Rooms : room \in rooms' /\ hours'[room] # Closed
               /\ OwnHours' =>
                      \E s \in held' : /\ s.room = Board
                                      /\ s.startAt = run[w].tomorrow * DayMinutes + Target
    <2>1. Step(w) \/ Fails(w)
      <3>1. PICK v \in Runs : (Step(v) \/ Fails(v)) /\ Moves(v)
        BY <1>1, WhoMoves DEF Ends, Ended
      <3>2. v = w
        BY <1>1, <3>1 DEF Moves, Inv, TypeOK, Ends, Ended
      <3> QED BY <3>1, <3>2
    <2>2. \/ ListSlots(w) /\ Targets(run[w].tomorrow) \subseteq held
          \/ InsertBooking(w)
      BY <1>1, <2>1, HowStepsEnd DEF Ends, Ended
    <2>3. PICK x : x = run[w] /\ Fulfilled(x)
      BY <1>1 DEF SuccessInv
    <2>4. x \in Looking \cup Booking
      BY <1>1, <2>2, <2>3, RunShape DEF ListSlots, InsertBooking, At, Inv
    <2>5. UNCHANGED <<users, rooms, hours, slots>>
      BY <2>2 DEF ListSlots, InsertBooking, tables
    <2>6. /\ \A u \in Users : users'[u] = "seed"
          /\ \A room \in Rooms : room \in rooms' /\ hours'[room] # Closed
      BY <2>3, <2>4, <2>5, Kinds DEF Fulfilled, Achieved, Behind
    <2>7. CASE ListSlots(w) /\ Targets(x.tomorrow) \subseteq held
      <3>1. OwnHours' => \E s \in slots : IsTarget(s, x.tomorrow)
        BY <2>3, <2>4, <2>5 DEF Fulfilled, Ready, OwnHours, HasTarget
      <3>2. held' = held
        BY <2>7 DEF ListSlots, tables
      <3> QED BY <2>3, <2>6, <2>7, <3>1, <3>2 DEF Targets, IsTarget
    <2>8. CASE InsertBooking(w)
      <3>1. x \in Booking
        BY <1>1, <2>3, <2>8, RunShape DEF InsertBooking, At, Inv
      <3>2. IsTarget(x.slot, x.tomorrow) /\ x.slot \in held'
        BY <2>3, <2>8, <3>1 DEF Fulfilled, Aimed, InsertBooking
      <3> QED BY <2>3, <2>6, <3>2 DEF IsTarget
    <2> QED BY <2>2, <2>3, <2>7, <2>8
  <1>2. Inv /\ SuccessInv /\ [Next]_vars =>
            [\A w \in Runs : Ends(w, {"ok"}) =>
               /\ \A u \in Users : users'[u] = "seed"
               /\ \A room \in Rooms : room \in rooms' /\ hours'[room] # Closed
               /\ hours'[Board] = HoursOf[Board] /\ GenerationDays >= MaxDay + 2 =>
                     \E s \in held' : /\ s.room = Board
                                     /\ s.startAt = run[w].tomorrow * DayMinutes + Target]_vars
    BY <1>1 DEF OwnHours
  <1> QED BY <1>2, TypeCorrect, RunsDeliver, PTL DEF Spec, SuccessIsComplete

=============================================================================
