------------------------- MODULE SlotBuilderProofs -------------------------
(***************************************************************************)
(* Theorems about SlotBuilder, for any schedule and any range of days: the *)
(* loop of Build, which steps through a day, cuts it as the definition     *)
(* says that the other proofs use, and the calendar arithmetic is right.   *)
(***************************************************************************)
EXTENDS SlotHorizon, WellFoundedInduction, TLAPS

-----------------------------------------------------------------------------
(* The loop.                                                               *)

(* The half hours from t on that end by end.                               *)
HalfHours(t, end) ==
    {Slot(t + k * SlotMinutes) : k \in {k \in Nat : t + (k + 1) * SlotMinutes <= end}}

(* The first half hour, if it fits, and those after it.                    *)
LEMMA HalfHoursStep ==
    ASSUME NEW t \in Int, NEW end \in Int
    PROVE  HalfHours(t, end) = IF t < end /\ t + SlotMinutes <= end
                               THEN {Slot(t)} \cup HalfHours(t + SlotMinutes, end) ELSE {}
  <1> USE DEF SlotMinutes
  <1>1. CASE ~(t + 30 <= end)
    <2>1. \A k \in Nat : ~(t + (k + 1) * 30 <= end)
      BY <1>1
    <2> QED BY <1>1, <2>1 DEF HalfHours
  <1>2. CASE t + 30 <= end
    <2>1. ASSUME NEW s \in HalfHours(t, end)
          PROVE  s = Slot(t) \/ s \in HalfHours(t + 30, end)
      <3>1. PICK k \in Nat : t + (k + 1) * 30 <= end /\ s = Slot(t + k * 30)
        BY <2>1 DEF HalfHours
      <3>2. CASE k = 0
        BY <3>1, <3>2
      <3>3. CASE k # 0
        <4>1. /\ k - 1 \in Nat /\ (t + 30) + ((k - 1) + 1) * 30 <= end
              /\ t + k * 30 = (t + 30) + (k - 1) * 30
          BY <3>1, <3>3
        <4>2. s = Slot((t + 30) + (k - 1) * 30)
          BY <3>1, <4>1
        <4> QED BY <4>1, <4>2 DEF HalfHours
      <3> QED BY <3>2, <3>3
    <2>2. Slot(t) \in HalfHours(t, end)
      <3>1. 0 \in Nat /\ t + (0 + 1) * 30 <= end /\ t + 0 * 30 = t
        BY <1>2
      <3>2. Slot(t) = Slot(t + 0 * 30)
        BY <3>1
      <3> QED BY <3>1, <3>2 DEF HalfHours
    <2>3. ASSUME NEW s \in HalfHours(t + 30, end)
          PROVE  s \in HalfHours(t, end)
      <3>1. PICK k \in Nat : (t + 30) + (k + 1) * 30 <= end /\ s = Slot((t + 30) + k * 30)
        BY <2>3 DEF HalfHours
      <3>2. /\ k + 1 \in Nat /\ t + ((k + 1) + 1) * 30 <= end
            /\ (t + 30) + k * 30 = t + (k + 1) * 30
        BY <3>1
      <3>3. s = Slot(t + (k + 1) * 30)
        BY <3>1, <3>2
      <3> QED BY <3>2, <3>3 DEF HalfHours
    <2>4. t < end
      BY <1>2
    <2> QED BY <1>2, <2>1, <2>2, <2>3, <2>4
  <1> QED BY <1>1, <1>2

(* Build's inner loop makes these half hours.  The recursion of Cut has a  *)
(* solution, the half hours themselves, and no other: of two solutions     *)
(* that differ, take the last place where they do.                         *)
LEMMA CutIsHalfHours ==
    ASSUME NEW start \in Int, NEW end \in Int, start <= end
    PROVE  Cut(start, end) = HalfHours(start, end)
  <1> DEFINE cut[t \in start .. end] ==
                 IF t < end /\ t + SlotMinutes <= end
                 THEN {Slot(t)} \cup cut[t + SlotMinutes] ELSE {}
             solution == [t \in start .. end |-> HalfHours(t, end)]
  <1>1. solution = [t \in start .. end |->
                       IF t < end /\ t + SlotMinutes <= end
                       THEN {Slot(t)} \cup solution[t + SlotMinutes] ELSE {}]
    <2>1. ASSUME NEW t \in start .. end
          PROVE  HalfHours(t, end) = IF t < end /\ t + SlotMinutes <= end
                       THEN {Slot(t)} \cup solution[t + SlotMinutes] ELSE {}
      <3>1. t + SlotMinutes <= end => t + SlotMinutes \in start .. end
        BY DEF SlotMinutes
      <3>2. t + SlotMinutes <= end => solution[t + SlotMinutes] = HalfHours(t + SlotMinutes, end)
        BY <3>1
      <3> QED BY <3>2, HalfHoursStep
    <2> QED BY <2>1, Zenon
  <1>2. cut = [t \in start .. end |->
                  IF t < end /\ t + SlotMinutes <= end
                  THEN {Slot(t)} \cup cut[t + SlotMinutes] ELSE {}]
    <2> HIDE DEF solution
    <2> QED BY <1>1, Zenon
  <1>3. Cut(start, end) = cut[start]
    BY DEF Cut
  <1> HIDE DEF cut
  <1>4. ASSUME NEW t \in start .. end
        PROVE  cut[t] = IF t < end /\ t + SlotMinutes <= end
                        THEN {Slot(t)} \cup cut[t + SlotMinutes] ELSE {}
    BY <1>2, Zenon
  <1> DEFINE wrong == {n \in Nat : end - n \in start .. end /\ cut[end - n] # HalfHours(end - n, end)}
  <1>5. wrong = {}
    <2> SUFFICES ASSUME wrong # {} PROVE FALSE
      OBVIOUS
    <2>1. PICK n \in wrong : \A m \in wrong : ~(<<m, n>> \in OpToRel(<, Nat))
      <3>1. wrong \subseteq Nat
        OBVIOUS
      <3> HIDE DEF wrong
      <3> QED BY <3>1, NatLessThanWellFounded, WFMin
    <2> DEFINE t == end - n
    <2>2. t \in start .. end /\ cut[t] # HalfHours(t, end) /\ n \in Nat
      BY <2>1
    <2>3. CASE t < end /\ t + SlotMinutes <= end
      <3>1. n - 30 \in Nat /\ n - 30 < n /\ end - (n - 30) = t + SlotMinutes
            /\ t + SlotMinutes \in start .. end
        BY <2>2, <2>3 DEF SlotMinutes
      <3>2. n - 30 \notin wrong
        <4>1. <<n - 30, n>> \in OpToRel(<, Nat)
          BY <3>1, <2>2 DEF OpToRel
        <4> QED BY <2>1, <4>1
      <3>3. cut[t + SlotMinutes] = HalfHours(t + SlotMinutes, end)
        BY <3>1, <3>2
      <3>4. cut[t] = {Slot(t)} \cup HalfHours(t + SlotMinutes, end)
        BY <1>4, <2>2, <2>3, <3>3
      <3>5. HalfHours(t, end) = {Slot(t)} \cup HalfHours(t + SlotMinutes, end)
        BY <2>2, <2>3, HalfHoursStep
      <3> QED BY <2>2, <3>4, <3>5
    <2>4. CASE ~(t < end /\ t + SlotMinutes <= end)
      <3>1. cut[t] = {}
        BY <1>4, <2>2, <2>4
      <3>2. HalfHours(t, end) = {}
        BY <2>2, <2>4, HalfHoursStep
      <3> QED BY <2>2, <3>1, <3>2
    <2> QED BY <2>3, <2>4
  <1>6. end - start \in Nat /\ end - (end - start) = start /\ start \in start .. end
    OBVIOUS
  <1>7. cut[start] = HalfHours(start, end)
    BY <1>5, <1>6
  <1> QED BY <1>3, <1>7

-----------------------------------------------------------------------------
(* The schedules and days of SlotHorizon.                                  *)

Hours == [days : SUBSET (1 .. 7), start : 0 .. DayMinutes - 1, end : 0 .. DayMinutes - 1]

Inv ==
    /\ sch \in Hours /\ sch.start + SlotMinutes <= sch.end
    /\ from \in Nat

LEMMA HoursAreNumbers ==
    ASSUME NEW s \in Hours
    PROVE  /\ s.start \in Nat /\ s.start < 1440
           /\ s.end \in Nat /\ s.end < 1440
  <1>1. s.start \in 0 .. DayMinutes - 1 /\ s.end \in 0 .. DayMinutes - 1
    BY DEF Hours
  <1>2. \A minute \in 0 .. DayMinutes - 1 : minute \in Nat /\ minute < 1440
    BY DEF DayMinutes
  <1> QED BY <1>1, <1>2

LEMMA Invariance == Spec => []Inv
  <1>1. Init => Inv
    <2> SUFFICES ASSUME Init PROVE Inv
      OBVIOUS
    <2>1. sch \in Hours /\ sch.end - sch.start >= SlotMinutes /\ from = 0
      BY ConstantsAssumption DEF Init, Hours
    <2>2. sch.start \in Int /\ sch.end \in Int
      BY <2>1, HoursAreNumbers
    <2> QED BY <2>1, <2>2 DEF Inv, SlotMinutes
  <1>2. Inv /\ [NextDay]_<<sch, from>> => Inv'
    BY DEF Inv, NextDay
  <1> QED BY <1>1, <1>2, PTL DEF Spec

(* A day is over before the half hours of its schedule could reach the     *)
(* next one, so that none is missing from DaySlots.                        *)
LEMMA DayIsHalfHours ==
    ASSUME NEW s \in Hours, NEW day \in Int
    PROVE  DaySlots(s, day) = HalfHours(day * DayMinutes + s.start, day * DayMinutes + s.end)
  <1> DEFINE base == day * DayMinutes
  <1>1. /\ s.start \in Int /\ s.end \in Int /\ base \in Int
        /\ 0 <= s.start /\ s.end < 1440
    BY HoursAreNumbers DEF DayMinutes
  <1> HIDE DEF base
  <1>2. \A k \in Nat : (base + s.start) + (k + 1) * 30 <= base + s.end
                        <=> s.start + (k + 1) * 30 <= s.end
    BY <1>1
  <1>3. \A k \in Nat : s.start + (k + 1) * 30 <= s.end => k \in 0 .. 48 - 1
    BY <1>1
  <1>4. SlotsPerDay = 48
    BY DEF SlotsPerDay, DayMinutes, SlotMinutes
  <1>5. DaySlots(s, day) = {Slot(base + s.start + k * 30) :
                               k \in {k \in 0 .. 48 - 1 : s.start + (k + 1) * 30 <= s.end}}
    BY <1>4 DEF DaySlots, SlotMinutes, base
  <1>6. {k \in 0 .. 48 - 1 : s.start + (k + 1) * 30 <= s.end}
        = {k \in Nat : (base + s.start) + (k + 1) * 30 <= base + s.end}
    BY <1>2, <1>3
  <1> QED BY <1>5, <1>6 DEF HalfHours, SlotMinutes, base

(* A slot lies within its day.                                             *)
LEMMA SlotIsOfItsDay ==
    ASSUME NEW s \in Hours, NEW day \in Int, NEW x \in DaySlots(s, day)
    PROVE  \E k \in 0 .. 47 :
              /\ s.start + (k + 1) * 30 <= s.end
              /\ x = Slot(day * 1440 + s.start + k * 30)
              /\ x.startAt = day * 1440 + s.start + k * 30
              /\ day * 1440 <= x.startAt /\ x.startAt < (day + 1) * 1440
  <1>1. SlotsPerDay = 48
    BY DEF SlotsPerDay, DayMinutes, SlotMinutes
  <1>2. PICK k \in 0 .. 47 : s.start + (k + 1) * 30 <= s.end
                            /\ x = Slot(day * 1440 + s.start + k * 30)
    BY <1>1 DEF DaySlots, SlotMinutes, DayMinutes
  <1>3. s.start \in Int /\ s.end \in Int /\ 0 <= s.start /\ s.end < 1440
    BY HoursAreNumbers
  <1>4. x.startAt = day * 1440 + s.start + k * 30
    BY <1>2 DEF Slot
  <1>5. day * 1440 <= x.startAt /\ x.startAt < (day + 1) * 1440
    BY <1>2, <1>3, <1>4
  <1> QED BY <1>2, <1>4, <1>5

LEMMA BuildIs ==
    ASSUME NEW s, NEW first \in Int, NEW end \in Int, NEW x
    PROVE  x \in Build(s, first, end) <=>
              \E day \in first .. end - 1 : Weekday(day) \in s.days /\ x \in DaySlots(s, day)
  BY Zenon DEF Build

-----------------------------------------------------------------------------
(* The theorems.                                                           *)

(* The loop of Build cuts a day into the slots that DaySlots defines.      *)
THEOREM TheLoopIsRight == Spec => []LoopMeetsDefinition
  <1>1. Inv => LoopMeetsDefinition
    <2> SUFFICES ASSUME Inv PROVE LoopMeetsDefinition
      OBVIOUS
    <2> DEFINE start == from * DayMinutes + sch.start
               end   == from * DayMinutes + sch.end
    <2>1. start \in Int /\ end \in Int /\ start <= end
      <3>1. sch.start \in Nat /\ sch.end \in Nat
        BY HoursAreNumbers DEF Inv
      <3> QED BY <3>1 DEF Inv, DayMinutes, SlotMinutes
    <2>2. Cut(start, end) = HalfHours(start, end)
      <3> HIDE DEF start, end
      <3> QED BY <2>1, CutIsHalfHours
    <2>3. DaySlots(sch, from) = HalfHours(start, end)
      BY DayIsHalfHours DEF Inv
    <2> QED BY <2>2, <2>3 DEF LoopMeetsDefinition
  <1> QED BY <1>1, Invariance, PTL

(* Build makes exactly the slots that a reader of the schedule expects.    *)
THEOREM BuildIsRight == Spec => []BuildMeetsReference
  <1> DEFINE Fits(t) == LET minute  == t % DayMinutes
                            weekday == ((t \div DayMinutes + 6) % 7) + 1
                        IN  /\ weekday \in sch.days
                            /\ minute >= sch.start /\ minute + SlotMinutes <= sch.end
                            /\ (minute - sch.start) % SlotMinutes = 0
             range == from * DayMinutes .. (from + Days) * DayMinutes - 1
  <1>1. ASSUME Inv, NEW x \in Horizon
        PROVE  \E t \in range : Fits(t) /\ x = Slot(t)
    <2>1. from \in Nat /\ Days \in Nat /\ sch \in Hours
      BY <1>1, ConstantsAssumption DEF Inv
    <2>2. PICK day \in from .. (from + Days) - 1 : Weekday(day) \in sch.days /\ x \in DaySlots(sch, day)
      BY <1>1, <2>1, BuildIs DEF Horizon
    <2>3. day \in Nat /\ from <= day /\ day + 1 <= from + Days
      BY <2>1, <2>2
    <2>4. PICK k \in 0 .. 47 :
              /\ sch.start + (k + 1) * 30 <= sch.end
              /\ x = Slot(day * 1440 + sch.start + k * 30)
              /\ day * 1440 <= day * 1440 + sch.start + k * 30
              /\ day * 1440 + sch.start + k * 30 < (day + 1) * 1440
      BY <2>1, <2>2, <2>3, SlotIsOfItsDay
    <2> DEFINE minute == sch.start + k * 30
               t      == day * 1440 + minute
    <2>5. sch.start \in Nat /\ sch.end \in Nat /\ sch.end < 1440
      BY <2>1, HoursAreNumbers
    <2>6. minute \in Nat /\ minute < 1440 /\ minute >= sch.start /\ minute + 30 <= sch.end
          /\ (minute - sch.start) % 30 = 0
      BY <2>4, <2>5
    <2> HIDE DEF minute
    <2>7. t % 1440 = minute /\ t \div 1440 = day
      BY <2>3, <2>6
    <2>8. ((day + 6) % 7) + 1 = Weekday(day)
      BY <2>3 DEF Weekday
    <2>9. t \in range
      BY <2>1, <2>3, <2>6 DEF DayMinutes
    <2>10. Fits(t)
      <3> HIDE DEF t
      <3> QED BY <2>2, <2>6, <2>7, <2>8 DEF DayMinutes, SlotMinutes
    <2>11. x = Slot(t)
      BY <2>3, <2>4, <2>5 DEF minute
    <2> HIDE DEF t, range, Fits
    <2> QED BY <2>9, <2>10, <2>11
  <1>2. ASSUME Inv, NEW t \in range, Fits(t)
        PROVE  Slot(t) \in Horizon
    <2> DEFINE minute == t % 1440
               day    == t \div 1440
               k      == (minute - sch.start) \div 30
    <2>1. from \in Nat /\ Days \in Nat /\ sch \in Hours
      BY <1>2, ConstantsAssumption DEF Inv
    <2>2. t \in Nat /\ from * 1440 <= t /\ t < (from + Days) * 1440
      BY <1>2, <2>1 DEF DayMinutes
    <2>3. minute \in Nat /\ minute < 1440 /\ day \in Nat /\ t = day * 1440 + minute
      BY <2>2
    <2>4. /\ ((day + 6) % 7) + 1 \in sch.days
          /\ minute >= sch.start /\ minute + 30 <= sch.end /\ (minute - sch.start) % 30 = 0
      BY <1>2 DEF DayMinutes, SlotMinutes
    <2> HIDE DEF minute, day
    <2>5. sch.start \in Nat /\ sch.end \in Nat /\ sch.end < 1440
      BY <2>1, HoursAreNumbers
    <2>6. k \in 0 .. 47 /\ minute = sch.start + k * 30
      <3> DEFINE rest == minute - sch.start
      <3>1. rest \in Nat /\ rest <= 1410 /\ rest % 30 = 0 /\ minute = sch.start + rest
        BY <2>3, <2>4, <2>5
      <3> HIDE DEF rest
      <3>2. rest \div 30 \in 0 .. 47 /\ rest = (rest \div 30) * 30
        BY <3>1
      <3> QED BY <3>1, <3>2 DEF rest
    <2> HIDE DEF k
    <2>7. day \in from .. (from + Days) - 1
      BY <2>1, <2>2, <2>3
    <2>8. Weekday(day) \in sch.days
      <3>1. ((day + 6) % 7) + 1 = Weekday(day)
        BY <2>3 DEF Weekday
      <3> QED BY <2>4, <3>1
    <2>9. Slot(t) \in DaySlots(sch, day)
      <3>1. SlotsPerDay = 48
        BY DEF SlotsPerDay, DayMinutes, SlotMinutes
      <3>2. t = day * 1440 + sch.start + k * 30 /\ sch.start + (k + 1) * 30 <= sch.end
        BY <2>3, <2>4, <2>5, <2>6
      <3> QED BY <2>6, <3>1, <3>2 DEF DaySlots, DayMinutes, SlotMinutes
    <2> QED BY <2>1, <2>7, <2>8, <2>9, BuildIs DEF Horizon
  <1>3. Inv => BuildMeetsReference
    <2> SUFFICES ASSUME Inv PROVE Horizon = {Slot(t) : t \in {t \in range : Fits(t)}}
      BY DEF BuildMeetsReference
    <2> HIDE DEF range, Fits
    <2> QED BY <1>1, <1>2
  <1> QED BY <1>3, Invariance, PTL

(* A day later only the slots of the first day are gone and only those of  *)
(* one day are new; what is generated again are the same slots.            *)
THEOREM TheHorizonMovesByADay == Spec => HorizonMovesByADay
  <1>1. ASSUME Inv, NextDay
        PROVE  /\ Horizon' \ Horizon = {s \in Horizon' : s.startAt >= (from + Days) * DayMinutes}
               /\ Horizon \ Horizon' = {s \in Horizon : s.startAt < (from + 1) * DayMinutes}
    <2>1. from \in Nat /\ Days \in Nat /\ sch \in Hours /\ from' = from + 1 /\ sch' = sch
      BY <1>1, ConstantsAssumption DEF Inv, NextDay
    <2>2. Horizon' = Build(sch, from + 1, (from + 1) + Days)
      BY <2>1 DEF Horizon
    <2> DEFINE Of(x, day) == Weekday(day) \in sch.days /\ x \in DaySlots(sch, day)
    <2>3. \A x : x \in Horizon <=> \E day \in from .. (from + Days) - 1 : Of(x, day)
      BY <2>1, BuildIs DEF Horizon
    <2>4. \A x : x \in Horizon' <=> \E day \in from + 1 .. ((from + 1) + Days) - 1 : Of(x, day)
      BY <2>1, <2>2, BuildIs
    <2>5. \A day \in Int : \A x : Of(x, day) => /\ x.startAt \in Int
                                             /\ day * 1440 <= x.startAt
                                             /\ x.startAt < (day + 1) * 1440
      <3> SUFFICES ASSUME NEW day \in Int, NEW x \in DaySlots(sch, day)
                   PROVE  /\ x.startAt \in Int /\ day * 1440 <= x.startAt
                          /\ x.startAt < (day + 1) * 1440
        OBVIOUS
      <3>1. PICK k \in 0 .. 47 : /\ x.startAt = day * 1440 + sch.start + k * 30
                                 /\ day * 1440 <= x.startAt /\ x.startAt < (day + 1) * 1440
        BY <2>1, SlotIsOfItsDay
      <3>2. sch.start \in Int
        BY <2>1, HoursAreNumbers
      <3> QED BY <3>1, <3>2
    <2> HIDE DEF Of
    <2>6. ASSUME NEW x \in Horizon'
          PROVE  x \notin Horizon <=> x.startAt >= (from + Days) * 1440
      <3>1. PICK day \in from + 1 .. ((from + 1) + Days) - 1 : Of(x, day)
        BY <2>4, <2>6
      <3>2. day \in Int /\ from < day /\ day <= from + Days
        BY <2>1, <3>1
      <3>3. x.startAt \in Int /\ day * 1440 <= x.startAt /\ x.startAt < (day + 1) * 1440
        BY <2>5, <3>1, <3>2
      <3>4. CASE day = from + Days
        <4>1. x \notin Horizon
          <5> SUFFICES ASSUME NEW e \in from .. (from + Days) - 1, Of(x, e) PROVE FALSE
            BY <2>3
          <5>1. e \in Int /\ e + 1 <= from + Days
            BY <2>1
          <5>2. x.startAt < (e + 1) * 1440
            BY <2>5, <5>1
          <5> QED BY <2>1, <3>2, <3>3, <3>4, <5>1, <5>2
        <4>2. x.startAt >= (from + Days) * 1440
          BY <3>3, <3>4
        <4> QED BY <4>1, <4>2
      <3>5. CASE day # from + Days
        <4>1. day \in from .. (from + Days) - 1 /\ day + 1 <= from + Days
          BY <2>1, <3>2, <3>5
        <4>2. x \in Horizon
          BY <2>3, <3>1, <4>1
        <4>3. ~(x.startAt >= (from + Days) * 1440)
          BY <2>1, <3>2, <3>3, <4>1
        <4> QED BY <4>2, <4>3
      <3> QED BY <3>4, <3>5
    <2>7. ASSUME NEW x \in Horizon
          PROVE  x \notin Horizon' <=> x.startAt < (from + 1) * 1440
      <3>1. PICK day \in from .. (from + Days) - 1 : Of(x, day)
        BY <2>3, <2>7
      <3>2. day \in Int /\ from <= day /\ day < from + Days
        BY <2>1, <3>1
      <3>3. x.startAt \in Int /\ day * 1440 <= x.startAt /\ x.startAt < (day + 1) * 1440
        BY <2>5, <3>1, <3>2
      <3>4. CASE day = from
        <4>1. x \notin Horizon'
          <5> SUFFICES ASSUME NEW e \in from + 1 .. ((from + 1) + Days) - 1, Of(x, e) PROVE FALSE
            BY <2>4
          <5>1. e \in Int /\ from + 1 <= e
            BY <2>1
          <5>2. e * 1440 <= x.startAt
            BY <2>5, <5>1
          <5> QED BY <2>1, <3>2, <3>3, <3>4, <5>1, <5>2
        <4> QED BY <3>3, <3>4, <4>1
      <3>5. CASE day # from
        <4>1. day \in from + 1 .. ((from + 1) + Days) - 1 /\ from + 1 <= day
          BY <2>1, <3>2, <3>5
        <4>2. x \in Horizon'
          BY <2>4, <3>1, <4>1
        <4>3. ~(x.startAt < (from + 1) * 1440)
          BY <2>1, <3>2, <3>3, <4>1
        <4> QED BY <4>2, <4>3
      <3> QED BY <3>4, <3>5
    <2> QED BY <2>6, <2>7 DEF DayMinutes
  <1> QED BY <1>1, Invariance, PTL DEF Spec, HorizonMovesByADay
=============================================================================
