------------------------------ MODULE Bookings ------------------------------
(***************************************************************************)
(* internal/booking: the handlers Create and Cancel, the service under     *)
(* them and the SQL statements of its repository, run concurrently by any  *)
(* number of HTTP requests against one table, with the conference service  *)
(* as a second store that no transaction spans.                            *)
(*                                                                         *)
(* A step is one call that leaves the process (a statement or a conference *)
(* call) with the local code up to the next one.  Every request is its own *)
(* goroutine.  A booking and its conference link carry fresh UUIDs, so the *)
(* request that makes them stands for both names.                          *)
(***************************************************************************)
EXTENDS Integers

CONSTANTS
    Users,          \* the user ids that tokens carry
    Admins,         \* those whose token carries the role admin
    Slots,          \* the ids of the slots that ever exist
    StartAt,        \* slots.start_at
    Requests,       \* the HTTP calls, and the booking ids they generate
    MaxTime,        \* bound on the clock
    MaxCrashes,     \* bound on the exits of the process
    FailDelete      \* whether the conference service may refuse a deletion

ASSUME ConstantsAssumption ==
    /\ Admins \subseteq Users
    /\ StartAt \in [Slots -> Nat]
    /\ MaxTime \in Nat
    /\ MaxCrashes \in Nat
    /\ FailDelete \in BOOLEAN

(* Slot ids are UUIDs: none is a mark that SlotReservation gives bookings. *)
ASSUME SlotsAssumption == {"fresh", "released"} \cap Slots = {}

VARIABLES
    now,        \* the clock, shared by the service and PostgreSQL
    slots,      \* table slots: the ids of its rows
    bookings,   \* table bookings: one row or NoBooking per id
    links,      \* the links alive at the conference service
    req,        \* what each request asks for
    pc,         \* the call each request makes next
    result,     \* its answer, or the error it is cleaning up after
    inflight,   \* requests whose abandoned statement may still be executed
    crashes     \* how often the process has died

vars == <<now, slots, bookings, links, req, pc, result, inflight, crashes>>

NoBooking == [status |-> "none"]
NoRequest == [op |-> "none"]

Row == [slotId : Slots, userId : Users, status : {"active", "cancelled"},
        link : BOOLEAN, createdAt : Nat, updatedAt : Nat]

CreateRequest == [op : {"create"}, user : Users, slot : Slots, link : BOOLEAN]
CancelRequest == [op : {"cancel"}, user : Users, target : Requests]

AtService == {"getSlot", "createLink", "insert", "deleteLink", "getBooking", "update"}
Control   == AtService \cup {"idle", "done", "lost"}

(* The answers of the two handlers, by the domain error behind the status. *)
Refusals == {"Forbidden", "SlotNotFound", "SlotInThePast",
             "ConferenceUnavailable", "SlotAlreadyBooked",
             "BookingNotFound", "NotBookingOwner"}
Results  == Refusals \cup {"none", "Created", "Cancelled", "Internal"}

TypeOK ==
    /\ now \in Nat
    /\ slots \subseteq Slots
    /\ bookings \in [Requests -> Row \cup {NoBooking}]
    /\ links \subseteq Requests
    /\ req \in [Requests -> CreateRequest \cup CancelRequest \cup {NoRequest}]
    /\ pc \in [Requests -> Control]
    /\ result \in [Requests -> Results]
    /\ inflight \subseteq Requests
    /\ crashes \in Nat

Init ==
    /\ now = 0
    /\ slots = {}
    /\ bookings = [r \in Requests |-> NoBooking]
    /\ links = {}
    /\ req = [r \in Requests |-> NoRequest]
    /\ pc = [r \in Requests |-> "idle"]
    /\ result = [r \in Requests |-> "none"]
    /\ inflight = {}
    /\ crashes = 0

-----------------------------------------------------------------------------
(* Control flow of one request.                                            *)

Proceed(r, next) ==
    /\ pc' = [pc EXCEPT ![r] = next]
    /\ UNCHANGED result

Answer(r, res) ==
    /\ pc' = [pc EXCEPT ![r] = "done"]
    /\ result' = [result EXCEPT ![r] = res]

(* Service.Create after a failed insert: delete the link if one was made.  *)
FailCreate(r, err) ==
    /\ pc' = [pc EXCEPT ![r] = IF req[r].link THEN "deleteLink" ELSE "done"]
    /\ result' = [result EXCEPT ![r] = err]

-----------------------------------------------------------------------------
(* The statements of the repository, as the database executes them.        *)

(* The rows the partial unique index idx_bookings_slot_active holds for s. *)
ActiveOn(s) ==
    {b \in Requests : bookings[b].status = "active" /\ bookings[b].slotId = s}

InsertOutcomeWithoutIndex(s) ==                                  \* defect
    IF s \notin slots THEN "SlotNotFound" ELSE "Created"

InsertOutcome(s) ==
    IF ActiveOn(s) # {} THEN "SlotAlreadyBooked"
    ELSE IF s \notin slots THEN "SlotNotFound"
    ELSE "Created"

InsertRow(r) ==
    bookings' = [bookings EXCEPT ![r] =
        [slotId |-> req[r].slot, userId |-> req[r].user, status |-> "active",
         link |-> req[r].link, createdAt |-> now, updatedAt |-> now]]

CancelRowDeleting(b) ==                                          \* defect
    bookings' = [bookings EXCEPT ![b] = NoBooking]

CancelRowToggling(b) ==                                          \* defect
    bookings' = [bookings EXCEPT ![b] =
        [@ EXCEPT !.status = IF @ = "active" THEN "cancelled" ELSE "active"]]

CancelRowMisspelt(b) ==                                          \* defect
    bookings' = [bookings EXCEPT ![b].status = "canceled"]

CancelRow(b) ==
    bookings' = [bookings EXCEPT ![b] =
        [@ EXCEPT !.status = "cancelled", !.updatedAt = now]]

-----------------------------------------------------------------------------
(* POST /bookings/create                                                   *)

CreateHandler(r, u, s, link) ==
    /\ pc[r] = "idle"
    /\ req' = [req EXCEPT ![r] =
                  [op |-> "create", user |-> u, slot |-> s, link |-> link]]
    /\ IF u \in Admins THEN Answer(r, "Forbidden") ELSE Proceed(r, "getSlot")
    /\ UNCHANGED <<now, slots, bookings, links, inflight, crashes>>

(* slotRepo.GetByID, then the comparison with the clock.                   *)
GetSlot(r) ==
    LET s == req[r].slot IN
    /\ pc[r] = "getSlot"
    /\ \/ s \notin slots /\ Answer(r, "SlotNotFound")
       \/ s \in slots /\ StartAt[s] < now /\ Answer(r, "SlotInThePast")
       \/ s \in slots /\ StartAt[s] >= now
          /\ Proceed(r, IF req[r].link THEN "createLink" ELSE "insert")
       \/ Answer(r, "Internal")
    /\ UNCHANGED <<now, slots, bookings, links, req, inflight, crashes>>

CreateLink(r) ==
    /\ pc[r] = "createLink"
    /\ \/ links' = links \cup {r} /\ Proceed(r, "insert")
       \/ \E err \in {"ConferenceUnavailable", "Internal"} :
              UNCHANGED links /\ Answer(r, err)
    /\ UNCHANGED <<now, slots, bookings, req, inflight, crashes>>

InsertWithDeferredCleanup(r) ==                                  \* defect
    LET outcome == InsertOutcome(req[r].slot) IN
    /\ pc[r] = "insert"
    /\ IF outcome = "Created" THEN InsertRow(r) ELSE UNCHANGED bookings
    /\ FailCreate(r, outcome)
    /\ UNCHANGED <<now, slots, links, req, inflight, crashes>>

InsertRetryingConflicts(r) ==                                    \* defect
    /\ pc[r] = "insert"
    /\ InsertOutcome(req[r].slot) = "Created" /\ InsertRow(r) /\ Answer(r, "Created")
    /\ UNCHANGED <<now, slots, links, req, inflight, crashes>>

(* bookingRepo.Create when the database's answer arrives.                  *)
Insert(r) ==
    LET outcome == InsertOutcome(req[r].slot) IN
    /\ pc[r] = "insert"
    /\ \/ outcome = "Created" /\ InsertRow(r) /\ Answer(r, "Created")
       \/ outcome # "Created" /\ UNCHANGED bookings /\ FailCreate(r, outcome)
    /\ UNCHANGED <<now, slots, links, req, inflight, crashes>>

InsertAbandonedAsConflict(r) ==                                  \* defect
    /\ pc[r] = "insert"
    /\ inflight' = inflight \cup {r}
    /\ FailCreate(r, "SlotAlreadyBooked")
    /\ UNCHANGED <<now, slots, bookings, links, req, crashes>>

(* bookingRepo.Create when it does not: deadline, cancelled context, lost  *)
(* connection.  The statement may have run, may run later or never.        *)
InsertAbandoned(r) ==
    /\ pc[r] = "insert"
    /\ inflight' = inflight \cup {r}
    /\ FailCreate(r, "Internal")
    /\ UNCHANGED <<now, slots, bookings, links, req, crashes>>

DeleteLinkKeepingError(r) ==                                     \* defect
    /\ pc[r] = "deleteLink"
    /\ \/ links' = links \ {r}
       \/ FailDelete /\ UNCHANGED links
    /\ Proceed(r, "done")
    /\ UNCHANGED <<now, slots, bookings, req, inflight, crashes>>

DeleteLink(r) ==
    /\ pc[r] = "deleteLink"
    /\ \/ links' = links \ {r} /\ Proceed(r, "done")
       \/ FailDelete /\ UNCHANGED links /\ Answer(r, "Internal")
    /\ UNCHANGED <<now, slots, bookings, req, inflight, crashes>>

-----------------------------------------------------------------------------
(* POST /bookings/{bookingID}/cancel                                       *)

CancelHandler(r, u, b) ==
    /\ pc[r] = "idle"
    /\ req' = [req EXCEPT ![r] = [op |-> "cancel", user |-> u, target |-> b]]
    /\ IF u \in Admins THEN Answer(r, "Forbidden") ELSE Proceed(r, "getBooking")
    /\ UNCHANGED <<now, slots, bookings, links, inflight, crashes>>

GetBookingOfAnyone(r) ==                                         \* defect
    LET booking == bookings[req[r].target] IN
    /\ pc[r] = "getBooking"
    /\ \/ booking = NoBooking /\ Answer(r, "BookingNotFound")
       \/ booking # NoBooking /\ booking.status = "cancelled" /\ Answer(r, "Cancelled")
       \/ booking # NoBooking /\ booking.status # "cancelled" /\ Proceed(r, "update")
       \/ Answer(r, "Internal")
    /\ UNCHANGED <<now, slots, bookings, links, req, inflight, crashes>>

(* bookingRepo.GetByID and the checks on the row it returned.              *)
GetBooking(r) ==
    LET booking == bookings[req[r].target]
        owned   == booking # NoBooking /\ booking.userId = req[r].user
    IN
    /\ pc[r] = "getBooking"
    /\ \/ booking = NoBooking /\ Answer(r, "BookingNotFound")
       \/ booking # NoBooking /\ ~owned /\ Answer(r, "NotBookingOwner")
       \/ owned /\ booking.status = "cancelled" /\ Answer(r, "Cancelled")
       \/ owned /\ booking.status # "cancelled" /\ Proceed(r, "update")
       \/ Answer(r, "Internal")
    /\ UNCHANGED <<now, slots, bookings, links, req, inflight, crashes>>

(* bookingRepo.Cancel: the UPDATE names the id and nothing else.           *)
Update(r) ==
    /\ pc[r] = "update"
    /\ CancelRow(req[r].target)
    /\ Answer(r, "Cancelled")
    /\ UNCHANGED <<now, slots, links, req, inflight, crashes>>

UpdateAbandonedAsDone(r) ==                                      \* defect
    /\ pc[r] = "update"
    /\ inflight' = inflight \cup {r}
    /\ Answer(r, "Cancelled")
    /\ UNCHANGED <<now, slots, bookings, links, req, crashes>>

UpdateAbandoned(r) ==
    /\ pc[r] = "update"
    /\ inflight' = inflight \cup {r}
    /\ Answer(r, "Internal")
    /\ UNCHANGED <<now, slots, bookings, links, req, crashes>>

-----------------------------------------------------------------------------
(* The surroundings: late statements, crashes, new slots, time.            *)

(* The server executes a statement whose client is gone.                   *)
ApplyLate(r) ==
    /\ r \in inflight
    /\ inflight' = inflight \ {r}
    /\ \/ /\ req[r].op = "create"
          /\ IF InsertOutcome(req[r].slot) = "Created"
             THEN InsertRow(r) ELSE UNCHANGED bookings
       \/ req[r].op = "cancel" /\ CancelRow(req[r].target)
    /\ UNCHANGED <<now, slots, links, req, pc, result, crashes>>

DropLate(r) ==
    /\ r \in inflight
    /\ inflight' = inflight \ {r}
    /\ UNCHANGED <<now, slots, bookings, links, req, pc, result, crashes>>

(* The process dies, and a new one serves the requests not made yet.       *)
Crash ==
    /\ crashes < MaxCrashes
    /\ \E r \in Requests : pc[r] \in AtService
    /\ crashes' = crashes + 1
    /\ pc' = [r \in Requests |-> IF pc[r] \in AtService THEN "lost" ELSE pc[r]]
    /\ inflight' = inflight \cup {r \in Requests : pc[r] \in {"insert", "update"}}
    /\ UNCHANGED <<now, slots, bookings, links, req, result>>

(* The slot generator commits a row.                                       *)
SlotAppears(s) ==
    /\ s \notin slots
    /\ slots' = slots \cup {s}
    /\ UNCHANGED <<now, bookings, links, req, pc, result, inflight, crashes>>

Tick ==
    /\ \E t \in now + 1 .. MaxTime : now' = t
    /\ UNCHANGED <<slots, bookings, links, req, pc, result, inflight, crashes>>

(* Every bounded input is used up.                                         *)
Quiescent ==
    /\ \A r \in Requests : pc[r] \in {"done", "lost"}
    /\ inflight = {}
    /\ UNCHANGED vars

-----------------------------------------------------------------------------
(* The calls that a request's goroutine makes and gets an answer to.       *)
Handle(r) ==
    \/ GetSlot(r) \/ CreateLink(r) \/ Insert(r) \/ DeleteLink(r)
    \/ GetBooking(r) \/ Update(r)

Next ==
    \/ \E r \in Requests :
          \/ \E u \in Users, s \in Slots, link \in BOOLEAN : CreateHandler(r, u, s, link)
          \/ \E u \in Users, b \in Requests : CancelHandler(r, u, b)
          \/ Handle(r)
          \/ InsertAbandoned(r)
          \/ UpdateAbandoned(r)
          \/ ApplyLate(r)
          \/ DropLate(r)
    \/ Crash
    \/ \E s \in Slots : SlotAppears(s)
    \/ Tick
    \/ Quiescent

Spec == Init /\ [][Next]_vars

(* A goroutine is never blocked by another one: no lock is taken, and every *)
(* call returns within its deadline.                                       *)
Fairness ==
    \A r \in Requests : WF_vars(Handle(r)) /\ WF_vars(ApplyLate(r) \/ DropLate(r))

FairSpec == Spec /\ Fairness
-----------------------------------------------------------------------------
(* Properties.                                                             *)

Stored(b)  == bookings[b] # NoBooking
Asked(r)   == req[r].op
Finished(r) == pc[r] = "done"

(* idx_bookings_slot_active: two bookings never hold one slot, however the *)
(* inserts, the late inserts and the cancellations of it interleave.       *)
OneActivePerSlot ==
    \A b, c \in Requests :
        /\ bookings[b].status = "active" /\ bookings[c].status = "active"
        /\ bookings[b].slotId = bookings[c].slotId
        => b = c

(* A create answered with a definite error (any status but 500) has booked *)
(* nothing and never will: no statement of it is still on its way.         *)
RejectionIsFinal ==
    \A r \in Requests :
        Asked(r) = "create" /\ Finished(r) /\ result[r] \in Refusals
        => ~Stored(r) /\ r \notin inflight

(* A create answered 201 left the row it was asked for, for its caller and *)
(* its slot, and the conference link in that row exists.                   *)
CreatedIsDurable ==
    \A r \in Requests : result[r] = "Created" =>
        /\ Stored(r)
        /\ bookings[r].userId = req[r].user
        /\ bookings[r].slotId = req[r].slot
        /\ bookings[r].link = req[r].link
        /\ req[r].link => r \in links

(* Service.Create 92-96: a conference link outlives its failed booking     *)
(* only if the process died over it or the caller was told 500 because the *)
(* conference service refused the deletion.                                *)
NoSilentLeak ==
    \A r \in links :
        \/ Stored(r)
        \/ pc[r] \in {"insert", "deleteLink", "lost"}
        \/ FailDelete /\ Finished(r) /\ result[r] = "Internal"

(* A cancel answered 200 was the owner's, and the row is cancelled, also   *)
(* when another cancel or a late statement came between read and update.   *)
CancelledReplyIsTrue ==
    \A r \in Requests : result[r] = "Cancelled" =>
        LET booking == bookings[req[r].target] IN
        booking # NoBooking /\ booking.status = "cancelled" /\ booking.userId = req[r].user

(* Service.Cancel 131-144 checks the owner on a row it read earlier, and   *)
(* the UPDATE checks nothing: still a booking only stops being active by   *)
(* the step of a cancel request of its owner.                              *)
OnlyOwnerCancels ==
    [][\A b \in Requests :
         bookings[b].status = "active" /\ bookings'[b].status # "active"
         => \E r \in Requests :
               /\ req[r].op = "cancel" /\ req[r].target = b
               /\ req[r].user = bookings[b].userId
               /\ pc[r] = "update" \/ r \in inflight]_vars

(* Rows are never deleted, keep slot, user, link and creation time, and a  *)
(* cancelled booking stays cancelled.                                      *)
RowsOnlyGetCancelled ==
    [][\A b \in Requests : Stored(b) =>
         /\ bookings'[b] # NoBooking
         /\ \A f \in {"slotId", "userId", "link", "createdAt"} :
                bookings'[b][f] = bookings[b][f]
         /\ bookings[b].status = "cancelled" => bookings'[b].status = "cancelled"]_vars

(* What the table amounts to in terms of SlotReservation.                  *)
Holds == [b \in Requests |->
            CASE bookings[b].status = "none"      -> "fresh"
              [] bookings[b].status = "cancelled" -> "released"
              [] OTHER                            -> bookings[b].slotId]

Reservation == INSTANCE SlotReservation WITH BookingIds <- Requests, holds <- Holds

(* Handlers, service and statements together implement the reservation of  *)
(* slots: nothing in between shows, and no step does two things to a slot. *)
ImplementsReservation == Reservation!Spec

(* A request taken up gets an answer unless the process dies under it: no  *)
(* request waits for another one or retries for ever.                      *)
EveryRequestAnswered ==
    \A r \in Requests : pc[r] \in AtService ~> pc[r] \in {"done", "lost"}

-----------------------------------------------------------------------------
(* A statement of the documentation that the code does not keep.           *)

(* README.md:208 deletes the link when the row could not be stored.  Read  *)
(* the other way round: the link of a row that was stored is alive.        *)
StoredLinkIsAlive ==
    \A b \in Requests : Stored(b) /\ bookings[b].link => b \in links
=============================================================================
