--------------------------- MODULE BookingsProofs ---------------------------
(***************************************************************************)
(* Proofs about Bookings, for any number of users, slots and requests, any *)
(* start times, any number of crashes and a clock of any range.            *)
(*                                                                         *)
(* TypeOK is inductive.  The safety invariants follow from Inv below: what *)
(* the handler's position says about the table, the links and the late     *)
(* statements.                                                             *)
(***************************************************************************)
EXTENDS Bookings, TLAPS

-----------------------------------------------------------------------------
(* The inductive invariant.                                                *)

(* What a request asks for, and what it has been told, goes with where its *)
(* handler is.                                                             *)
ControlInv ==
    \A r \in Requests :
        /\ pc[r] = "idle" <=> req[r].op = "none"
        /\ pc[r] \in {"getSlot", "createLink", "insert", "deleteLink"} => req[r].op = "create"
        /\ pc[r] \in {"getBooking", "update"} => req[r].op = "cancel"
        /\ pc[r] \in {"idle", "getSlot", "createLink", "insert", "getBooking", "update"}
           => result[r] = "none"
        /\ pc[r] \in {"createLink", "deleteLink"} => req[r].link
        /\ result[r] = "Created" => pc[r] = "done" /\ req[r].op = "create"
        /\ result[r] = "Cancelled" => pc[r] = "done" /\ req[r].op = "cancel"

(* A row stems from the create request of its id; none is there while the  *)
(* request has not sent its INSERT, or its INSERT is still on its way, or  *)
(* it was refused.                                                         *)
RowInv ==
    \A r \in Requests : Stored(r) =>
        /\ req[r].op = "create"
        /\ bookings[r].userId = req[r].user
        /\ bookings[r].slotId = req[r].slot
        /\ bookings[r].link = req[r].link
        /\ bookings[r].status \in {"active", "cancelled"}
        /\ pc[r] \in {"deleteLink", "done", "lost"}
        /\ r \notin inflight
        /\ result[r] \notin Refusals

(* Only an INSERT or an UPDATE without an answer is on its way.            *)
LateInv ==
    \A r \in inflight :
        /\ req[r].op # "none"
        /\ pc[r] \in {"deleteLink", "done", "lost"}
        /\ result[r] \in {"none", "Internal"}

(* The link of a create that may still succeed is there.                   *)
LinkInv ==
    \A r \in Requests :
        /\ r \in links => pc[r] # "idle" /\ req[r].op = "create" /\ req[r].link
        /\ pc[r] = "insert" /\ req[r].link => r \in links
        /\ result[r] = "Created" => Stored(r) /\ (req[r].link => r \in links)

(* An UPDATE that is sent or may be executed late names a row of the       *)
(* caller.                                                                 *)
CancelInv ==
    \A r \in Requests :
        (req[r].op = "cancel" /\ (pc[r] = "update" \/ r \in inflight \/ result[r] = "Cancelled")) =>
            /\ Stored(req[r].target)
            /\ bookings[req[r].target].userId = req[r].user
            /\ result[r] = "Cancelled" => bookings[req[r].target].status = "cancelled"

Inv ==
    /\ TypeOK
    /\ ControlInv
    /\ RowInv
    /\ LateInv
    /\ LinkInv
    /\ CancelInv
    /\ OneActivePerSlot
    /\ NoSilentLeak
-----------------------------------------------------------------------------
(* Types.                                                                  *)

(* A row that the INSERT writes, and the row that the UPDATE leaves.       *)
LEMMA InsertRowType ==
    ASSUME TypeOK, NEW r \in Requests, req[r].op = "create", InsertRow(r)
    PROVE  bookings' \in [Requests -> Row \cup {NoBooking}]
  <1>1. req[r] \in CreateRequest
    BY DEF TypeOK, CreateRequest, CancelRequest, NoRequest
  <1> QED BY <1>1 DEF InsertRow, TypeOK, Row, CreateRequest

(* Cancelling leaves a booking a booking.                                  *)
LEMMA CancelRowType ==
    ASSUME TypeOK, NEW b \in Requests, Stored(b), CancelRow(b)
    PROVE  bookings' \in [Requests -> Row \cup {NoBooking}]
  <1>1. bookings[b] \in Row
    BY DEF TypeOK, Stored
  <1> QED BY <1>1 DEF CancelRow, TypeOK, Row

(* TypeOK alone is not inductive: that an UPDATE finds a row comes from    *)
(* CancelInv, and that an INSERT is a create's from ControlInv.            *)
LEMMA TypeStep ==
    ASSUME TypeOK, ControlInv, CancelInv, [Next]_vars
    PROVE  TypeOK'
  <1> USE DEF Control, AtService, Results, Refusals
  <1>1. CASE UNCHANGED vars
    BY <1>1 DEF TypeOK, vars
  <1>2. ASSUME NEW r \in Requests, NEW u \in Users, NEW s \in Slots,
               NEW link \in BOOLEAN, CreateHandler(r, u, s, link)
        PROVE  TypeOK'
    BY <1>2 DEF TypeOK, CreateHandler, Answer, Proceed, CreateRequest
  <1>3. ASSUME NEW r \in Requests, NEW u \in Users, NEW b \in Requests,
               CancelHandler(r, u, b)
        PROVE  TypeOK'
    BY <1>3 DEF TypeOK, CancelHandler, Answer, Proceed, CancelRequest
  <1>4. ASSUME NEW r \in Requests, GetSlot(r) PROVE TypeOK'
    BY <1>4 DEF TypeOK, GetSlot, Answer, Proceed
  <1>5. ASSUME NEW r \in Requests, CreateLink(r) PROVE TypeOK'
    BY <1>5 DEF TypeOK, CreateLink, Answer, Proceed
  <1>6. ASSUME NEW r \in Requests, Insert(r) PROVE TypeOK'
    <2>1. req[r].op = "create"
      BY <1>6 DEF Insert, ControlInv
    <2>2. bookings' \in [Requests -> Row \cup {NoBooking}]
      BY <1>6, <2>1, InsertRowType DEF Insert, TypeOK
    <2> QED BY <1>6, <2>2 DEF TypeOK, Insert, InsertOutcome, FailCreate, Answer
  <1>7. ASSUME NEW r \in Requests, InsertAbandoned(r) PROVE TypeOK'
    BY <1>7 DEF TypeOK, InsertAbandoned, FailCreate
  <1>8. ASSUME NEW r \in Requests, DeleteLink(r) PROVE TypeOK'
    BY <1>8 DEF TypeOK, DeleteLink, Answer, Proceed
  <1>9. ASSUME NEW r \in Requests, GetBooking(r) PROVE TypeOK'
    BY <1>9 DEF TypeOK, GetBooking, Answer, Proceed
  <1>10. ASSUME NEW r \in Requests, Update(r) PROVE TypeOK'
    <2>1. req[r].op = "cancel" /\ Stored(req[r].target)
      BY <1>10 DEF Update, ControlInv, CancelInv
    <2>2. req[r].target \in Requests
      BY <2>1 DEF TypeOK, CreateRequest, CancelRequest, NoRequest
    <2>3. bookings' \in [Requests -> Row \cup {NoBooking}]
      BY <1>10, <2>1, <2>2, CancelRowType DEF Update
    <2> QED BY <1>10, <2>3 DEF TypeOK, Update, Answer
  <1>11. ASSUME NEW r \in Requests, UpdateAbandoned(r) PROVE TypeOK'
    BY <1>11 DEF TypeOK, UpdateAbandoned, Answer
  <1>12. ASSUME NEW r \in Requests, ApplyLate(r) PROVE TypeOK'
    <2>1. CASE req[r].op = "create"
      <3>1. bookings' \in [Requests -> Row \cup {NoBooking}]
        BY <1>12, <2>1, InsertRowType DEF ApplyLate, TypeOK
      <3> QED BY <1>12, <3>1 DEF ApplyLate, TypeOK
    <2>2. CASE req[r].op = "cancel"
      <3>1. Stored(req[r].target)
        BY <1>12, <2>2 DEF ApplyLate, CancelInv
      <3>2. req[r].target \in Requests
        BY <2>2 DEF TypeOK, CreateRequest, CancelRequest, NoRequest
      <3>3. bookings' \in [Requests -> Row \cup {NoBooking}]
        BY <1>12, <2>2, <3>1, <3>2, CancelRowType DEF ApplyLate
      <3> QED BY <1>12, <3>3 DEF ApplyLate, TypeOK
    <2> QED BY <1>12, <2>1, <2>2 DEF ApplyLate
  <1>13. ASSUME NEW r \in Requests, DropLate(r) PROVE TypeOK'
    BY <1>13 DEF TypeOK, DropLate
  <1>14. CASE Crash
    BY <1>14 DEF TypeOK, Crash
  <1>15. ASSUME NEW s \in Slots, SlotAppears(s) PROVE TypeOK'
    BY <1>15 DEF TypeOK, SlotAppears
  <1>16. CASE Tick
    BY <1>16 DEF TypeOK, Tick
  <1> QED
    BY <1>1, <1>2, <1>3, <1>4, <1>5, <1>6, <1>7, <1>8, <1>9, <1>10, <1>11,
       <1>12, <1>13, <1>14, <1>15, <1>16 DEF Next, Handle, Quiescent

-----------------------------------------------------------------------------
(* The conjuncts of the invariant.                                         *)

(* The fields that a request and a row have, by its kind.                  *)
LEMMA Fields ==
    ASSUME TypeOK, NEW r \in Requests
    PROVE  /\ req[r].op \in {"create", "cancel", "none"}
           /\ req[r].op = "create" => req[r].user \in Users /\ req[r].slot \in Slots
           /\ req[r].op = "cancel" => req[r].target \in Requests
           /\ bookings[r].status \in {"active", "cancelled", "none"}
           /\ Stored(r) <=> bookings[r].status # "none"
  BY DEF TypeOK, CreateRequest, CancelRequest, NoRequest, Row, NoBooking, Stored

(* Each action moves one request along its path.                           *)
LEMMA ControlStep ==
    ASSUME Inv, [Next]_vars
    PROVE  ControlInv'
  <1> USE DEF Inv, TypeOK, Refusals, AtService
  <1>1. ASSUME NEW r \in Requests, NEW u \in Users, NEW s \in Slots,
               NEW link \in BOOLEAN, CreateHandler(r, u, s, link)
        PROVE  ControlInv'
    BY <1>1 DEF CreateHandler, Answer, Proceed, ControlInv
  <1>2. ASSUME NEW r \in Requests, NEW u \in Users, NEW b \in Requests,
               CancelHandler(r, u, b)
        PROVE  ControlInv'
    BY <1>2 DEF CancelHandler, Answer, Proceed, ControlInv
  <1>3. ASSUME NEW r \in Requests, GetSlot(r)
        PROVE  ControlInv'
    BY <1>3 DEF GetSlot, Answer, Proceed, ControlInv
  <1>4. ASSUME NEW r \in Requests, CreateLink(r)
        PROVE  ControlInv'
    BY <1>4 DEF CreateLink, Answer, Proceed, ControlInv
  <1>5. ASSUME NEW r \in Requests, Insert(r)
        PROVE  ControlInv'
    BY <1>5 DEF Insert, Answer, FailCreate, InsertOutcome, ControlInv
  <1>6. ASSUME NEW r \in Requests, InsertAbandoned(r)
        PROVE  ControlInv'
    BY <1>6 DEF InsertAbandoned, FailCreate, ControlInv
  <1>7. ASSUME NEW r \in Requests, DeleteLink(r)
        PROVE  ControlInv'
    BY <1>7 DEF DeleteLink, Answer, Proceed, ControlInv
  <1>8. ASSUME NEW r \in Requests, GetBooking(r)
        PROVE  ControlInv'
    BY <1>8 DEF GetBooking, Answer, Proceed, ControlInv
  <1>9. ASSUME NEW r \in Requests, Update(r)
        PROVE  ControlInv'
    BY <1>9 DEF Update, Answer, ControlInv
  <1>10. ASSUME NEW r \in Requests, UpdateAbandoned(r)
        PROVE  ControlInv'
    BY <1>10 DEF UpdateAbandoned, Answer, ControlInv
  <1>11. ASSUME NEW r \in Requests, ApplyLate(r)
        PROVE  ControlInv'
    BY <1>11 DEF ApplyLate, ControlInv
  <1>12. ASSUME NEW r \in Requests, DropLate(r)
        PROVE  ControlInv'
    BY <1>12 DEF DropLate, ControlInv
  <1>13. CASE Crash
    BY <1>13 DEF Crash, ControlInv
  <1>14. ASSUME NEW s \in Slots, SlotAppears(s)
        PROVE  ControlInv'
    BY <1>14 DEF SlotAppears, ControlInv
  <1>15. CASE Tick
    BY <1>15 DEF Tick, ControlInv
  <1>16. CASE UNCHANGED vars
    BY <1>16 DEF vars, ControlInv
  <1> QED
    BY <1>1, <1>2, <1>3, <1>4, <1>5, <1>6, <1>7, <1>8, <1>9, <1>10,
       <1>11, <1>12, <1>13, <1>14, <1>15, <1>16
       DEF Next, Handle, Quiescent

(* A statement becomes late as its handler stops waiting for it.           *)
LEMMA LateStep ==
    ASSUME Inv, [Next]_vars
    PROVE  LateInv'
  <1> USE DEF Inv, TypeOK, AtService
  <1>1. ASSUME NEW r \in Requests, NEW u \in Users, NEW s \in Slots,
               NEW link \in BOOLEAN, CreateHandler(r, u, s, link)
        PROVE  LateInv'
    BY <1>1 DEF CreateHandler, Answer, Proceed, LateInv, ControlInv
  <1>2. ASSUME NEW r \in Requests, NEW u \in Users, NEW b \in Requests,
               CancelHandler(r, u, b)
        PROVE  LateInv'
    BY <1>2 DEF CancelHandler, Answer, Proceed, LateInv, ControlInv
  <1>3. ASSUME NEW r \in Requests, GetSlot(r)
        PROVE  LateInv'
    BY <1>3 DEF GetSlot, Answer, Proceed, LateInv, ControlInv
  <1>4. ASSUME NEW r \in Requests, CreateLink(r)
        PROVE  LateInv'
    BY <1>4 DEF CreateLink, Answer, Proceed, LateInv, ControlInv
  <1>5. ASSUME NEW r \in Requests, Insert(r)
        PROVE  LateInv'
    BY <1>5 DEF Insert, Answer, FailCreate, InsertOutcome, LateInv, ControlInv
  <1>6. ASSUME NEW r \in Requests, InsertAbandoned(r)
        PROVE  LateInv'
    BY <1>6 DEF InsertAbandoned, FailCreate, LateInv, ControlInv
  <1>7. ASSUME NEW r \in Requests, DeleteLink(r)
        PROVE  LateInv'
    BY <1>7 DEF DeleteLink, Answer, Proceed, LateInv, ControlInv
  <1>8. ASSUME NEW r \in Requests, GetBooking(r)
        PROVE  LateInv'
    BY <1>8 DEF GetBooking, Answer, Proceed, LateInv, ControlInv
  <1>9. ASSUME NEW r \in Requests, Update(r)
        PROVE  LateInv'
    BY <1>9 DEF Update, Answer, LateInv, ControlInv
  <1>10. ASSUME NEW r \in Requests, UpdateAbandoned(r)
        PROVE  LateInv'
    BY <1>10 DEF UpdateAbandoned, Answer, LateInv, ControlInv
  <1>11. ASSUME NEW r \in Requests, ApplyLate(r)
        PROVE  LateInv'
    BY <1>11 DEF ApplyLate, LateInv, ControlInv
  <1>12. ASSUME NEW r \in Requests, DropLate(r)
        PROVE  LateInv'
    BY <1>12 DEF DropLate, LateInv, ControlInv
  <1>13. CASE Crash
    BY <1>13 DEF Crash, LateInv, ControlInv
  <1>14. ASSUME NEW s \in Slots, SlotAppears(s)
        PROVE  LateInv'
    BY <1>14 DEF SlotAppears, LateInv, ControlInv
  <1>15. CASE Tick
    BY <1>15 DEF Tick, LateInv, ControlInv
  <1>16. CASE UNCHANGED vars
    BY <1>16 DEF vars, LateInv, ControlInv
  <1> QED
    BY <1>1, <1>2, <1>3, <1>4, <1>5, <1>6, <1>7, <1>8, <1>9, <1>10,
       <1>11, <1>12, <1>13, <1>14, <1>15, <1>16
       DEF Next, Handle, Quiescent

(* The two ways the table bookings changes.                                *)
Insertion(r) ==
    /\ req[r].op = "create" /\ ~Stored(r)
    /\ UNCHANGED <<req, links>>
    /\ req[r].slot \in slots /\ ActiveOn(req[r].slot) = {}
    /\ InsertRow(r)
    /\ pc[r] = "insert" \/ r \in inflight
    /\ pc'[r] \in {"deleteLink", "done", "lost"}
    /\ result'[r] \notin Refusals
    /\ r \notin inflight'

Cancellation(r) ==
    /\ req[r].op = "cancel" /\ Stored(req[r].target)
    /\ UNCHANGED <<req, links>>
    /\ req[r].target \in Requests
    /\ bookings[req[r].target].userId = req[r].user
    /\ pc[r] = "update" \/ r \in inflight
    /\ CancelRow(req[r].target)

TableChange ==
    \/ UNCHANGED bookings
    \/ \E r \in Requests : Insertion(r) \/ Cancellation(r)

(* Whatever the action, the table changes in one of these ways.             *)
LEMMA TableStep ==
    ASSUME Inv, [Next]_vars
    PROVE  TableChange
  <1> USE DEF Inv, TypeOK, Refusals, AtService
  <1>1. ASSUME NEW r \in Requests, NEW u \in Users, NEW s \in Slots,
               NEW link \in BOOLEAN, CreateHandler(r, u, s, link)
        PROVE  TableChange
    BY <1>1 DEF CreateHandler, Answer, Proceed, TableChange
  <1>2. ASSUME NEW r \in Requests, NEW u \in Users, NEW b \in Requests,
               CancelHandler(r, u, b)
        PROVE  TableChange
    BY <1>2 DEF CancelHandler, Answer, Proceed, TableChange
  <1>3. ASSUME NEW r \in Requests, GetSlot(r)
        PROVE  TableChange
    BY <1>3 DEF GetSlot, Answer, Proceed, TableChange
  <1>4. ASSUME NEW r \in Requests, CreateLink(r)
        PROVE  TableChange
    BY <1>4 DEF CreateLink, Answer, Proceed, TableChange
  <1>5. ASSUME NEW r \in Requests, Insert(r)
        PROVE  TableChange
    <2>1. CASE bookings' = bookings
      BY <2>1 DEF TableChange
    <2>2. CASE bookings' # bookings
      <3>1. req[r].op = "create" /\ ~Stored(r) /\ r \notin inflight
        BY <1>5 DEF Insert, ControlInv, RowInv, LateInv
      <3>2. /\ InsertRow(r) /\ ActiveOn(req[r].slot) = {} /\ req[r].slot \in slots
            /\ Answer(r, "Created") /\ UNCHANGED <<inflight, req, links>>
        BY <1>5, <2>2 DEF Insert, InsertOutcome
      <3> QED BY <1>5, <3>1, <3>2 DEF Insert, Insertion, TableChange, Answer
    <2> QED BY <2>1, <2>2
  <1>6. ASSUME NEW r \in Requests, InsertAbandoned(r)
        PROVE  TableChange
    BY <1>6 DEF InsertAbandoned, FailCreate, TableChange
  <1>7. ASSUME NEW r \in Requests, DeleteLink(r)
        PROVE  TableChange
    BY <1>7 DEF DeleteLink, Answer, Proceed, TableChange
  <1>8. ASSUME NEW r \in Requests, GetBooking(r)
        PROVE  TableChange
    BY <1>8 DEF GetBooking, Answer, Proceed, TableChange
  <1>9. ASSUME NEW r \in Requests, Update(r)
        PROVE  TableChange
    <2>1. Cancellation(r)
      BY <1>9, Fields DEF Update, Cancellation, ControlInv, CancelInv
    <2> QED BY <2>1 DEF TableChange
  <1>10. ASSUME NEW r \in Requests, UpdateAbandoned(r)
        PROVE  TableChange
    BY <1>10 DEF UpdateAbandoned, Answer, TableChange
  <1>11. ASSUME NEW r \in Requests, ApplyLate(r)
        PROVE  TableChange
    <2>1. CASE bookings' = bookings
      BY <2>1 DEF TableChange
    <2>2. CASE bookings' # bookings /\ req[r].op = "create"
      <3>1. ~Stored(r) /\ result[r] \notin Refusals /\ pc[r] \in {"deleteLink", "done", "lost"}
        BY <1>11 DEF ApplyLate, RowInv, LateInv
      <3>2. InsertRow(r) /\ ActiveOn(req[r].slot) = {} /\ req[r].slot \in slots
        BY <1>11, <2>2 DEF ApplyLate, InsertOutcome
      <3>3. r \in inflight /\ r \notin inflight' /\ UNCHANGED <<pc, result, req, links>>
        BY <1>11 DEF ApplyLate
      <3>4. Insertion(r)
        BY <2>2, <3>1, <3>2, <3>3 DEF Insertion
      <3> QED BY <3>4 DEF TableChange
    <2>3. CASE req[r].op = "cancel"
      <3>1. Cancellation(r)
        BY <1>11, <2>3, Fields DEF ApplyLate, Cancellation, CancelInv
      <3> QED BY <3>1 DEF TableChange
    <2> QED BY <1>11, <2>1, <2>2, <2>3 DEF ApplyLate
  <1>12. ASSUME NEW r \in Requests, DropLate(r)
        PROVE  TableChange
    BY <1>12 DEF DropLate, TableChange
  <1>13. CASE Crash
    BY <1>13 DEF Crash, TableChange
  <1>14. ASSUME NEW s \in Slots, SlotAppears(s)
        PROVE  TableChange
    BY <1>14 DEF SlotAppears, TableChange
  <1>15. CASE Tick
    BY <1>15 DEF Tick, TableChange
  <1>16. CASE UNCHANGED vars
    BY <1>16 DEF vars, TableChange
  <1> QED
    BY <1>1, <1>2, <1>3, <1>4, <1>5, <1>6, <1>7, <1>8, <1>9, <1>10,
       <1>11, <1>12, <1>13, <1>14, <1>15, <1>16
       DEF Next, Handle, Quiescent

(* An insertion turns no row into another; a cancellation changes a status. *)
LEMMA RowsKept ==
    ASSUME Inv, TableChange, NEW b \in Requests, Stored(b)
    PROVE  /\ Stored(b)'
           /\ bookings'[b].slotId = bookings[b].slotId
           /\ bookings'[b].userId = bookings[b].userId
           /\ bookings'[b].link = bookings[b].link
           /\ bookings'[b].createdAt = bookings[b].createdAt
           /\ bookings[b].status = "cancelled" => bookings'[b].status = "cancelled"
  <1>1. bookings[b] \in Row
    BY DEF Inv, TypeOK, Stored
  <1>2. CASE UNCHANGED bookings
    BY <1>2 DEF Stored
  <1>3. ASSUME NEW r \in Requests, Insertion(r) PROVE bookings'[b] = bookings[b]
    BY <1>3 DEF Insertion, InsertRow, Inv, TypeOK
  <1>4. ASSUME NEW r \in Requests, Cancellation(r), b = req[r].target
        PROVE  bookings'[b] = [bookings[b] EXCEPT !.status = "cancelled", !.updatedAt = now]
    BY <1>4 DEF Cancellation, CancelRow, Inv, TypeOK
  <1>5. ASSUME NEW r \in Requests, Cancellation(r), b # req[r].target
        PROVE  bookings'[b] = bookings[b]
    BY <1>5 DEF Cancellation, CancelRow, Inv, TypeOK
  <1>6. [bookings[b] EXCEPT !.status = "cancelled", !.updatedAt = now] # NoBooking
    BY <1>1 DEF Row, NoBooking
  <1> QED BY <1>1, <1>2, <1>3, <1>4, <1>5, <1>6 DEF TableChange, Stored, Row

(* A row appears only as the insertion of its own request.                 *)
LEMMA RowsNew ==
    ASSUME Inv, TableChange, NEW b \in Requests, ~Stored(b), Stored(b)'
    PROVE  /\ Insertion(b)
           /\ bookings'[b] = [slotId |-> req[b].slot, userId |-> req[b].user,
                status |-> "active", link |-> req[b].link,
                createdAt |-> now, updatedAt |-> now]
  <1>1. PICK r \in Requests : Insertion(r) \/ Cancellation(r)
    BY DEF TableChange, Stored
  <1>2. CASE Insertion(r)
    BY <1>2 DEF Insertion, InsertRow, Inv, TypeOK, Stored
  <1>3. CASE Cancellation(r)
    BY <1>3 DEF Cancellation, CancelRow, Inv, TypeOK, Stored
  <1> QED BY <1>1, <1>2, <1>3

(* Once the INSERT is out of a handler's hands, little changes for it.     *)
Settled(q) == pc[q] \in {"deleteLink", "done", "lost"}

SettledStays ==
    \A q \in Requests : Settled(q) =>
        /\ Settled(q)'
        /\ req'[q] = req[q]
        /\ q \in inflight' => q \in inflight
        /\ result'[q] = result[q] \/ (pc[q] = "deleteLink" /\ result'[q] = "Internal")

(* A settled request stays settled under every action.                     *)
LEMMA SettledStep ==
    ASSUME Inv, [Next]_vars
    PROVE  SettledStays
  <1> USE DEF Inv, TypeOK, AtService
  <1>1. ASSUME NEW r \in Requests, NEW u \in Users, NEW s \in Slots,
               NEW link \in BOOLEAN, CreateHandler(r, u, s, link)
        PROVE  SettledStays
    BY <1>1 DEF CreateHandler, Answer, Proceed, SettledStays, Settled
  <1>2. ASSUME NEW r \in Requests, NEW u \in Users, NEW b \in Requests,
               CancelHandler(r, u, b)
        PROVE  SettledStays
    BY <1>2 DEF CancelHandler, Answer, Proceed, SettledStays, Settled
  <1>3. ASSUME NEW r \in Requests, GetSlot(r)
        PROVE  SettledStays
    BY <1>3 DEF GetSlot, Answer, Proceed, SettledStays, Settled
  <1>4. ASSUME NEW r \in Requests, CreateLink(r)
        PROVE  SettledStays
    BY <1>4 DEF CreateLink, Answer, Proceed, SettledStays, Settled
  <1>5. ASSUME NEW r \in Requests, Insert(r)
        PROVE  SettledStays
    BY <1>5 DEF Insert, Answer, FailCreate, InsertOutcome, SettledStays, Settled
  <1>6. ASSUME NEW r \in Requests, InsertAbandoned(r)
        PROVE  SettledStays
    BY <1>6 DEF InsertAbandoned, FailCreate, SettledStays, Settled
  <1>7. ASSUME NEW r \in Requests, DeleteLink(r)
        PROVE  SettledStays
    BY <1>7 DEF DeleteLink, Answer, Proceed, SettledStays, Settled
  <1>8. ASSUME NEW r \in Requests, GetBooking(r)
        PROVE  SettledStays
    BY <1>8 DEF GetBooking, Answer, Proceed, SettledStays, Settled
  <1>9. ASSUME NEW r \in Requests, Update(r)
        PROVE  SettledStays
    BY <1>9 DEF Update, Answer, SettledStays, Settled
  <1>10. ASSUME NEW r \in Requests, UpdateAbandoned(r)
        PROVE  SettledStays
    BY <1>10 DEF UpdateAbandoned, Answer, SettledStays, Settled
  <1>11. ASSUME NEW r \in Requests, ApplyLate(r)
        PROVE  SettledStays
    BY <1>11 DEF ApplyLate, SettledStays, Settled
  <1>12. ASSUME NEW r \in Requests, DropLate(r)
        PROVE  SettledStays
    BY <1>12 DEF DropLate, SettledStays, Settled
  <1>13. CASE Crash
    BY <1>13 DEF Crash, SettledStays, Settled
  <1>14. ASSUME NEW s \in Slots, SlotAppears(s)
        PROVE  SettledStays
    BY <1>14 DEF SlotAppears, SettledStays, Settled
  <1>15. CASE Tick
    BY <1>15 DEF Tick, SettledStays, Settled
  <1>16. CASE UNCHANGED vars
    BY <1>16 DEF vars, SettledStays, Settled
  <1> QED
    BY <1>1, <1>2, <1>3, <1>4, <1>5, <1>6, <1>7, <1>8, <1>9, <1>10,
       <1>11, <1>12, <1>13, <1>14, <1>15, <1>16
       DEF Next, Handle, Quiescent

(* A stored row keeps describing the request that made it.                 *)
LEMMA RowStep ==
    ASSUME Inv, [Next]_vars
    PROVE  RowInv'
  <1>1. TableChange /\ SettledStays
    BY TableStep, SettledStep
  <1> SUFFICES ASSUME NEW q \in Requests, Stored(q)'
               PROVE  /\ req'[q].op = "create"
                      /\ bookings'[q].userId = req'[q].user
                      /\ bookings'[q].slotId = req'[q].slot
                      /\ bookings'[q].link = req'[q].link
                      /\ bookings'[q].status \in {"active", "cancelled"}
                      /\ pc'[q] \in {"deleteLink", "done", "lost"}
                      /\ q \notin inflight'
                      /\ result'[q] \notin Refusals
    BY DEF RowInv
  <1>2. TypeOK'
    BY TypeStep DEF Inv
  <1>3. bookings'[q].status \in {"active", "cancelled"}
    BY <1>2 DEF TypeOK, Stored, Row
  <1>4. CASE Stored(q)
    <2>1. /\ req[q].op = "create" /\ Settled(q) /\ q \notin inflight /\ result[q] \notin Refusals
          /\ bookings[q].userId = req[q].user /\ bookings[q].slotId = req[q].slot
          /\ bookings[q].link = req[q].link
      BY <1>4 DEF Inv, RowInv, Settled
    <2>2. /\ req'[q] = req[q] /\ Settled(q)' /\ q \notin inflight'
          /\ result'[q] = result[q] \/ result'[q] = "Internal"
      BY <1>1, <2>1 DEF SettledStays
    <2>3. /\ bookings'[q].userId = bookings[q].userId
          /\ bookings'[q].slotId = bookings[q].slotId
          /\ bookings'[q].link = bookings[q].link
      BY <1>1, <1>4, RowsKept
    <2> QED BY <1>3, <2>1, <2>2, <2>3 DEF Settled, Refusals
  <1>5. CASE ~Stored(q)
    <2>1. /\ Insertion(q)
          /\ bookings'[q] = [slotId |-> req[q].slot, userId |-> req[q].user,
               status |-> "active", link |-> req[q].link,
               createdAt |-> now, updatedAt |-> now]
      BY <1>1, <1>5, RowsNew
    <2>2. req' = req
      BY <2>1 DEF Insertion
    <2> QED BY <1>3, <2>1, <2>2 DEF Insertion
  <1> QED BY <1>4, <1>5

(* What the rest of the invariant needs to know of the table.              *)
TableGrows ==
    \A b \in Requests : Stored(b) =>
        /\ Stored(b)'
        /\ bookings'[b].userId = bookings[b].userId
        /\ bookings[b].status = "cancelled" => bookings'[b].status = "cancelled"

(* What the table holds it keeps.                                          *)
LEMMA GrowthStep ==
    ASSUME Inv, [Next]_vars
    PROVE  TableGrows
  BY TableStep, RowsKept DEF TableGrows

(* A link is made before the INSERT and deleted only when that failed.     *)
LEMMA LinkStep ==
    ASSUME Inv, [Next]_vars
    PROVE  LinkInv'
  <1> USE DEF Inv, TypeOK, AtService, TableGrows
  <1>0. TableGrows
    BY GrowthStep
  <1>1. ASSUME NEW r \in Requests, NEW u \in Users, NEW s \in Slots,
               NEW link \in BOOLEAN, CreateHandler(r, u, s, link)
        PROVE  LinkInv'
    BY <1>1, <1>0 DEF CreateHandler, Answer, Proceed, LinkInv, ControlInv
  <1>2. ASSUME NEW r \in Requests, NEW u \in Users, NEW b \in Requests,
               CancelHandler(r, u, b)
        PROVE  LinkInv'
    BY <1>2, <1>0 DEF CancelHandler, Answer, Proceed, LinkInv, ControlInv
  <1>3. ASSUME NEW r \in Requests, GetSlot(r)
        PROVE  LinkInv'
    BY <1>3, <1>0 DEF GetSlot, Answer, Proceed, LinkInv, ControlInv
  <1>4. ASSUME NEW r \in Requests, CreateLink(r)
        PROVE  LinkInv'
    BY <1>4, <1>0 DEF CreateLink, Answer, Proceed, LinkInv, ControlInv
  <1>5. ASSUME NEW r \in Requests, Insert(r)
        PROVE  LinkInv'
    <2>1. CASE InsertOutcome(req[r].slot) = "Created"
      <3>1. Stored(r)' /\ pc[r] = "insert" /\ Answer(r, "Created") /\ UNCHANGED <<links, req>>
        BY <1>5, <2>1 DEF Insert, InsertRow, Stored, NoBooking
      <3> QED BY <1>5, <1>0, <3>1 DEF LinkInv, ControlInv, Answer
    <2>2. CASE InsertOutcome(req[r].slot) # "Created"
      BY <1>5, <1>0, <2>2 DEF Insert, FailCreate, InsertOutcome, LinkInv, ControlInv
    <2> QED BY <2>1, <2>2
  <1>6. ASSUME NEW r \in Requests, InsertAbandoned(r)
        PROVE  LinkInv'
    BY <1>6, <1>0 DEF InsertAbandoned, FailCreate, LinkInv, ControlInv
  <1>7. ASSUME NEW r \in Requests, DeleteLink(r)
        PROVE  LinkInv'
    BY <1>7, <1>0 DEF DeleteLink, Answer, Proceed, LinkInv, ControlInv
  <1>8. ASSUME NEW r \in Requests, GetBooking(r)
        PROVE  LinkInv'
    BY <1>8, <1>0 DEF GetBooking, Answer, Proceed, LinkInv, ControlInv
  <1>9. ASSUME NEW r \in Requests, Update(r)
        PROVE  LinkInv'
    BY <1>9, <1>0 DEF Update, Answer, LinkInv, ControlInv
  <1>10. ASSUME NEW r \in Requests, UpdateAbandoned(r)
        PROVE  LinkInv'
    BY <1>10, <1>0 DEF UpdateAbandoned, Answer, LinkInv, ControlInv
  <1>11. ASSUME NEW r \in Requests, ApplyLate(r)
        PROVE  LinkInv'
    BY <1>11, <1>0 DEF ApplyLate, LinkInv, ControlInv
  <1>12. ASSUME NEW r \in Requests, DropLate(r)
        PROVE  LinkInv'
    BY <1>12, <1>0 DEF DropLate, LinkInv, ControlInv
  <1>13. CASE Crash
    BY <1>13, <1>0 DEF Crash, LinkInv, ControlInv
  <1>14. ASSUME NEW s \in Slots, SlotAppears(s)
        PROVE  LinkInv'
    BY <1>14, <1>0 DEF SlotAppears, LinkInv, ControlInv
  <1>15. CASE Tick
    BY <1>15, <1>0 DEF Tick, LinkInv, ControlInv
  <1>16. CASE UNCHANGED vars
    BY <1>16, <1>0 DEF vars, LinkInv, ControlInv
  <1> QED
    BY <1>1, <1>2, <1>3, <1>4, <1>5, <1>6, <1>7, <1>8, <1>9, <1>10,
       <1>11, <1>12, <1>13, <1>14, <1>15, <1>16
       DEF Next, Handle, Quiescent

(* The row that GetBooking saw is still there, with the owner it had, when  *)
(* the UPDATE comes, however late.                                         *)
LEMMA CancelStep ==
    ASSUME Inv, [Next]_vars
    PROVE  CancelInv'
  <1> USE DEF Inv, TypeOK, AtService, TableGrows
  <1>0. TableGrows
    BY GrowthStep
  <1>1. ASSUME NEW r \in Requests, NEW u \in Users, NEW s \in Slots,
               NEW link \in BOOLEAN, CreateHandler(r, u, s, link)
        PROVE  CancelInv'
    BY <1>1, <1>0, Fields DEF CreateHandler, Answer, Proceed, CancelInv, ControlInv, LateInv, Stored
  <1>2. ASSUME NEW r \in Requests, NEW u \in Users, NEW b \in Requests,
               CancelHandler(r, u, b)
        PROVE  CancelInv'
    BY <1>2, <1>0, Fields DEF CancelHandler, Answer, Proceed, CancelInv, ControlInv, LateInv, Stored
  <1>3. ASSUME NEW r \in Requests, GetSlot(r)
        PROVE  CancelInv'
    BY <1>3, <1>0, Fields DEF GetSlot, Answer, Proceed, CancelInv, ControlInv, LateInv, Stored
  <1>4. ASSUME NEW r \in Requests, CreateLink(r)
        PROVE  CancelInv'
    BY <1>4, <1>0, Fields DEF CreateLink, Answer, Proceed, CancelInv, ControlInv, LateInv, Stored
  <1>5. ASSUME NEW r \in Requests, Insert(r)
        PROVE  CancelInv'
    BY <1>5, <1>0, Fields DEF Insert, Answer, FailCreate, InsertOutcome, CancelInv, ControlInv, LateInv, Stored
  <1>6. ASSUME NEW r \in Requests, InsertAbandoned(r)
        PROVE  CancelInv'
    BY <1>6, <1>0, Fields DEF InsertAbandoned, FailCreate, CancelInv, ControlInv, LateInv, Stored
  <1>7. ASSUME NEW r \in Requests, DeleteLink(r)
        PROVE  CancelInv'
    BY <1>7, <1>0, Fields DEF DeleteLink, Answer, Proceed, CancelInv, ControlInv, LateInv, Stored
  <1>8. ASSUME NEW r \in Requests, GetBooking(r)
        PROVE  CancelInv'
    BY <1>8, <1>0, Fields DEF GetBooking, Answer, Proceed, CancelInv, ControlInv, LateInv, Stored
  <1>9. ASSUME NEW r \in Requests, Update(r)
        PROVE  CancelInv'
    <2>1. req[r].op = "cancel" /\ req[r].target \in Requests /\ Stored(req[r].target)
      BY <1>9, Fields DEF Update, ControlInv, CancelInv
    <2>2. /\ bookings[req[r].target] \in Row
          /\ bookings' = [bookings EXCEPT ![req[r].target] =
               [bookings[req[r].target] EXCEPT !.status = "cancelled", !.updatedAt = now]]
      BY <1>9, <2>1 DEF Update, CancelRow, Stored
    <2>3. bookings'[req[r].target].status = "cancelled"
      BY <2>1, <2>2 DEF Row
    <2> QED BY <1>9, <1>0, <2>1, <2>3, Fields DEF Update, Answer, CancelInv, ControlInv, LateInv
  <1>10. ASSUME NEW r \in Requests, UpdateAbandoned(r)
        PROVE  CancelInv'
    BY <1>10, <1>0, Fields DEF UpdateAbandoned, Answer, CancelInv, ControlInv, LateInv, Stored
  <1>11. ASSUME NEW r \in Requests, ApplyLate(r)
        PROVE  CancelInv'
    BY <1>11, <1>0, Fields DEF ApplyLate, CancelInv, ControlInv, LateInv, Stored
  <1>12. ASSUME NEW r \in Requests, DropLate(r)
        PROVE  CancelInv'
    BY <1>12, <1>0, Fields DEF DropLate, CancelInv, ControlInv, LateInv, Stored
  <1>13. CASE Crash
    BY <1>13, <1>0, Fields DEF Crash, CancelInv, ControlInv, LateInv, Stored
  <1>14. ASSUME NEW s \in Slots, SlotAppears(s)
        PROVE  CancelInv'
    BY <1>14, <1>0, Fields DEF SlotAppears, CancelInv, ControlInv, LateInv, Stored
  <1>15. CASE Tick
    BY <1>15, <1>0, Fields DEF Tick, CancelInv, ControlInv, LateInv, Stored
  <1>16. CASE UNCHANGED vars
    BY <1>16, <1>0, Fields DEF vars, CancelInv, ControlInv, LateInv, Stored
  <1> QED
    BY <1>1, <1>2, <1>3, <1>4, <1>5, <1>6, <1>7, <1>8, <1>9, <1>10,
       <1>11, <1>12, <1>13, <1>14, <1>15, <1>16
       DEF Next, Handle, Quiescent

(* Every way out of an INSERT that stored no row deletes the link.         *)
LEMMA LeakStep ==
    ASSUME Inv, [Next]_vars
    PROVE  NoSilentLeak'
  <1> USE DEF Inv, TypeOK, AtService, TableGrows
  <1>0. TableGrows
    BY GrowthStep
  <1>1. ASSUME NEW r \in Requests, NEW u \in Users, NEW s \in Slots,
               NEW link \in BOOLEAN, CreateHandler(r, u, s, link)
        PROVE  NoSilentLeak'
    BY <1>1, <1>0 DEF CreateHandler, Answer, Proceed, NoSilentLeak, ControlInv, LinkInv, Finished
  <1>2. ASSUME NEW r \in Requests, NEW u \in Users, NEW b \in Requests,
               CancelHandler(r, u, b)
        PROVE  NoSilentLeak'
    BY <1>2, <1>0 DEF CancelHandler, Answer, Proceed, NoSilentLeak, ControlInv, LinkInv, Finished
  <1>3. ASSUME NEW r \in Requests, GetSlot(r)
        PROVE  NoSilentLeak'
    BY <1>3, <1>0 DEF GetSlot, Answer, Proceed, NoSilentLeak, ControlInv, LinkInv, Finished
  <1>4. ASSUME NEW r \in Requests, CreateLink(r)
        PROVE  NoSilentLeak'
    BY <1>4, <1>0 DEF CreateLink, Answer, Proceed, NoSilentLeak, ControlInv, LinkInv, Finished
  <1>5. ASSUME NEW r \in Requests, Insert(r)
        PROVE  NoSilentLeak'
    <2>1. CASE InsertOutcome(req[r].slot) = "Created"
      <3>1. Stored(r)' /\ Answer(r, "Created") /\ UNCHANGED links
        BY <1>5, <2>1 DEF Insert, InsertRow, Stored, NoBooking
      <3> QED BY <1>0, <3>1 DEF NoSilentLeak, Finished, Answer
    <2>2. CASE InsertOutcome(req[r].slot) # "Created"
      BY <1>5, <1>0, <2>2 DEF Insert, FailCreate, NoSilentLeak, LinkInv, Finished
    <2> QED BY <2>1, <2>2
  <1>6. ASSUME NEW r \in Requests, InsertAbandoned(r)
        PROVE  NoSilentLeak'
    BY <1>6, <1>0 DEF InsertAbandoned, FailCreate, NoSilentLeak, ControlInv, LinkInv, Finished
  <1>7. ASSUME NEW r \in Requests, DeleteLink(r)
        PROVE  NoSilentLeak'
    BY <1>7, <1>0 DEF DeleteLink, Answer, Proceed, NoSilentLeak, ControlInv, LinkInv, Finished
  <1>8. ASSUME NEW r \in Requests, GetBooking(r)
        PROVE  NoSilentLeak'
    BY <1>8, <1>0 DEF GetBooking, Answer, Proceed, NoSilentLeak, ControlInv, LinkInv, Finished
  <1>9. ASSUME NEW r \in Requests, Update(r)
        PROVE  NoSilentLeak'
    BY <1>9, <1>0 DEF Update, Answer, NoSilentLeak, ControlInv, LinkInv, Finished
  <1>10. ASSUME NEW r \in Requests, UpdateAbandoned(r)
        PROVE  NoSilentLeak'
    BY <1>10, <1>0 DEF UpdateAbandoned, Answer, NoSilentLeak, ControlInv, LinkInv, Finished
  <1>11. ASSUME NEW r \in Requests, ApplyLate(r)
        PROVE  NoSilentLeak'
    BY <1>11, <1>0 DEF ApplyLate, NoSilentLeak, ControlInv, LinkInv, Finished
  <1>12. ASSUME NEW r \in Requests, DropLate(r)
        PROVE  NoSilentLeak'
    BY <1>12, <1>0 DEF DropLate, NoSilentLeak, ControlInv, LinkInv, Finished
  <1>13. CASE Crash
    BY <1>13, <1>0 DEF Crash, NoSilentLeak, ControlInv, LinkInv, Finished
  <1>14. ASSUME NEW s \in Slots, SlotAppears(s)
        PROVE  NoSilentLeak'
    BY <1>14, <1>0 DEF SlotAppears, NoSilentLeak, ControlInv, LinkInv, Finished
  <1>15. CASE Tick
    BY <1>15, <1>0 DEF Tick, NoSilentLeak, ControlInv, LinkInv, Finished
  <1>16. CASE UNCHANGED vars
    BY <1>16, <1>0 DEF vars, NoSilentLeak, ControlInv, LinkInv, Finished
  <1> QED
    BY <1>1, <1>2, <1>3, <1>4, <1>5, <1>6, <1>7, <1>8, <1>9, <1>10,
       <1>11, <1>12, <1>13, <1>14, <1>15, <1>16
       DEF Next, Handle, Quiescent

(* An insertion finds the slot free, and a cancellation only frees one.    *)
LEMMA UniqueStep ==
    ASSUME Inv, [Next]_vars
    PROVE  OneActivePerSlot'
  <1>1. TableChange
    BY TableStep
  <1> SUFFICES ASSUME NEW b \in Requests, NEW c \in Requests, b # c,
                      bookings'[b].status = "active", bookings'[c].status = "active",
                      bookings'[b].slotId = bookings'[c].slotId
               PROVE  FALSE
    BY DEF OneActivePerSlot
  <1>2. CASE UNCHANGED bookings
    BY <1>2 DEF Inv, OneActivePerSlot
  <1>3. ASSUME NEW r \in Requests, Insertion(r) PROVE FALSE
    <2>1. /\ \A d \in Requests \ {r} : bookings'[d] = bookings[d]
          /\ bookings'[r].slotId = req[r].slot
      BY <1>3 DEF Insertion, InsertRow, Inv, TypeOK
    <2>2. \A d \in Requests : bookings[d].status = "active" => bookings[d].slotId # req[r].slot
      BY <1>3 DEF Insertion, ActiveOn
    <2> QED BY <2>1, <2>2 DEF Inv, OneActivePerSlot
  <1>4. ASSUME NEW r \in Requests, Cancellation(r) PROVE FALSE
    <2> DEFINE t == req[r].target
    <2>1. t \in Requests /\ bookings[t] \in Row
      BY <1>4 DEF Cancellation, Stored, Inv, TypeOK
    <2>2. /\ \A d \in Requests \ {t} : bookings'[d] = bookings[d]
          /\ bookings'[t] = [bookings[t] EXCEPT !.status = "cancelled", !.updatedAt = now]
      BY <1>4, <2>1 DEF Cancellation, CancelRow, Inv, TypeOK
    <2>3. bookings'[t].status = "cancelled"
      BY <2>1, <2>2 DEF Row
    <2> HIDE DEF t
    <2> QED BY <2>1, <2>2, <2>3 DEF Inv, OneActivePerSlot
  <1> QED BY <1>1, <1>2, <1>3, <1>4 DEF TableChange

-----------------------------------------------------------------------------
(* The theorems.                                                           *)

(* The empty database satisfies the invariant.                             *)
LEMMA InvInit == Init => Inv
  BY DEF Init, Inv, TypeOK, ControlInv, RowInv, LateInv, LinkInv, CancelInv,
     OneActivePerSlot, NoSilentLeak, Stored, NoBooking, NoRequest, Control, Results,
     ConstantsAssumption

(* The invariant is inductive.                                             *)
LEMMA InvStep == Inv /\ [Next]_vars => Inv'
  <1> SUFFICES ASSUME Inv, [Next]_vars PROVE Inv'
    OBVIOUS
  <1>1. TypeOK'
    BY TypeStep DEF Inv
  <1> QED
    BY <1>1, ControlStep, RowStep, LateStep, LinkStep, CancelStep, UniqueStep, LeakStep
       DEF Inv

(* The invariant always holds.                                             *)
LEMMA InvHolds == Spec => []Inv
  BY InvInit, InvStep, PTL DEF Spec

(* Every variable keeps its type.                                          *)
THEOREM TypeCorrect == Spec => []TypeOK
  <1>1. Inv => TypeOK
    BY DEF Inv
  <1> QED BY <1>1, InvHolds, PTL

(* No interleaving of inserts, late inserts and cancellations gives one    *)
(* slot to two active bookings.                                            *)
THEOREM NoDoubleBooking == Spec => []OneActivePerSlot
  <1>1. Inv => OneActivePerSlot
    BY DEF Inv
  <1> QED BY <1>1, InvHolds, PTL

(* A create refused with a definite error never books anything.            *)
THEOREM RefusalsAreFinal == Spec => []RejectionIsFinal
  <1>1. Inv => RejectionIsFinal
    BY DEF Inv, RowInv, LateInv, RejectionIsFinal, Refusals
  <1> QED BY <1>1, InvHolds, PTL

(* A create answered 201 has its row, and its link is alive.               *)
THEOREM SuccessIsDurable == Spec => []CreatedIsDurable
  <1>1. Inv => CreatedIsDurable
    BY DEF Inv, RowInv, LinkInv, CreatedIsDurable
  <1> QED BY <1>1, InvHolds, PTL

(* A link without a booking is accounted for by a crash or an error 500.   *)
THEOREM LinksAreAccountedFor == Spec => []NoSilentLeak
  <1>1. Inv => NoSilentLeak
    BY DEF Inv
  <1> QED BY <1>1, InvHolds, PTL

(* A cancel answered 200 is true of the row.                               *)
THEOREM CancelledIsTrue == Spec => []CancelledReplyIsTrue
  <1>1. Inv => CancelledReplyIsTrue
    BY DEF Inv, CancelInv, ControlInv, CancelledReplyIsTrue, Stored
  <1> QED BY <1>1, InvHolds, PTL

(* Only a request of its owner ends a booking.                             *)
THEOREM OnlyTheOwnerCancels == Spec => OnlyOwnerCancels
  <1>1. Inv /\ [Next]_vars =>
          [\A b \in Requests :
             bookings[b].status = "active" /\ bookings'[b].status # "active"
             => \E r \in Requests :
                   /\ req[r].op = "cancel" /\ req[r].target = b
                   /\ req[r].user = bookings[b].userId
                   /\ pc[r] = "update" \/ r \in inflight]_vars
    <2> SUFFICES ASSUME Inv, [Next]_vars, NEW b \in Requests,
                        bookings[b].status = "active", bookings'[b].status # "active"
                 PROVE  \E r \in Requests : Cancellation(r) /\ req[r].target = b
      BY DEF Cancellation
    <2>1. TableChange /\ Stored(b)
      BY TableStep DEF Stored, NoBooking
    <2>2. ASSUME NEW r \in Requests, Insertion(r) PROVE bookings'[b] = bookings[b]
      BY <2>1, <2>2 DEF Insertion, InsertRow, Inv, TypeOK
    <2>3. ASSUME NEW r \in Requests, Cancellation(r), req[r].target # b
          PROVE  bookings'[b] = bookings[b]
      BY <2>3 DEF Cancellation, CancelRow, Inv, TypeOK
    <2> QED BY <2>1, <2>2, <2>3 DEF TableChange
  <1> QED BY <1>1, InvHolds, PTL DEF Spec, OnlyOwnerCancels

(* Rows stay, with their slot, user, link and creation time, and what is   *)
(* cancelled stays so.                                                     *)
THEOREM RowsStay == Spec => RowsOnlyGetCancelled
  <1>1. Inv /\ [Next]_vars =>
          [\A b \in Requests : Stored(b) =>
             /\ bookings'[b] # NoBooking
             /\ \A f \in {"slotId", "userId", "link", "createdAt"} :
                    bookings'[b][f] = bookings[b][f]
             /\ bookings[b].status = "cancelled" => bookings'[b].status = "cancelled"]_vars
    <2> SUFFICES ASSUME Inv, [Next]_vars, NEW b \in Requests, Stored(b)
                 PROVE  /\ bookings'[b] # NoBooking
                        /\ bookings'[b].slotId = bookings[b].slotId
                        /\ bookings'[b].userId = bookings[b].userId
                        /\ bookings'[b].link = bookings[b].link
                        /\ bookings'[b].createdAt = bookings[b].createdAt
                        /\ bookings[b].status = "cancelled" => bookings'[b].status = "cancelled"
      OBVIOUS
    <2>1. TableChange
      BY TableStep
    <2> QED BY <2>1, RowsKept DEF Stored
  <1> QED BY <1>1, InvHolds, PTL DEF Spec, RowsOnlyGetCancelled

-----------------------------------------------------------------------------
(* The refinement.                                                         *)

(* A row holds its slot while active and nothing afterwards.               *)
LEMMA HoldsOf ==
    ASSUME TypeOK, NEW b \in Requests
    PROVE  /\ Holds[b] \in Slots <=> bookings[b].status = "active"
           /\ ~Stored(b) => Holds[b] = "fresh"
           /\ bookings[b].status = "active" => Holds[b] = bookings[b].slotId
           /\ bookings[b].status = "cancelled" => Holds[b] = "released"
  <1>1. Stored(b) => bookings[b] \in Row
    BY DEF TypeOK, Stored
  <1> QED BY <1>1, SlotsAssumption DEF Holds, Row, Stored, NoBooking

(* Requests, statements and late statements together reserve and release   *)
(* slots, and do nothing else to them.                                     *)
THEOREM BookingsImplementReservation == Spec => ImplementsReservation
  <1>1. Init => Reservation!Init
    BY DEF Init, Reservation!Init, Holds, NoBooking, Reservation!Fresh
  <1>2. Inv /\ Inv' /\ [Next]_vars => [Reservation!Next]_Holds
    <2> SUFFICES ASSUME Inv, Inv', [Next]_vars PROVE [Reservation!Next]_Holds
      OBVIOUS
    <2>0. TableChange
      BY TableStep
    <2>t. TypeOK /\ TypeOK'
      BY DEF Inv
    <2>d. Holds = [b \in Requests |-> Holds[b]] /\ Holds' = [b \in Requests |-> Holds'[b]]
      BY DEF Holds
    <2>1. CASE UNCHANGED bookings
      BY <2>1 DEF Holds
    <2>2. ASSUME NEW r \in Requests, Insertion(r)
          PROVE  Reservation!Reserve(r, req[r].slot) /\ req[r].slot \in Slots
      <3>1. req[r].slot \in Slots /\ ~Stored(r)
        BY <2>t, <2>2, Fields DEF Insertion
      <3>2. \A c \in Requests : Holds[c] # req[r].slot
        BY <2>t, <2>2, <3>1, HoldsOf, Fields DEF Insertion, ActiveOn
      <3>3. /\ \A d \in Requests \ {r} : bookings'[d] = bookings[d]
            /\ bookings'[r].slotId = req[r].slot
            /\ bookings'[r].status = "active"
        BY <2>t, <2>2 DEF Insertion, InsertRow, TypeOK
      <3>4. Holds' = [Holds EXCEPT ![r] = req[r].slot]
        BY <3>3 DEF Holds
      <3> QED
        BY <2>t, <3>1, <3>2, <3>4, HoldsOf DEF Reservation!Reserve, Reservation!Fresh
    <2>3. ASSUME NEW r \in Requests, Cancellation(r)
          PROVE  Reservation!Release(req[r].target) \/ UNCHANGED Holds
      <3> DEFINE t == req[r].target
      <3>1. t \in Requests /\ bookings[t] \in Row
        BY <2>3, <2>t DEF Cancellation, Stored, TypeOK
      <3>2. /\ \A d \in Requests \ {t} : bookings'[d] = bookings[d]
            /\ bookings'[t] = [bookings[t] EXCEPT !.status = "cancelled", !.updatedAt = now]
        BY <2>3, <2>t, <3>1 DEF Cancellation, CancelRow, TypeOK
      <3>3. bookings'[t].status = "cancelled"
        BY <3>1, <3>2 DEF Row
      <3> HIDE DEF t
      <3>4. Holds' = [Holds EXCEPT ![t] = "released"]
        BY <3>1, <3>2, <3>3 DEF Holds
      <3>5. CASE bookings[t].status = "active"
        <4>1. Holds[t] \in Slots
          BY <2>t, <3>1, <3>5, HoldsOf
        <4> QED BY <3>4, <4>1 DEF Reservation!Release, Reservation!Released, t
      <3>6. CASE bookings[t].status = "cancelled"
        <4>1. Holds[t] = "released"
          BY <2>t, <3>1, <3>6, HoldsOf
        <4> QED BY <2>d, <3>1, <3>4, <4>1
      <3> QED BY <3>1, <3>5, <3>6 DEF Row
    <2>4. ASSUME NEW r \in Requests, Cancellation(r) PROVE req[r].target \in Requests
      BY <2>4 DEF Cancellation
    <2> QED
      BY <2>0, <2>1, <2>2, <2>3, <2>4 DEF TableChange, Reservation!Next
  <1> QED
    BY <1>1, <1>2, InvHolds, PTL DEF Spec, ImplementsReservation, Reservation!Spec

=============================================================================
