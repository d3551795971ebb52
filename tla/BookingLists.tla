---------------------------- MODULE BookingLists ----------------------------
(***************************************************************************)
(* GET /bookings/list: the pages of table bookings, read one at a time     *)
(* while bookings are being made.  No booking is ever removed (Bookings,   *)
(* RowsOnlyGetCancelled), so the table only grows here.                    *)
(*                                                                         *)
(* An admin walks the list from its first page to its last; what he has    *)
(* seen is bookkeeping for the properties.                                 *)
(***************************************************************************)
EXTENDS Integers, Sequences, FiniteSets, SequencesExt

CONSTANTS
    Ids,              \* the bookings that are ever made
    Pages, PageSizes, \* the values of the query's page and pageSize
    DefaultPageSize, MaxPageSize,
    MaxInt,           \* the largest int, 2^63 - 1 in the program
    MaxTime           \* bound on the clock

(* No more bookings than an int can count.                                 *)
ASSUME ConstantsAssumption ==
    /\ {DefaultPageSize, MaxPageSize, MaxInt, MaxTime} \subseteq Nat
    /\ IsFiniteSet(Ids) /\ Cardinality(Ids) <= MaxInt
    /\ Pages \subseteq -MaxInt .. MaxInt /\ PageSizes \subseteq -MaxInt .. MaxInt
    /\ 0 < DefaultPageSize /\ DefaultPageSize <= MaxPageSize /\ MaxPageSize <= MaxInt

VARIABLES
    now,        \* the clock of PostgreSQL
    createdAt,  \* bookings.created_at of the rows of table bookings
    answer,     \* the last answer
    walk        \* the walk through the pages

vars == <<now, createdAt, answer, walk>>

NoAnswer == [status |-> "none"]
NoWalk   == [page |-> 0]
Stored   == DOMAIN createdAt

Init ==
    /\ now = 0
    /\ createdAt = << >>
    /\ answer = NoAnswer
    /\ walk = NoWalk

-----------------------------------------------------------------------------
(* normalizePagination.                                                    *)

(* What is left of n in an int.                                            *)
Wrap(n) == ((n + MaxInt + 1) % (2 * (MaxInt + 1))) - (MaxInt + 1)

NormalPage(page)     == IF page = 0 THEN 1 ELSE page
NormalSize(pageSize) == IF pageSize = 0 THEN DefaultPageSize ELSE pageSize

ValidPagination(page, pageSize) ==
    NormalPage(page) >= 1 /\ NormalSize(pageSize) \in 1 .. MaxPageSize

Offset(page, pageSize) == Wrap((page - 1) * pageSize)

-----------------------------------------------------------------------------
(* Repository.List.                                                        *)

(* ORDER BY created_at DESC: rows of one moment come in any order.         *)
AnyOrder == SetToSeqs(Stored)                                    \* defect
NewestFirst ==
    {s \in SetToSeqs(Stored) :
        \A i, j \in DOMAIN s : i < j => createdAt[s[i]] >= createdAt[s[j]]}

(* LIMIT and OFFSET.                                                       *)
SliceToEnd(s, limit, offset) == SubSeq(s, offset + 1, Len(s))    \* defect
Slice(s, limit, offset) ==
    SubSeq(s, offset + 1, IF offset + limit < Len(s) THEN offset + limit ELSE Len(s))

(* The window count comes with each row, and with no row not at all.      *)
Total(rows) == IF rows = << >> THEN 0 ELSE Cardinality(Stored)

(* Handler.List and Service.List, which normalizes once more to no effect, *)
(* for an admin.  A negative OFFSET is an error of the statement.          *)
Answers(page, pageSize) ==
    LET p == NormalPage(page)
        n == NormalSize(pageSize)
    IN  IF ~ValidPagination(page, pageSize) THEN {[status |-> "InvalidRequest"]}
        ELSE IF Offset(p, n) < 0 THEN {[status |-> "Internal"]}
        ELSE {[status |-> "OK", page |-> p, pageSize |-> n, bookings |-> rows,
               total |-> Total(rows)] :
                  rows \in {Slice(s, n, Offset(p, n)) : s \in NewestFirst}}

-----------------------------------------------------------------------------
(* A booking's INSERT is committed; created_at is when its statement       *)
(* began, so that a row may appear behind one that is newer.               *)
Store(b, t) ==
    /\ b \notin Stored
    /\ createdAt' = [x \in Stored \cup {b} |-> IF x = b THEN t ELSE createdAt[x]]
    /\ UNCHANGED <<now, answer, walk>>

Tick ==
    /\ now < MaxTime
    /\ now' = now + 1
    /\ UNCHANGED <<createdAt, answer, walk>>

(* A single request.                                                       *)
List(page, pageSize) ==
    /\ walk = NoWalk
    /\ answer' \in Answers(page, pageSize)
    /\ UNCHANGED <<now, createdAt, walk>>

(* The statement fails, or its context ends before the rows are read.      *)
ListFails ==
    /\ answer # [status |-> "Internal"]
    /\ answer' = [status |-> "Internal"]
    /\ UNCHANGED <<now, createdAt, walk>>

StartWalk(pageSize) ==
    /\ walk = NoWalk
    /\ ValidPagination(1, pageSize)
    /\ walk' = [page |-> 1, pageSize |-> pageSize, had |-> Stored, seen |-> << >>, over |-> FALSE]
    /\ UNCHANGED <<now, createdAt, answer>>

(* The walk ends with the page that, by its total, is the last one.        *)
WalkOn ==
    /\ walk # NoWalk /\ ~walk.over
    /\ \E a \in Answers(walk.page, walk.pageSize) :
          /\ answer' = a
          /\ walk' = IF a.status # "OK" THEN [walk EXCEPT !.over = TRUE]
                     ELSE [walk EXCEPT !.page = @ + 1, !.seen = @ \o a.bookings,
                                       !.over = a.page * a.pageSize >= a.total]
    /\ UNCHANGED <<now, createdAt>>

Next ==
    \/ \E b \in Ids, t \in 0 .. now : Store(b, t)
    \/ Tick
    \/ \E page \in Pages, pageSize \in PageSizes : List(page, pageSize)
    \/ ListFails
    \/ \E pageSize \in PageSizes : StartWalk(pageSize)
    \/ WalkOn

Spec == Init /\ [][Next]_vars

-----------------------------------------------------------------------------
(* Properties.                                                             *)

NoTies == \A b, c \in Stored : createdAt[b] = createdAt[c] => b = c
Over   == walk # NoWalk /\ walk.over

(* A walk through all pages misses no booking that was there at its start, *)
(* though bookings are stored between its requests, behind or before the   *)
(* page it is at: they only push the others on.  Bookings of one           *)
(* microsecond are excepted, which the statement leaves unordered.         *)
WalkMissesNothing ==
    Over /\ NoTies => walk.had \subseteq {walk.seen[i] : i \in DOMAIN walk.seen}

(* Nothing is seen twice unless something was stored meanwhile.            *)
WalkRepeatsNothing ==
    Over /\ NoTies /\ Stored = walk.had =>
        \A i, j \in DOMAIN walk.seen : walk.seen[i] = walk.seen[j] => i = j

-----------------------------------------------------------------------------
(* A statement of the documentation that the code does not keep.           *)

(* api.yaml:217: total is the number of all records.                       *)
TotalCountsAll ==
    [][answer'.status = "OK" => answer'.total = Cardinality(Stored)]_answer
=============================================================================
