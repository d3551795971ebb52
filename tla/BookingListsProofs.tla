------------------------- MODULE BookingListsProofs -------------------------
(***************************************************************************)
(* Theorems about BookingLists, for any set of bookings that an int can    *)
(* count, any pages, sizes and limits, and any range of the clock.         *)
(*                                                                         *)
(* The place of a booking in the list is its Rank, the number of bookings  *)
(* that are no older.  Ranks only grow while bookings are stored, so that  *)
(* a booking not yet seen is always at or behind the page a walk is at.    *)
(***************************************************************************)
EXTENDS BookingLists, FiniteSetTheorems, SequenceTheorems, TLAPS

-----------------------------------------------------------------------------
(* The inductive invariant.                                                *)

Rank(b) == Cardinality({c \in Stored : createdAt[c] >= createdAt[b]})

Walks == [page : Nat \ {0}, pageSize : Int, had : SUBSET Stored, seen : Seq(Stored), over : BOOLEAN]

TypeOK ==
    /\ now \in Nat
    /\ Stored \subseteq Ids
    /\ createdAt \in [Stored -> Nat]
    /\ walk \in {NoWalk} \cup Walks

Size == NormalSize(walk.pageSize)
Gone == (walk.page - 1) * Size
Seen == {walk.seen[i] : i \in DOMAIN walk.seen}

(* A walk that goes on has bookings ahead of it, or has just begun, so     *)
(* that its offset is a number of bookings and fits an int.                *)
PlaceInv ==
    walk # NoWalk =>
        /\ Size \in 1 .. MaxPageSize
        /\ walk.over \/ walk.page = 1 \/ Gone < Cardinality(Stored)

(* What was there and is not yet seen is ahead.                            *)
MissInv ==
    walk # NoWalk /\ NoTies =>
        \A b \in walk.had : b \in Seen \/ (~walk.over /\ Gone < Rank(b))

(* With nothing new, what is seen is the list from its beginning.          *)
RepeatInv ==
    walk # NoWalk /\ NoTies /\ Stored = walk.had =>
        /\ \A i \in DOMAIN walk.seen : Rank(walk.seen[i]) = i
        /\ ~walk.over => Len(walk.seen) = Gone

Inv == TypeOK /\ PlaceInv /\ MissInv /\ RepeatInv

-----------------------------------------------------------------------------
(* Ranks.                                                                  *)

LEMMA StoredIsFinite ==
    ASSUME TypeOK
    PROVE  /\ IsFiniteSet(Stored) /\ Cardinality(Stored) \in Nat
           /\ Cardinality(Stored) <= MaxInt
  <1>1. IsFiniteSet(Ids) /\ Cardinality(Ids) <= MaxInt /\ Stored \subseteq Ids /\ MaxInt \in Nat
    BY ConstantsAssumption DEF TypeOK
  <1>2. IsFiniteSet(Stored) /\ Cardinality(Stored) <= Cardinality(Ids)
    BY <1>1, FS_Subset
  <1>3. Cardinality(Stored) \in Nat /\ Cardinality(Ids) \in Nat
    BY <1>1, <1>2, FS_CardinalityType
  <1> QED BY <1>1, <1>2, <1>3

LEMMA RankBounds ==
    ASSUME TypeOK, NEW b
    PROVE  Rank(b) \in Nat /\ Rank(b) <= Cardinality(Stored)
  <1>1. {c \in Stored : createdAt[c] >= createdAt[b]} \subseteq Stored
    OBVIOUS
  <1> QED BY <1>1, StoredIsFinite, FS_Subset, FS_CardinalityType DEF Rank

(* A sequence of NewestFirst holds each booking once.                      *)
LEMMA OrderShape ==
    ASSUME TypeOK, NEW s \in NewestFirst
    PROVE  /\ s \in [1 .. Cardinality(Stored) -> Stored]
           /\ s \in Seq(Stored) /\ Len(s) = Cardinality(Stored)
           /\ \A i, j \in 1 .. Cardinality(Stored) : i # j => s[i] # s[j]
           /\ \A i, j \in 1 .. Cardinality(Stored) : i < j => createdAt[s[i]] >= createdAt[s[j]]
           /\ \A b \in Stored : \E i \in 1 .. Cardinality(Stored) : s[i] = b
  <1> DEFINE N == Cardinality(Stored)
  <1>1. N \in Nat /\ IsFiniteSet(Stored)
    BY StoredIsFinite
  <1>2. /\ s \in [1 .. N -> Stored]
        /\ \A i, j \in 1 .. N : i # j => s[i] # s[j]
        /\ \A i, j \in DOMAIN s : i < j => createdAt[s[i]] >= createdAt[s[j]]
    BY DEF NewestFirst, SetToSeqs
  <1>3. s \in Injection(1 .. N, Stored)
    BY <1>2 DEF Injection, IsInjective
  <1>4. Cardinality(1 .. N) = N
    BY <1>1, FS_Interval
  <1>5. s \in Surjection(1 .. N, Stored)
    BY <1>1, <1>3, <1>4, FS_Injection
  <1>6. \A b \in Stored : \E i \in 1 .. N : s[i] = b
    BY <1>5 DEF Surjection
  <1> HIDE DEF N
  <1>7. s \in Seq(Stored) /\ Len(s) = N
    BY <1>1, <1>2
  <1> QED BY <1>2, <1>6, <1>7 DEF N

(* Without ties the place of a booking in any of them is its rank.         *)
LEMMA RankIsPlace ==
    ASSUME TypeOK, NoTies, NEW s \in NewestFirst, NEW i \in 1 .. Cardinality(Stored)
    PROVE  Rank(s[i]) = i
  <1> DEFINE N == Cardinality(Stored)
             front == {c \in Stored : createdAt[c] >= createdAt[s[i]]}
             f == [j \in 1 .. i |-> s[j]]
  <1>1. N \in Nat /\ i \in 1 .. N
    BY StoredIsFinite
  <1>2. /\ s \in [1 .. N -> Stored]
        /\ \A j, k \in 1 .. N : j # k => s[j] # s[k]
        /\ \A j, k \in 1 .. N : j < k => createdAt[s[j]] >= createdAt[s[k]]
        /\ \A b \in Stored : \E j \in 1 .. N : s[j] = b
    BY OrderShape
  <1>3. \A b \in Stored : createdAt[b] \in Nat
    BY DEF TypeOK
  <1> HIDE DEF N
  <1>4. \A j \in 1 .. i : j \in 1 .. N
    BY <1>1
  <1>5. \A j \in 1 .. i : s[j] \in front
    <2> SUFFICES ASSUME NEW j \in 1 .. i PROVE s[j] \in front
      OBVIOUS
    <2>1. CASE j = i
      BY <2>1, <1>1, <1>2, <1>3
    <2>2. CASE j < i
      BY <2>2, <1>1, <1>2, <1>4
    <2> QED BY <2>1, <2>2, <1>1
  <1>6. \A c \in front : \E j \in 1 .. i : s[j] = c
    <2> SUFFICES ASSUME NEW c \in front PROVE \E j \in 1 .. i : s[j] = c
      OBVIOUS
    <2>1. PICK j \in 1 .. N : s[j] = c
      BY <1>2
    <2>2. CASE i < j
      <3>1. createdAt[s[i]] >= createdAt[s[j]] /\ createdAt[s[j]] >= createdAt[s[i]]
        BY <2>1, <2>2, <1>1, <1>2
      <3>2. createdAt[s[i]] = createdAt[s[j]]
        BY <3>1, <1>1, <1>2, <1>3
      <3>3. s[i] = s[j]
        BY <3>2, <1>1, <1>2 DEF NoTies
      <3> QED BY <3>3, <2>2, <1>1, <1>2
    <2>3. CASE ~(i < j)
      BY <2>1, <2>3, <1>1
    <2> QED BY <2>2, <2>3
  <1>7. f \in Bijection(1 .. i, front)
    <2>1. f \in [1 .. i -> front]
      BY <1>5
    <2>2. \A j, k \in 1 .. i : f[j] = f[k] => j = k
      BY <1>2, <1>4
    <2>3. \A c \in front : \E j \in 1 .. i : f[j] = c
      BY <1>6
    <2> HIDE DEF f, front
    <2> QED BY <2>1, <2>2, <2>3 DEF Bijection, Injection, Surjection, IsInjective
  <1>8. IsFiniteSet(1 .. i) /\ Cardinality(1 .. i) = i
    BY <1>1, FS_Interval
  <1>9. Cardinality(front) = i
    <2> HIDE DEF f, front
    <2> QED BY <1>7, <1>8, FS_Bijection DEF ExistsBijection
  <1> QED BY <1>9 DEF Rank

-----------------------------------------------------------------------------
(* A page of a walk.                                                       *)

LEMMA WrapFits ==
    ASSUME NEW n \in 0 .. MaxInt
    PROVE  Wrap(n) = n
  <1> DEFINE a == n + MaxInt + 1
             b == 2 * (MaxInt + 1)
  <1>1. MaxInt \in Nat
    BY ConstantsAssumption
  <1>2. a \in Nat /\ b \in Nat \ {0} /\ a < b
    BY <1>1
  <1>3. a % b = a
    <2> HIDE DEF a, b
    <2> QED BY <1>2
  <1> QED BY <1>1, <1>3 DEF Wrap

LEMMA SizeType ==
    ASSUME Inv, walk # NoWalk
    PROVE  /\ walk \in Walks /\ walk.page \in Nat \ {0} /\ Size \in Nat \ {0}
           /\ Gone \in Nat /\ walk.page * Size = Gone + Size
  <1>1. walk \in Walks
    BY DEF Inv, TypeOK
  <1>2. walk.page \in Nat \ {0}
    BY <1>1 DEF Walks
  <1>3. Size \in Nat \ {0}
    BY ConstantsAssumption DEF Inv, PlaceInv
  <1>4. \A p, n \in Nat \ {0} : (p - 1) * n \in Nat /\ p * n = (p - 1) * n + n
    OBVIOUS
  <1> QED BY <1>1, <1>2, <1>3, <1>4 DEF Gone

(* The offset of a page that a walk asks for fits an int.                  *)
LEMMA OffsetIsGone ==
    ASSUME Inv, walk # NoWalk, ~walk.over
    PROVE  Offset(walk.page, Size) = Gone
  <1>1. Gone \in Nat /\ walk.page \in Nat \ {0} /\ Size \in Nat \ {0}
    BY SizeType
  <1>2. Cardinality(Stored) \in Nat /\ Cardinality(Stored) <= MaxInt /\ MaxInt \in Nat
    BY StoredIsFinite, ConstantsAssumption DEF Inv
  <1>3. Gone = 0 \/ Gone < Cardinality(Stored)
    BY <1>1 DEF Inv, PlaceInv, Gone
  <1>4. Gone \in 0 .. MaxInt
    BY <1>1, <1>2, <1>3
  <1> QED BY <1>4, WrapFits DEF Offset, Gone

(* The answer to a walk: the bookings after those of the pages before.     *)
LEMMA PageShape ==
    ASSUME Inv, walk # NoWalk, ~walk.over, NEW a \in Answers(walk.page, walk.pageSize)
    PROVE  /\ a.status = "OK" /\ a.page = walk.page /\ a.pageSize = Size
           /\ a.total = IF a.bookings = << >> THEN 0 ELSE Cardinality(Stored)
           /\ \E s \in NewestFirst : a.bookings = Slice(s, Size, Gone)
  <1>1. walk.page \in Nat \ {0} /\ Gone \in Nat
    BY SizeType
  <1>2. NormalPage(walk.page) = walk.page
    BY <1>1 DEF NormalPage
  <1>3. ValidPagination(walk.page, walk.pageSize)
    BY <1>1, <1>2 DEF ValidPagination, Inv, PlaceInv, Size
  <1>4. ~(Offset(walk.page, Size) < 0)
    BY <1>1, OffsetIsGone
  <1>5. PICK rows \in {Slice(s, Size, Gone) : s \in NewestFirst} :
            a = [status |-> "OK", page |-> walk.page, pageSize |-> Size, bookings |-> rows,
                 total |-> Total(rows)]
    BY <1>2, <1>3, <1>4, OffsetIsGone DEF Answers, Size
  <1> QED BY <1>5 DEF Total

(* The rows after the first offset ones, at most n.                        *)
AreRows(rows, s, n, offset) ==
    LET N == Cardinality(Stored)
    IN  /\ rows \in Seq(Stored)
        /\ N <= offset => rows = << >>
        /\ offset < N => /\ rows # << >>
                         /\ Len(rows) = IF offset + n < N THEN n ELSE N - offset
        /\ \A i \in 1 .. Len(rows) : offset + i \in 1 .. N /\ rows[i] = s[offset + i]
        /\ \A i \in 1 .. N : offset < i /\ i <= offset + n =>
              \E j \in 1 .. Len(rows) : rows[j] = s[i]

LEMMA SliceShape ==
    ASSUME TypeOK, NEW s \in NewestFirst, NEW n \in Nat \ {0}, NEW offset \in Nat
    PROVE  AreRows(Slice(s, n, offset), s, n, offset)
  <1> DEFINE N    == Cardinality(Stored)
             last == IF offset + n < N THEN offset + n ELSE N
             rows == Slice(s, n, offset)
  <1>1. N \in Nat /\ s \in [1 .. N -> Stored] /\ Len(s) = N
    BY StoredIsFinite, OrderShape
  <1> HIDE DEF N
  <1>2. last \in Nat /\ last <= N
    BY <1>1
  <1>3. \A i \in offset + 1 .. last : s[i] \in Stored
    BY <1>1, <1>2
  <1>4. rows = SubSeq(s, offset + 1, last)
    BY <1>1 DEF Slice, N
  <1> HIDE DEF rows
  <1>5. /\ rows \in Seq(Stored)
        /\ Len(rows) = IF offset + 1 <= last THEN last - (offset + 1) + 1 ELSE 0
        /\ \A i \in 1 .. last - (offset + 1) + 1 : rows[i] = s[(offset + 1) + i - 1]
    <2> HIDE DEF last
    <2> QED BY <1>2, <1>3, <1>4, SubSeqProperties
  <1>6. N <= offset => rows = << >>
    BY <1>1, <1>5
  <1>7. offset < N => Len(rows) = (IF offset + n < N THEN n ELSE N - offset) /\ rows # << >>
    BY <1>1, <1>5
  <1>8. \A i \in 1 .. Len(rows) : offset + i \in 1 .. N /\ rows[i] = s[offset + i]
    BY <1>1, <1>5
  <1>9. \A i \in 1 .. N : offset < i /\ i <= offset + n => \E j \in 1 .. Len(rows) : rows[j] = s[i]
    <2> SUFFICES ASSUME NEW i \in 1 .. N, offset < i, i <= offset + n
                 PROVE  \E j \in 1 .. Len(rows) : rows[j] = s[i]
      OBVIOUS
    <2>1. i - offset \in 1 .. Len(rows) /\ offset + (i - offset) = i
      BY <1>1, <1>5
    <2> QED BY <2>1, <1>8
  <1> QED BY <1>5, <1>6, <1>7, <1>8, <1>9 DEF AreRows, N, rows

-----------------------------------------------------------------------------
(* The steps.                                                              *)

LEMMA Starts == Init => Inv
  <1> SUFFICES ASSUME Init PROVE Inv
    OBVIOUS
  <1>1. Stored = {} /\ createdAt \in [Stored -> Nat]
    BY DEF Init, Stored
  <1>2. TypeOK
    BY <1>1 DEF Init, TypeOK
  <1> QED BY <1>2 DEF Init, Inv, PlaceInv, MissInv, RepeatInv

(* A booking that is stored leaves the others in their order and can only  *)
(* push them back.                                                         *)
LEMMA StoreKeeps ==
    ASSUME TypeOK, NEW b \in Ids, NEW t \in 0 .. now, Store(b, t)
    PROVE  /\ TypeOK'
           /\ Stored' = Stored \cup {b} /\ b \notin Stored
           /\ NoTies' => NoTies
           /\ Cardinality(Stored) <= Cardinality(Stored)'
           /\ \A x \in Stored : Rank(x) <= Rank(x)'
  <1>1. /\ Stored' = Stored \cup {b} /\ b \notin Stored
        /\ \A x \in Stored : createdAt'[x] = createdAt[x]
        /\ createdAt' \in [Stored' -> Nat]
    BY DEF Store, Stored, TypeOK
  <1>2. TypeOK'
    <2>1. walk' \in {NoWalk} \cup Walks'
      <3>1. Seq(Stored) \subseteq Seq(Stored')
        BY <1>1, SeqMonotonic
      <3> QED BY <1>1, <3>1 DEF Store, TypeOK, Walks
    <2> QED BY <1>1, <2>1 DEF Store, TypeOK
  <1>3. NoTies' => NoTies
    BY <1>1 DEF NoTies
  <1>4. IsFiniteSet(Stored) /\ IsFiniteSet(Stored')
    BY <1>2, StoredIsFinite, <1>1, FS_AddElement
  <1>5. Cardinality(Stored) <= Cardinality(Stored')
    BY <1>1, <1>4, FS_Subset
  <1>6. ASSUME NEW x \in Stored
        PROVE  Rank(x) <= Rank(x)'
    <2> DEFINE before == {c \in Stored : createdAt[c] >= createdAt[x]}
               after  == {c \in Stored' : createdAt'[c] >= createdAt'[x]}
    <2>1. before \subseteq after
      BY <1>1
    <2>2. IsFiniteSet(after)
      <3>1. after \subseteq Stored'
        OBVIOUS
      <3> QED BY <1>4, <3>1, FS_Subset
    <2>3. Cardinality(before) <= Cardinality(after)
      <3> HIDE DEF before, after
      <3> QED BY <2>1, <2>2, FS_Subset
    <2> QED BY <2>3 DEF Rank
  <1> QED BY <1>1, <1>2, <1>3, <1>5, <1>6

LEMMA StoreStep ==
    ASSUME Inv, NEW b \in Ids, NEW t \in 0 .. now, Store(b, t)
    PROVE  Inv'
  <1> USE DEF Inv
  <1>1. UNCHANGED walk /\ (walk # NoWalk => walk \in Walks)
    BY DEF Store, TypeOK
  <1>2. UNCHANGED <<Size, Gone, Seen>>
    BY <1>1 DEF Size, Gone, Seen
  <1>3. walk # NoWalk => walk.had \subseteq Stored
    BY <1>1 DEF Walks
  <1>4. TypeOK'
    BY StoreKeeps
  <1>5. PlaceInv'
    <2>1. Cardinality(Stored) \in Nat /\ Cardinality(Stored)' \in Nat
      BY <1>4, StoredIsFinite, StoreKeeps, FS_AddElement, FS_CardinalityType
    <2> QED BY <1>1, <1>2, <2>1, StoreKeeps, SizeType DEF PlaceInv
  <1>6. MissInv'
    <2> SUFFICES ASSUME walk # NoWalk, NoTies', NEW x \in walk.had, x \notin Seen
                 PROVE  ~walk.over /\ Gone < Rank(x)'
      BY <1>1, <1>2 DEF MissInv
    <2>1. ~walk.over /\ Gone < Rank(x)
      BY StoreKeeps DEF MissInv
    <2>2. Rank(x) <= Rank(x)'
      BY <1>3, StoreKeeps
    <2>3. Gone \in Nat /\ Rank(x) \in Nat
      BY SizeType, RankBounds
    <2>4. Rank(x)' \in Nat
      <3> DEFINE after == {c \in Stored' : createdAt'[c] >= createdAt'[x]}
      <3>1. after \subseteq Stored' /\ IsFiniteSet(Stored')
        BY StoreKeeps, StoredIsFinite, FS_AddElement
      <3>2. Cardinality(after) \in Nat
        BY <3>1, FS_Subset, FS_CardinalityType
      <3> QED BY <3>2 DEF Rank
    <2> QED BY <2>1, <2>2, <2>3, <2>4
  <1>7. RepeatInv'
    BY <1>1, <1>3, StoreKeeps DEF RepeatInv
  <1> QED BY <1>4, <1>5, <1>6, <1>7

(* A page of a walk: the bookings at its places are seen, and if it is the *)
(* last, there are no others.                                              *)
LEMMA WalkStep ==
    ASSUME Inv, WalkOn
    PROVE  Inv'
  <1> DEFINE N == Cardinality(Stored)
             n == Size
             g == Gone
  <1>1. walk # NoWalk /\ ~walk.over /\ UNCHANGED <<now, createdAt>>
    BY DEF WalkOn
  <1>2. PICK a \in Answers(walk.page, walk.pageSize) :
            walk' = IF a.status # "OK" THEN [walk EXCEPT !.over = TRUE]
                    ELSE [walk EXCEPT !.page = @ + 1, !.seen = @ \o a.bookings,
                                      !.over = a.page * a.pageSize >= a.total]
    BY DEF WalkOn
  <1>3. /\ a.status = "OK" /\ a.page = walk.page /\ a.pageSize = n
        /\ a.total = IF a.bookings = << >> THEN 0 ELSE N
    BY <1>1, PageShape
  <1>4. PICK s \in NewestFirst : a.bookings = Slice(s, n, g)
    BY <1>1, PageShape
  <1> DEFINE rows == a.bookings
             last == walk.page * n >= a.total
  <1>5. walk' = [walk EXCEPT !.page = @ + 1, !.seen = @ \o rows, !.over = last]
    BY <1>2, <1>3
  <1>6. /\ walk \in Walks /\ walk.page \in Nat \ {0} /\ n \in Nat \ {0}
        /\ g \in Nat /\ walk.page * n = g + n
    BY <1>1, SizeType
  <1>7. N \in Nat /\ N <= MaxInt
    BY StoredIsFinite DEF Inv
  <1>8. /\ rows \in Seq(Stored)
        /\ N <= g => rows = << >>
        /\ g < N => rows # << >> /\ Len(rows) = IF g + n < N THEN n ELSE N - g
        /\ \A i \in 1 .. Len(rows) : g + i \in 1 .. N /\ rows[i] = s[g + i]
        /\ \A i \in 1 .. N : g < i /\ i <= g + n => \E j \in 1 .. Len(rows) : rows[j] = s[i]
    <2>1. n \in Nat \ {0} /\ g \in Nat
      BY <1>6
    <2>2. AreRows(Slice(s, n, g), s, n, g)
      <3> HIDE DEF n, g
      <3> QED BY <2>1, SliceShape DEF Inv
    <2>3. AreRows(rows, s, n, g)
      BY <1>4, <2>2
    <2> HIDE DEF n, g, rows
    <2> QED BY <2>3 DEF AreRows
  <1>9. last <=> N <= g + n
    BY <1>3, <1>6, <1>7, <1>8
  <1>10. walk.seen \in Seq(Stored) /\ walk.had \subseteq Stored
    BY <1>6 DEF Walks
  <1> HIDE DEF N, n, g, rows, last
  <1>11. /\ walk.seen \o rows \in Seq(Stored)
         /\ Len(walk.seen \o rows) = Len(walk.seen) + Len(rows)
         /\ \A i \in 1 .. Len(walk.seen) + Len(rows) : (walk.seen \o rows)[i] =
                IF i <= Len(walk.seen) THEN walk.seen[i] ELSE rows[i - Len(walk.seen)]
    BY <1>8, <1>10, ConcatProperties
  <1>12. last \in BOOLEAN
    BY DEF last
  <1>13. /\ walk' \in Walks /\ walk' # NoWalk
         /\ walk'.page = walk.page + 1 /\ walk'.pageSize = walk.pageSize /\ walk'.had = walk.had
         /\ walk'.seen = walk.seen \o rows /\ walk'.over = last
    <2>1. /\ walk'.page = walk.page + 1 /\ walk'.pageSize = walk.pageSize /\ walk'.had = walk.had
          /\ walk'.seen = walk.seen \o rows /\ walk'.over = last
      BY <1>5, <1>6 DEF Walks
    <2>2. walk.page + 1 \in Nat \ {0}
      BY <1>6
    <2>3. walk' \in Walks
      BY <1>5, <1>6, <1>11, <1>12, <2>2 DEF Walks
    <2>4. walk' # NoWalk
      BY <2>1, <2>2 DEF NoWalk
    <2> QED BY <2>1, <2>3, <2>4
  <1>14. UNCHANGED <<Stored, NoTies>> /\ \A b : Rank(b)' = Rank(b)
    BY <1>1 DEF Stored, NoTies, Rank
  <1>15. Size' = n /\ Gone' = g + n
    <2>1. Size' = n
      BY <1>13 DEF Size, n
    <2>2. Gone' = ((walk.page + 1) - 1) * n
      BY <1>13, <2>1 DEF Gone
    <2>3. (walk.page + 1) - 1 = walk.page
      BY <1>6
    <2> QED BY <2>1, <2>2, <2>3, <1>6
  <1>16. TypeOK'
    BY <1>1, <1>13, <1>14 DEF Inv, TypeOK, Walks
  <1>17. PlaceInv'
    BY <1>1, <1>6, <1>7, <1>9, <1>13, <1>14, <1>15 DEF Inv, PlaceInv, n, N
  <1>18. MissInv'
    <2> SUFFICES ASSUME NoTies, NEW b \in walk.had, b \notin Seen'
                 PROVE  ~last /\ g + n < Rank(b)
      BY <1>13, <1>14, <1>15 DEF MissInv
    <2>1. Seen \subseteq Seen'
      <3> SUFFICES ASSUME NEW i \in DOMAIN walk.seen
                   PROVE  \E j \in DOMAIN (walk.seen \o rows) : (walk.seen \o rows)[j] = walk.seen[i]
        BY <1>13 DEF Seen
      <3>1. i \in 1 .. Len(walk.seen) /\ Len(walk.seen) \in Nat /\ Len(rows) \in Nat
        BY <1>8, <1>10
      <3>2. i \in DOMAIN (walk.seen \o rows) /\ (walk.seen \o rows)[i] = walk.seen[i]
        BY <1>11, <3>1
      <3> QED BY <3>2
    <2>2. g < Rank(b) /\ Rank(b) \in Nat /\ Rank(b) <= N
      BY <1>1, <2>1, RankBounds DEF Inv, MissInv, g, N
    <2>3. PICK i \in 1 .. N : s[i] = b
      BY <1>10, OrderShape DEF Inv, N
    <2>4. Rank(b) = i
      BY <2>3, RankIsPlace DEF Inv, N
    <2>5. ~(i <= g + n)
      <3> SUFFICES ASSUME i <= g + n PROVE FALSE
        OBVIOUS
      <3>1. PICK j \in 1 .. Len(rows) : rows[j] = b
        BY <1>8, <2>2, <2>3, <2>4
      <3>2. Len(walk.seen) \in Nat /\ Len(rows) \in Nat
        BY <1>8, <1>10
      <3>3. Len(walk.seen) + j \in DOMAIN (walk.seen \o rows)
        BY <1>11, <3>2
      <3>4. (walk.seen \o rows)[Len(walk.seen) + j] = b
        BY <1>11, <3>1, <3>2
      <3> QED BY <1>13, <3>3, <3>4 DEF Seen
    <2> QED BY <1>6, <1>7, <1>9, <2>2, <2>4, <2>5
  <1>19. RepeatInv'
    <2> SUFFICES ASSUME NoTies, Stored = walk.had
                 PROVE  /\ \A i \in 1 .. Len(walk.seen) + Len(rows) : Rank((walk.seen \o rows)[i]) = i
                        /\ ~last => Len(walk.seen) + Len(rows) = g + n
      BY <1>11, <1>13, <1>14, <1>15 DEF RepeatInv
    <2>1. /\ \A i \in 1 .. Len(walk.seen) : Rank(walk.seen[i]) = i
          /\ Len(walk.seen) = g
      BY <1>1, <1>10 DEF Inv, RepeatInv, g
    <2>2. Len(rows) \in Nat
      BY <1>8
    <2>3. ASSUME NEW i \in 1 .. Len(rows)
          PROVE  Rank(rows[i]) = g + i
      BY <1>8, RankIsPlace DEF Inv, N
    <2>4. ASSUME NEW i \in 1 .. Len(walk.seen) + Len(rows)
          PROVE  Rank((walk.seen \o rows)[i]) = i
      <3>1. CASE i <= Len(walk.seen)
        BY <1>6, <1>11, <2>1, <2>2, <3>1
      <3>2. CASE ~(i <= Len(walk.seen))
        <4>1. i - g \in 1 .. Len(rows) /\ g + (i - g) = i
          BY <1>6, <2>1, <2>2, <3>2
        <4>2. (walk.seen \o rows)[i] = rows[i - g]
          BY <1>11, <2>1, <3>2
        <4> QED BY <2>3, <4>1, <4>2
      <3> QED BY <3>1, <3>2
    <2>5. ~last => Len(rows) = n
      <3>1. ~last => g < N /\ g + n < N
        BY <1>6, <1>7, <1>9
      <3> QED BY <1>8, <3>1
    <2> QED BY <2>1, <2>4, <2>5
  <1> QED BY <1>16, <1>17, <1>18, <1>19 DEF Inv

LEMMA StartWalkStep ==
    ASSUME Inv, NEW pageSize \in PageSizes, StartWalk(pageSize)
    PROVE  Inv'
  <1> DEFINE x == [page |-> 1, pageSize |-> pageSize, had |-> Stored, seen |-> << >>, over |-> FALSE]
  <1>1. walk' = x /\ UNCHANGED <<now, createdAt>> /\ ValidPagination(1, pageSize)
    BY DEF StartWalk
  <1>2. pageSize \in Int
    BY ConstantsAssumption
  <1>3. x \in Walks /\ x # NoWalk
    BY <1>2 DEF Walks, NoWalk
  <1>4. UNCHANGED <<Stored, NoTies>> /\ \A b : Rank(b)' = Rank(b)
    BY <1>1 DEF Stored, NoTies, Rank
  <1>5. TypeOK'
    BY <1>1, <1>3, <1>4 DEF Inv, TypeOK, Walks
  <1>6. Size' = NormalSize(pageSize) /\ Size' \in 1 .. MaxPageSize
    BY <1>1 DEF Size, ValidPagination
  <1>7. Gone' = 0
    BY <1>1, <1>6, ConstantsAssumption DEF Gone
  <1>8. PlaceInv'
    BY <1>1, <1>6 DEF PlaceInv
  <1>9. MissInv'
    <2> SUFFICES ASSUME NEW b \in Stored, NoTies
                 PROVE  0 < Rank(b)
      BY <1>1, <1>4, <1>7 DEF MissInv
    <2>1. b \in {c \in Stored : createdAt[c] >= createdAt[b]}
      BY DEF Inv, TypeOK
    <2>2. {c \in Stored : createdAt[c] >= createdAt[b]} \subseteq Stored /\ IsFiniteSet(Stored)
      BY StoredIsFinite DEF Inv
    <2>3. Rank(b) # 0
      BY <2>1, <2>2, FS_Subset, FS_EmptySet DEF Rank
    <2> QED BY <2>3, RankBounds DEF Inv
  <1>10. RepeatInv'
    BY <1>1, <1>7 DEF RepeatInv
  <1> QED BY <1>5, <1>8, <1>9, <1>10 DEF Inv

LEMMA Invariance == Inv /\ [Next]_vars => Inv'
  <1> SUFFICES ASSUME Inv, [Next]_vars PROVE Inv'
    OBVIOUS
  <1>1. ASSUME NEW b \in Ids, NEW t \in 0 .. now, Store(b, t)
        PROVE  Inv'
    BY <1>1, StoreStep
  <1>2. CASE WalkOn
    BY <1>2, WalkStep
  <1>3. ASSUME NEW pageSize \in PageSizes, StartWalk(pageSize)
        PROVE  Inv'
    BY <1>3, StartWalkStep
  <1>4. ASSUME UNCHANGED <<createdAt, walk>>, now' \in Nat
        PROVE  Inv'
    <2>1. UNCHANGED <<Stored, NoTies, Size, Gone, Seen, Walks>> /\ \A b : Rank(b)' = Rank(b)
      BY <1>4 DEF Stored, NoTies, Rank, Size, Gone, Seen, Walks
    <2>2. TypeOK'
      BY <1>4, <2>1 DEF Inv, TypeOK
    <2> QED BY <1>4, <2>1, <2>2 DEF Inv, PlaceInv, MissInv, RepeatInv
  <1>5. CASE Tick
    BY <1>4, <1>5 DEF Tick, Inv, TypeOK
  <1>6. ASSUME NEW page \in Pages, NEW pageSize \in PageSizes, List(page, pageSize)
        PROVE  Inv'
    BY <1>4, <1>6 DEF List, Inv, TypeOK
  <1>7. CASE ListFails
    BY <1>4, <1>7 DEF ListFails, Inv, TypeOK
  <1>8. CASE UNCHANGED vars
    BY <1>4, <1>8 DEF vars, Inv, TypeOK
  <1> QED BY <1>1, <1>2, <1>3, <1>5, <1>6, <1>7, <1>8 DEF Next

-----------------------------------------------------------------------------
(* The theorems.                                                           *)

(* The variables have their types, and a walk is where it should be.       *)
THEOREM TypeCorrect == Spec => []Inv
  BY Starts, Invariance, PTL DEF Spec

(* A walk through all pages misses no booking that was there at its start, *)
(* whatever is stored meanwhile, if no two are of one microsecond.         *)
THEOREM WalksMissNothing == Spec => []WalkMissesNothing
  <1>1. Inv => WalkMissesNothing
    BY DEF Inv, MissInv, WalkMissesNothing, Over, Seen
  <1> QED BY <1>1, TypeCorrect, PTL

(* Nothing is seen twice on a walk unless something was stored meanwhile.  *)
THEOREM WalksRepeatNothing == Spec => []WalkRepeatsNothing
  <1>1. Inv => WalkRepeatsNothing
    <2> SUFFICES ASSUME Inv, Over, NoTies, Stored = walk.had, NEW i \in DOMAIN walk.seen,
                        NEW j \in DOMAIN walk.seen, walk.seen[i] = walk.seen[j]
                 PROVE  i = j
      BY DEF WalkRepeatsNothing
    <2>1. Rank(walk.seen[i]) = i /\ Rank(walk.seen[j]) = j
      BY DEF Inv, RepeatInv, Over
    <2> QED BY <2>1
  <1> QED BY <1>1, TypeCorrect, PTL
=============================================================================
