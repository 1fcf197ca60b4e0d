----------------------------- MODULE AccountProofs -----------------------------
(***************************************************************************)
(* The budget ledger implements the spending account: a refinement proof   *)
(* for every value of the constants.                                       *)
(***************************************************************************)
EXTENDS ReservationsProofs

(* The two sums the refinement mapping takes.                               *)
Held(c)  == Total(ActiveAt(c, clock))
Spent(c) == Total(OnTime(c, clock))

(* No commit is stamped in the future.                                      *)
StampsPast ==
  \A r \in Issued : rows[r].status = "COMMITTED" => rows[r].committedAt <= clock

-------------------------------------------------------------------------------
(* Exact sums *)

(* The reservations summed as held and as spent are finitely many.          *)
LEMMA SumsFinite ==
  ASSUME NEW c, NEW t
  PROVE  IsFiniteSet(ActiveAt(c, t)) /\ IsFiniteSet(OnTime(c, t))
<1>1. ActiveAt(c, t) \in SUBSET Ids /\ OnTime(c, t) \in SUBSET Ids
  BY DEF ActiveAt, OnTime, Issued
<1>. QED
  BY <1>1, IdsAssumption, FS_Subset

(* What a contract has held and spent are amounts of money.                 *)
LEMMA SumsTyped ==
  ASSUME NEW c
  PROVE  Held(c) \in Nat /\ Spent(c) \in Nat
<1>1. /\ Held(c) = Cardinality(RupeesOf(rows, ActiveAt(c, clock)))
      /\ Spent(c) = Cardinality(RupeesOf(rows, OnTime(c, clock)))
  BY DEF Held, Spent, Total, Rupees, RupeesOf
<1>. QED
  BY <1>1, SumsFinite, RupeesFinite

(* The same, after a step.                                                  *)
LEMMA SumsAfter ==
  ASSUME NEW c
  PROVE  /\ Held(c)' = Cardinality(RupeesOf(rows', ActiveAt(c, clock)'))
         /\ Spent(c)' = Cardinality(RupeesOf(rows', OnTime(c, clock)'))
         /\ Held(c) = Cardinality(RupeesOf(rows, ActiveAt(c, clock)))
         /\ Spent(c) = Cardinality(RupeesOf(rows, OnTime(c, clock)))
         /\ IsFiniteSet(ActiveAt(c, clock)')
         /\ IsFiniteSet(OnTime(c, clock)')
         /\ Held(c)' \in Nat
         /\ Spent(c)' \in Nat
<1>1. /\ Held(c)' = Cardinality(RupeesOf(rows', ActiveAt(c, clock)'))
      /\ Spent(c)' = Cardinality(RupeesOf(rows', OnTime(c, clock)'))
      /\ Held(c) = Cardinality(RupeesOf(rows, ActiveAt(c, clock)))
      /\ Spent(c) = Cardinality(RupeesOf(rows, OnTime(c, clock)))
  BY DEF Held, Spent, Total, Rupees, RupeesOf
<1>2. ActiveAt(c, clock)' \in SUBSET Ids /\ OnTime(c, clock)' \in SUBSET Ids
  BY DEF ActiveAt, OnTime, Issued
<1>3. IsFiniteSet(ActiveAt(c, clock)') /\ IsFiniteSet(OnTime(c, clock)')
  BY <1>2, IdsAssumption, FS_Subset
<1>. QED
  BY <1>1, <1>3, RupeesFinite

(* The same reservations at the same amounts hold the same money.           *)
LEMMA SameRupees ==
  ASSUME NEW R1, NEW R2, NEW S,
         \A r \in S : R1[r].amount = R2[r].amount
  PROVE  Cardinality(RupeesOf(R1, S)) = Cardinality(RupeesOf(R2, S))
<1>1. RupeesOf(R1, S) = RupeesOf(R2, S)
  BY DEF RupeesOf
<1>. QED
  BY <1>1

(* One more reservation holds its amount more.                              *)
LEMMA OneMore ==
  ASSUME NEW R, NEW S, NEW r, IsFiniteSet(S), r \notin S, R[r].amount \in Amounts
  PROVE  Cardinality(RupeesOf(R, S \cup {r}))
           = Cardinality(RupeesOf(R, S)) + R[r].amount
<1>1. RupeesOf(R, S \cup {r}) = RupeesOf(R, S) \cup RupeesOf(R, {r})
  BY DEF RupeesOf
<1>2. RupeesOf(R, S) \cap RupeesOf(R, {r}) = {}
  BY DEF RupeesOf
<1>3. IsFiniteSet({r})
  BY FS_Singleton
<1>4. /\ IsFiniteSet(RupeesOf(R, S)) /\ IsFiniteSet(RupeesOf(R, {r}))
      /\ Cardinality(RupeesOf(R, S)) \in Nat
      /\ Cardinality(RupeesOf(R, {r})) \in Nat
  BY <1>3, RupeesFinite
<1>5. Cardinality(RupeesOf(R, S) \cup RupeesOf(R, {r}))
        = Cardinality(RupeesOf(R, S)) + Cardinality(RupeesOf(R, {r}))
            - Cardinality(RupeesOf(R, S) \cap RupeesOf(R, {r}))
  BY <1>4, FS_Union, Zenon
<1>6. Cardinality(RupeesOf(R, S) \cap RupeesOf(R, {r})) = 0
  BY <1>2, FS_EmptySet
<1>7. Cardinality(RupeesOf(R, {r})) = R[r].amount
  BY SingleRupees
<1>. DEFINE m == Cardinality(RupeesOf(R, S))
            n == R[r].amount
<1>8. m \in Nat /\ n \in Nat
  BY <1>4, <1>7
<1>9. Cardinality(RupeesOf(R, S \cup {r})) = m + n - 0
  BY <1>1, <1>5, <1>6, <1>7
<1>. HIDE DEF m, n
<1>10. m + n - 0 = m + n
  BY <1>8
<1>. QED
  BY <1>9, <1>10 DEF m, n

-------------------------------------------------------------------------------
(* What each operation does to the two sums *)

(* A contract none of whose rows change keeps its sums.                     *)
LEMMA OthersKept ==
  ASSUME TypeOK, NEW r \in Ids, NEW c \in Contracts, clock' = clock,
         \A q \in Ids \ {r} : /\ rows'[q] = rows[q]
                              /\ q \in late' <=> q \in late,
         r \in Issued => rows[r].contract # c,
         r \in Issued' => rows'[r].contract # c
  PROVE  Held(c)' = Held(c) /\ Spent(c)' = Spent(c)
<1>1. ActiveAt(c, clock)' = ActiveAt(c, clock)
  BY DEF ActiveAt, Issued
<1>2. OnTime(c, clock)' = OnTime(c, clock)
  BY DEF OnTime, Issued, WindowStart
<1>3. /\ \A q \in ActiveAt(c, clock) : rows'[q].amount = rows[q].amount
      /\ \A q \in OnTime(c, clock) : rows'[q].amount = rows[q].amount
  BY DEF ActiveAt, OnTime, Issued
<1>. QED
  BY <1>1, <1>2, <1>3, SumsAfter, SameRupees

(* What an admitted reservation does to the sums: it adds to the held of one*)
(* contract, no further than its limit allows.                              *)
LEMMA ReserveSums ==
  ASSUME TypeOK,
         NEW r \in Ids, NEW b \in Contracts, NEW a \in Amounts, NEW now \in Stamps,
         AtomicReserve(r, b, a, now), Fits(b, a, now)
  PROVE  /\ \A c \in Contracts : c # b => Held(c)' = Held(c)
         /\ \A c \in Contracts : Spent(c)' = Spent(c)
         /\ Held(b)' \in Held(b) .. (Cap[b] - Spent(b))
<1>1. /\ now \in Times /\ now <= clock /\ clock \in Times
      /\ now \in Nat /\ clock \in Nat
  BY BoundsAssumption DEF Stamps, TypeOK, Times
<1>2. /\ rows \in [Ids -> Row \cup {NoRow}]
      /\ rows[r] = NoRow
      /\ clock' = clock /\ late' = late
      /\ \A q \in Ids \ {r} : rows'[q] = rows[q]
      /\ rows'[r] = [contract |-> b, amount |-> a, status |-> "PENDING",
                     createdAt |-> now, expiresAt |-> now + Timeout,
                     committedAt |-> 0]
  BY DEF AtomicReserve, TypeOK
<1>3. \A c \in Contracts : c # b => Held(c)' = Held(c) /\ Spent(c)' = Spent(c)
  BY <1>2, OthersKept DEF Issued
<1>4. Spent(b)' = Spent(b)
  <2>1. OnTime(b, clock)' = OnTime(b, clock)
    BY <1>2 DEF OnTime, Issued, WindowStart
  <2>2. \A q \in OnTime(b, clock) : rows'[q].amount = rows[q].amount
    BY <1>2 DEF OnTime, Issued
  <2>. QED
    BY <2>1, <2>2, SumsAfter, SameRupees
<1>. DEFINE A == ActiveAt(b, clock)
            n(R, S) == Cardinality(RupeesOf(R, S))
<1>5. r \notin A /\ \A q \in A : rows'[q].amount = rows[q].amount
  BY <1>2 DEF ActiveAt, Issued
<1>6. Held(b)' = Held(b) \/ Held(b)' = Held(b) + a
  <2>1. ActiveAt(b, clock)' = A \/ ActiveAt(b, clock)' = A \cup {r}
    BY <1>2 DEF ActiveAt, Issued
  <2>. HIDE DEF A
  <2>2. n(rows', A) = n(rows, A)
    BY <1>5, SameRupees
  <2>3. n(rows', A \cup {r}) = n(rows', A) + rows'[r].amount
    BY <1>2, <1>5, SumsFinite, OneMore DEF A
  <2>4. Held(b)' = n(rows', ActiveAt(b, clock)')
    BY SumsAfter
  <2>5. Held(b) = n(rows, A)
    BY SumsAfter DEF A
  <2>. QED
    BY <1>2, <2>1, <2>2, <2>3, <2>4, <2>5
<1>7. a + Spent(b) + Held(b) <= Cap[b]
  <2>. DEFINE C == CommittedIn(b, WindowStart(b, now))
              B == ActiveAt(b, now)
  <2>1. WindowStart(b, now) <= WindowStart(b, clock) /\ WindowStart(b, now) \in Nat
        /\ WindowStart(b, clock) \in Nat
    BY <1>1, WindowStartRoundsDown
  <2>2. ASSUME NEW q \in OnTime(b, clock) PROVE q \in C
    <3>1. q \in Issued /\ rows[q] \in Row
      BY <1>2, <2>2 DEF OnTime, Issued
    <3>2. rows[q].committedAt \in Times /\ rows[q].committedAt \in Nat
      BY <3>1, BoundsAssumption DEF Row, Times
    <3>3. rows[q].committedAt >= WindowStart(b, clock)
      BY <2>2, <3>2, WindowStartRoundsDown DEF OnTime
    <3>. QED
      BY <2>1, <2>2, <3>2, <3>3 DEF OnTime, CommittedIn
  <2>3. ASSUME NEW q \in A PROVE q \in B
    <3>1. q \in Issued /\ rows[q].expiresAt \in Nat /\ rows[q].expiresAt > clock
      BY <1>2, <2>3 DEF ActiveAt, Issued, Row
    <3>. QED
      BY <1>1, <2>3, <3>1 DEF ActiveAt
  <2>4. IsFiniteSet(C) /\ IsFiniteSet(B)
    BY QueriesFinite
  <2>5. n(rows, OnTime(b, clock)) <= n(rows, C) /\ n(rows, A) <= n(rows, B)
    BY <2>2, <2>3, <2>4, FewerRupees
  <2>6. /\ Spent(b) = n(rows, OnTime(b, clock))
        /\ Held(b) = n(rows, A)
    BY SumsAfter
  <2>7. a + n(rows, C) + n(rows, B) <= Cap[b]
    BY DEF Fits, Total, Rupees, RupeesOf
  <2>8. n(rows, C) \in Nat /\ n(rows, B) \in Nat
    BY <2>4, RupeesFinite
  <2>9. Held(b) \in Nat /\ Spent(b) \in Nat /\ a \in Nat /\ Cap[b] \in Nat
    BY SumsTyped, ContractsAssumption, BoundsAssumption DEF Amounts
  <2>. HIDE DEF n, C, B, A
  <2>. QED
    BY <2>5, <2>6, <2>7, <2>8, <2>9
<1>8. Held(b) \in Nat /\ Spent(b) \in Nat /\ a \in Nat /\ Cap[b] \in Nat
  BY SumsTyped, ContractsAssumption, BoundsAssumption DEF Amounts
<1>9. Held(b)' \in Held(b) .. (Cap[b] - Spent(b))
  BY <1>6, <1>7, <1>8
<1>. QED
  BY <1>3, <1>4, <1>9

(* Taking an active hold of contract b out of the active ones releases its  *)
(* amount.                                                                  *)
LEMMA HoldEnded ==
  ASSUME TypeOK, NEW r \in Issued, NEW b \in Contracts,
         r \in ActiveAt(b, clock),
         ActiveAt(b, clock)' = ActiveAt(b, clock) \ {r},
         \A q \in Ids \ {r} : rows'[q] = rows[q]
  PROVE  /\ rows[r].amount \in 0 .. Held(b)
         /\ Held(b)' = Held(b) - rows[r].amount
<1>. DEFINE A == ActiveAt(b, clock) \ {r}
            n(R, S) == Cardinality(RupeesOf(R, S))
<1>0. IsFiniteSet(A)
  <2>1. A \in SUBSET ActiveAt(b, clock)
    OBVIOUS
  <2>. QED
    BY <2>1, SumsFinite, FS_Subset
<1>1. /\ IsFiniteSet(A)
      /\ r \notin A
      /\ ActiveAt(b, clock) = A \cup {r}
      /\ \A q \in A : rows'[q].amount = rows[q].amount
  BY <1>0 DEF ActiveAt, Issued
<1>2. rows[r].amount \in Amounts /\ rows[r].amount \in Nat
  BY BoundsAssumption DEF TypeOK, Issued, Row, Amounts
<1>. HIDE DEF A
<1>3. n(rows, A \cup {r}) = n(rows, A) + rows[r].amount
  BY <1>1, <1>2, OneMore
<1>4. n(rows', A) = n(rows, A)
  BY <1>1, SameRupees
<1>5. Held(b) = n(rows, A \cup {r})
  BY <1>1, SumsAfter
<1>6. Held(b)' = n(rows', A)
  BY SumsAfter DEF A
<1>7. n(rows, A) \in Nat
  BY <1>1, RupeesFinite
<1>. HIDE DEF n
<1>. QED
  BY <1>2, <1>3, <1>4, <1>5, <1>6, <1>7

(* What a release does to the sums: it takes from the held of one contract. *)
LEMMA ReleaseSums ==
  ASSUME TypeOK, NEW r \in Ids, ReleaseReservation(r), rows' # rows
  PROVE  \E b \in Contracts : \E sum \in 0 .. Held(b) :
           /\ \A c \in Contracts : c # b => Held(c)' = Held(c)
           /\ \A c \in Contracts : Spent(c)' = Spent(c)
           /\ Held(b)' = Held(b) - sum
<1>0. PICK b \in Contracts : b = rows[r].contract
  <2>1. rows[r] \in Row
    BY DEF ReleaseReservation, TypeOK, Issued
  <2>. QED
    BY <2>1 DEF Row
<1>1. /\ r \in Issued /\ rows[r] \in Row
      /\ rows \in [Ids -> Row \cup {NoRow}]
      /\ rows[r].status = "PENDING"
      /\ rows'[r].status = "RELEASED"
      /\ rows'[r].contract = b
      /\ \A q \in Ids \ {r} : rows'[q] = rows[q]
      /\ clock' = clock /\ late' = late
  BY <1>0 DEF ReleaseReservation, TypeOK, Issued, Row
<1>3. \A c \in Contracts : c # b => Held(c)' = Held(c) /\ Spent(c)' = Spent(c)
  BY <1>0, <1>1, OthersKept
<1>4. Spent(b)' = Spent(b)
  <2>1. OnTime(b, clock)' = OnTime(b, clock)
    BY <1>1 DEF OnTime, Issued, WindowStart
  <2>2. \A q \in OnTime(b, clock) : rows'[q].amount = rows[q].amount
    BY <1>1 DEF OnTime, Issued
  <2>. QED
    BY <2>1, <2>2, SumsAfter, SameRupees
<1>5. CASE rows[r].expiresAt > clock
  <2>1. r \in ActiveAt(b, clock)
    BY <1>0, <1>1, <1>5 DEF ActiveAt
  <2>2. ActiveAt(b, clock)' = ActiveAt(b, clock) \ {r}
    BY <1>1 DEF ActiveAt, Issued
  <2>. QED
    BY <1>1, <1>3, <1>4, <2>1, <2>2, HoldEnded
<1>6. CASE ~(rows[r].expiresAt > clock)
  <2>1. ActiveAt(b, clock)' = ActiveAt(b, clock)
    BY <1>1, <1>6 DEF ActiveAt, Issued
  <2>2. \A q \in ActiveAt(b, clock) : rows'[q].amount = rows[q].amount
    BY <1>1, <1>6 DEF ActiveAt, Issued
  <2>3. Held(b)' = Held(b)
    BY <2>1, <2>2, SumsAfter, SameRupees
  <2>4. 0 \in 0 .. Held(b) /\ Held(b) - 0 = Held(b)
    BY SumsTyped
  <2>. QED
    BY <1>3, <1>4, <2>3, <2>4
<1>. QED
  BY <1>5, <1>6

(* What a commit does to the sums: it takes from the held of one contract   *)
(* and, when in time, adds the same to its spent.                           *)
LEMMA CommitSums ==
  ASSUME TypeOK, NEW r \in Ids, NEW now \in Stamps, CommitReservation(r, now),
         ~UNCHANGED <<rows, late>>
  PROVE  \E b \in Contracts : \E sum \in 0 .. Held(b) :
           /\ \A c \in Contracts : c # b => Held(c)' = Held(c) /\ Spent(c)' = Spent(c)
           /\ Held(b)' = Held(b) - sum
           /\ Spent(b)' = Spent(b) \/ Spent(b)' = Spent(b) + sum
<1>0. PICK b \in Contracts : b = rows[r].contract
  <2>1. rows[r] \in Row
    BY DEF CommitReservation, TypeOK, Issued
  <2>. QED
    BY <2>1 DEF Row
<1>1. /\ r \in Issued /\ rows[r] \in Row
      /\ rows \in [Ids -> Row \cup {NoRow}]
      /\ rows[r].status = "PENDING"
      /\ rows'[r].status = "COMMITTED"
      /\ rows'[r].contract = b
      /\ rows'[r].amount = rows[r].amount
      /\ rows'[r].committedAt = now
      /\ \A q \in Ids \ {r} : rows'[q] = rows[q]
      /\ late' = IF clock >= rows[r].expiresAt THEN late \cup {r} ELSE late
      /\ clock' = clock
      /\ clock \in Nat /\ rows[r].expiresAt \in Nat
  BY <1>0, BoundsAssumption DEF CommitReservation, TypeOK, Issued, Row, Times
<1>3. \A c \in Contracts : c # b => Held(c)' = Held(c) /\ Spent(c)' = Spent(c)
  BY <1>0, <1>1, OthersKept
<1>4. /\ r \notin OnTime(b, clock)
      /\ OnTime(b, clock)' \in {OnTime(b, clock), OnTime(b, clock) \cup {r}}
      /\ \A q \in OnTime(b, clock) : rows'[q].amount = rows[q].amount
  <2>1. r \notin OnTime(b, clock)
    BY <1>1 DEF OnTime
  <2>2. \A q \in Ids \ {r} : q \in OnTime(b, clock)' <=> q \in OnTime(b, clock)
    BY <1>1 DEF OnTime, Issued, WindowStart
  <2>3. OnTime(b, clock) \subseteq Ids /\ OnTime(b, clock)' \subseteq Ids
    BY DEF OnTime, Issued
  <2>. QED
    BY <1>1, <2>1, <2>2, <2>3 DEF OnTime
<1>. DEFINE n(R, S) == Cardinality(RupeesOf(R, S))
            O == OnTime(b, clock)
<1>5. CASE rows[r].expiresAt > clock
  <2>1. r \in ActiveAt(b, clock)
    BY <1>0, <1>1, <1>5 DEF ActiveAt
  <2>2. ActiveAt(b, clock)' = ActiveAt(b, clock) \ {r}
    BY <1>1 DEF ActiveAt, Issued
  <2>3. /\ rows[r].amount \in 0 .. Held(b)
        /\ Held(b)' = Held(b) - rows[r].amount
    BY <1>1, <2>1, <2>2, HoldEnded
  <2>4. rows'[r].amount \in Amounts
    BY <1>1 DEF Row
  <2>5. IsFiniteSet(O) /\ Spent(b) = n(rows, O)
        /\ Spent(b)' = n(rows', OnTime(b, clock)')
    BY SumsFinite, SumsAfter
  <2>. HIDE DEF O
  <2>6. n(rows', O) = n(rows, O)
    BY <1>4, SameRupees DEF O
  <2>7. n(rows', O \cup {r}) = n(rows', O) + rows[r].amount
    <3>1. r \notin O
      BY <1>4 DEF O
    <3>2. n(rows', O \cup {r}) = n(rows', O) + rows'[r].amount
      BY <2>4, <2>5, <3>1, OneMore
    <3>. QED
      BY <1>1, <3>2
  <2>8. Spent(b)' = Spent(b) \/ Spent(b)' = Spent(b) + rows[r].amount
    BY <1>4, <2>5, <2>6, <2>7 DEF O
  <2>. QED
    BY <1>3, <2>3, <2>8
<1>6. CASE ~(rows[r].expiresAt > clock)
  <2>1. ActiveAt(b, clock)' = ActiveAt(b, clock)
    BY <1>1, <1>6 DEF ActiveAt, Issued
  <2>2. \A q \in ActiveAt(b, clock) : rows'[q].amount = rows[q].amount
    BY <1>1, <1>6 DEF ActiveAt, Issued
  <2>3. Held(b)' = Held(b)
    BY <2>1, <2>2, SumsAfter, SameRupees
  <2>4. r \notin OnTime(b, clock)'
    BY <1>1, <1>6 DEF OnTime
  <2>5. OnTime(b, clock)' = OnTime(b, clock)
    BY <1>4, <2>4
  <2>6. Spent(b)' = Spent(b)
    BY <1>4, <2>5, SumsAfter, SameRupees
  <2>7. 0 \in 0 .. Held(b) /\ Held(b) - 0 = Held(b)
    BY SumsTyped
  <2>. QED
    BY <1>3, <2>3, <2>6, <2>7
<1>. QED
  BY <1>5, <1>6

(* What the clock does to the sums: holds may expire, and spending is       *)
(* forgotten only when a window starts.                                     *)
LEMMA TickSums ==
  ASSUME TypeOK, StampsPast, Tick, NEW c \in Contracts
  PROVE  /\ Held(c)' <= Held(c)
         /\ WindowStart(c, clock)' \in Nat
         /\ WindowStart(c, clock)' >= WindowStart(c, clock)
         /\ Spent(c)' = IF WindowStart(c, clock)' = WindowStart(c, clock)
                          THEN Spent(c) ELSE 0
<1>1. /\ rows \in [Ids -> Row \cup {NoRow}]
      /\ rows' = rows /\ late' = late
      /\ clock \in Times /\ clock' \in Times
      /\ clock \in Nat /\ clock' = clock + 1
  BY BoundsAssumption DEF Tick, TypeOK, Times
<1>2. \A q \in Issued : rows[q].expiresAt \in Nat /\ rows[q].committedAt \in Times
  BY <1>1 DEF Issued, Row
<1>3. Held(c)' <= Held(c)
  <2>1. ActiveAt(c, clock)' \subseteq ActiveAt(c, clock)
    BY <1>1, <1>2 DEF ActiveAt, Issued
  <2>2. Cardinality(RupeesOf(rows', ActiveAt(c, clock)'))
          <= Cardinality(RupeesOf(rows, ActiveAt(c, clock)))
    BY <1>1, <2>1, SumsFinite, FewerRupees
  <2>. QED
    BY <2>2, SumsAfter
<1>4. /\ WindowStart(c, clock)' = WindowStart(c, clock + 1)
      /\ WindowStart(c, clock) \in Nat
      /\ WindowStart(c, clock + 1) \in Nat
      /\ WindowStart(c, clock) <= WindowStart(c, clock + 1)
  <2>1. WindowStart(c, clock)' = WindowStart(c, clock + 1)
    BY <1>1 DEF WindowStart
  <2>2. clock + 1 \in Times /\ clock <= clock + 1
    BY <1>1
  <2>. QED
    BY <1>1, <2>1, <2>2, WindowStartRoundsDown
<1>5. CASE WindowStart(c, clock + 1) = WindowStart(c, clock)
  <2>1. OnTime(c, clock)' = OnTime(c, clock)
    BY <1>1, <1>5 DEF OnTime, Issued, WindowStart
  <2>. QED
    BY <1>1, <1>3, <1>4, <1>5, <2>1, SumsAfter
<1>6. CASE WindowStart(c, clock + 1) # WindowStart(c, clock)
  <2>1. ASSUME NEW q \in OnTime(c, clock)' PROVE FALSE
    <3>1. /\ q \in Issued
          /\ rows[q].committedAt <= clock
          /\ rows[q].committedAt \in Times
          /\ WindowStart(c, rows[q].committedAt) = WindowStart(c, clock + 1)
      BY <1>1, <1>2, <2>1 DEF OnTime, Issued, StampsPast, WindowStart
    <3>2. WindowStart(c, rows[q].committedAt) <= WindowStart(c, clock)
      BY <1>1, <3>1, WindowStartRoundsDown
    <3>. QED
      BY <1>4, <1>6, <3>1, <3>2
  <2>2. RupeesOf(rows', OnTime(c, clock)') = {}
    BY <2>1 DEF RupeesOf
  <2>3. Spent(c)' = 0
    BY <2>2, SumsAfter, FS_EmptySet
  <2>. QED
    BY <1>3, <1>4, <1>6, <2>3
<1>. QED
  BY <1>5, <1>6

-------------------------------------------------------------------------------
(* The refinement *)

(* No row is ever committed with a stamp that lies in the future.           *)
LEMMA StampsPastKept == TypeOK /\ StampsPast /\ [Next]_vars => StampsPast'
<1>. SUFFICES ASSUME TypeOK, StampsPast, [Next]_vars PROVE StampsPast'
  OBVIOUS
<1>0. /\ clock \in Nat
      /\ \A q \in Issued : rows[q] \in Row /\ rows[q].committedAt \in Nat
  BY BoundsAssumption DEF TypeOK, Times, Issued, Row
<1>1. ASSUME NEW r \in Ids, NEW c \in Contracts, NEW a \in Amounts,
             NEW now \in Stamps, AtomicReserve(r, c, a, now)
      PROVE  StampsPast'
  <2>1. \A q \in Ids \ {r} : rows'[q] = rows[q]
    BY <1>1 DEF AtomicReserve, TypeOK
  <2>2. r \in Issued' => rows'[r].status = "PENDING"
    BY <1>1 DEF AtomicReserve, TypeOK, Issued
  <2>. QED
    BY <1>1, <2>1, <2>2 DEF StampsPast, Issued, AtomicReserve
<1>2. ASSUME NEW r \in Ids, NEW now \in Stamps, CommitReservation(r, now)
      PROVE  StampsPast'
  <2>1. \A q \in Ids \ {r} : rows'[q] = rows[q]
    BY <1>2 DEF CommitReservation, TypeOK
  <2>2. rows'[r] = rows[r] \/ (rows'[r].committedAt = now /\ now <= clock)
    BY <1>0, <1>2 DEF CommitReservation, TypeOK, Issued, Row, Stamps
  <2>. QED
    BY <1>2, <2>1, <2>2 DEF StampsPast, Issued, CommitReservation
<1>3. ASSUME NEW r \in Ids, ReleaseReservation(r)
      PROVE  StampsPast'
  <2>1. \A q \in Ids \ {r} : rows'[q] = rows[q]
    BY <1>3 DEF ReleaseReservation, TypeOK
  <2>2. rows'[r] = rows[r] \/ rows'[r].status = "RELEASED"
    BY <1>0, <1>3 DEF ReleaseReservation, TypeOK, Issued, Row
  <2>. QED
    BY <1>3, <2>1, <2>2 DEF StampsPast, Issued, ReleaseReservation
<1>4. CASE Tick
  BY <1>0, <1>4 DEF Tick, StampsPast, Issued
<1>5. CASE UNCHANGED vars
  BY <1>5 DEF vars, StampsPast, Issued
<1>. QED
  BY <1>1, <1>2, <1>3, <1>4, <1>5 DEF Next

(* The variables of the account, as the mapping defines them.               *)
heldMap   == [c \in Contracts |-> Held(c)]
spentMap  == [c \in Contracts |-> Spent(c)]
windowMap == [c \in Contracts |-> WindowStart(c, clock)]

(* The empty ledger is an empty account.                                    *)
LEMMA InitAccount == Init => Account!Init
<1>. SUFFICES ASSUME Init PROVE Account!Init
  OBVIOUS
<1>1. ASSUME NEW c \in Contracts PROVE Held(c) = 0 /\ Spent(c) = 0
  <2>1. Rupees(ActiveAt(c, clock)) = {} /\ Rupees(OnTime(c, clock)) = {}
    BY DEF Init, Rupees, ActiveAt, OnTime, Issued
  <2>. QED
    BY <2>1, FS_EmptySet DEF Held, Spent, Total
<1>2. \A c \in Contracts : WindowStart(c, clock) \in Nat
  BY WindowStartRoundsDown, BoundsAssumption DEF Init, Times
<1>. QED
  BY <1>1, <1>2 DEF Account!Init, Held, Spent

(* Every step of the ledger is a step of the account or a stutter.          *)
LEMMA NextAccount ==
  TypeOK /\ StampsPast /\ [Next]_vars => [Account!Next]_(Account!vars)
<1>. SUFFICES ASSUME TypeOK, StampsPast, [Next]_vars
              PROVE  Account!Next \/ UNCHANGED Account!vars
  OBVIOUS
<1>. USE DEF heldMap, spentMap, windowMap
<1>1. ASSUME heldMap' = heldMap, spentMap' = spentMap, windowMap' = windowMap
      PROVE  UNCHANGED Account!vars
  BY <1>1 DEF Account!vars, Held, Spent
<1>2. ASSUME NEW c \in Contracts, windowMap' = windowMap, spentMap' = spentMap,
             NEW sum \in Held(c) .. (Cap[c] - Spent(c)),
             heldMap' = [heldMap EXCEPT ![c] = sum]
      PROVE  Account!Hold(c)
  BY <1>2 DEF Account!Hold, Held, Spent
<1>3. ASSUME NEW c \in Contracts, windowMap' = windowMap,
             NEW sum \in 0 .. Held(c),
             heldMap' = [heldMap EXCEPT ![c] = Held(c) - sum],
             \/ spentMap' = spentMap
             \/ spentMap' = [spentMap EXCEPT ![c] = Spent(c) + sum]
      PROVE  Account!Settle(c)
  BY <1>3 DEF Account!Settle, Held, Spent
<1>4. ASSUME UNCHANGED <<rows, clock, late>>
      PROVE  UNCHANGED Account!vars
  <2>1. \A c \in Contracts : Held(c)' = Held(c) /\ Spent(c)' = Spent(c)
    BY <1>4 DEF Held, Spent, Total, Rupees, ActiveAt, OnTime, Issued, WindowStart
  <2>2. \A c \in Contracts : WindowStart(c, clock)' = WindowStart(c, clock)
    BY <1>4 DEF WindowStart
  <2>. QED
    BY <1>1, <2>1, <2>2
<1>5. clock' = clock => windowMap' = windowMap
  BY DEF WindowStart
<1>6. ASSUME NEW r \in Ids, NEW c \in Contracts, NEW a \in Amounts,
             NEW now \in Stamps, AtomicReserve(r, c, a, now)
      PROVE  Account!Next \/ UNCHANGED Account!vars
  <2>1. CASE Fits(c, a, now)
    <3>1. /\ \A d \in Contracts : d # c => Held(d)' = Held(d)
          /\ \A d \in Contracts : Spent(d)' = Spent(d)
          /\ Held(c)' \in Held(c) .. (Cap[c] - Spent(c))
      BY <1>6, <2>1, ReserveSums
    <3>2. heldMap' = [heldMap EXCEPT ![c] = Held(c)'] /\ spentMap' = spentMap
      BY <3>1
    <3>3. windowMap' = windowMap
      BY <1>5, <1>6 DEF AtomicReserve
    <3>4. Account!Hold(c)
      BY <1>2, <3>1, <3>2, <3>3
    <3>. QED
      BY <3>4 DEF Account!Next
  <2>2. CASE ~Fits(c, a, now)
    BY <1>4, <1>6, <2>2 DEF AtomicReserve
  <2>. QED
    BY <2>1, <2>2
<1>7. ASSUME NEW r \in Ids, NEW now \in Stamps, CommitReservation(r, now)
      PROVE  Account!Next \/ UNCHANGED Account!vars
  <2>1. CASE UNCHANGED <<rows, late>>
    BY <1>4, <1>7, <2>1 DEF CommitReservation
  <2>2. CASE ~UNCHANGED <<rows, late>>
    <3>1. PICK b \in Contracts : \E sum \in 0 .. Held(b) :
            /\ \A c \in Contracts : c # b => Held(c)' = Held(c) /\ Spent(c)' = Spent(c)
            /\ Held(b)' = Held(b) - sum
            /\ Spent(b)' = Spent(b) \/ Spent(b)' = Spent(b) + sum
      BY <1>7, <2>2, CommitSums
    <3>2. PICK sum \in 0 .. Held(b) :
            /\ \A c \in Contracts : c # b => Held(c)' = Held(c) /\ Spent(c)' = Spent(c)
            /\ Held(b)' = Held(b) - sum
            /\ Spent(b)' = Spent(b) \/ Spent(b)' = Spent(b) + sum
      BY <3>1
    <3>3. heldMap' = [heldMap EXCEPT ![b] = Held(b) - sum]
      BY <3>2
    <3>4. \/ spentMap' = spentMap
          \/ spentMap' = [spentMap EXCEPT ![b] = Spent(b) + sum]
      BY <3>2
    <3>5. windowMap' = windowMap
      BY <1>5, <1>7 DEF CommitReservation
    <3>6. Account!Settle(b)
      BY <1>3, <3>3, <3>4, <3>5
    <3>. QED
      BY <3>6 DEF Account!Next
  <2>. QED
    BY <2>1, <2>2
<1>8. ASSUME NEW r \in Ids, ReleaseReservation(r)
      PROVE  Account!Next \/ UNCHANGED Account!vars
  <2>1. CASE rows' = rows
    BY <1>4, <1>8, <2>1 DEF ReleaseReservation
  <2>2. CASE rows' # rows
    <3>1. PICK b \in Contracts : \E sum \in 0 .. Held(b) :
            /\ \A c \in Contracts : c # b => Held(c)' = Held(c)
            /\ \A c \in Contracts : Spent(c)' = Spent(c)
            /\ Held(b)' = Held(b) - sum
      BY <1>8, <2>2, ReleaseSums
    <3>2. PICK sum \in 0 .. Held(b) :
            /\ \A c \in Contracts : c # b => Held(c)' = Held(c)
            /\ \A c \in Contracts : Spent(c)' = Spent(c)
            /\ Held(b)' = Held(b) - sum
      BY <3>1
    <3>3. heldMap' = [heldMap EXCEPT ![b] = Held(b) - sum] /\ spentMap' = spentMap
      BY <3>2
    <3>4. windowMap' = windowMap
      BY <1>5, <1>8 DEF ReleaseReservation
    <3>5. Account!Settle(b)
      BY <1>3, <3>3, <3>4
    <3>. QED
      BY <3>5 DEF Account!Next
  <2>. QED
    BY <2>1, <2>2
<1>9. ASSUME Tick
      PROVE  Account!Next
  <2>1. \A c \in Contracts :
          /\ Held(c)' <= Held(c)
          /\ WindowStart(c, clock)' \in Nat
          /\ WindowStart(c, clock)' >= WindowStart(c, clock)
          /\ Spent(c)' = IF WindowStart(c, clock)' = WindowStart(c, clock)
                           THEN Spent(c) ELSE 0
    BY <1>9, TickSums
  <2>2. \A c \in Contracts : Held(c)' \in Nat
    BY SumsAfter
  <2>3. Account!Elapse
    BY <2>1, <2>2 DEF Account!Elapse, Held, Spent
  <2>. QED
    BY <2>3 DEF Account!Next
<1>. QED
  BY <1>4, <1>6, <1>7, <1>8, <1>9 DEF Next, vars

(* The ledger implements the spending account: every reserve holds money the*)
(* limit still allows, every commit in time spends money that was held, and *)
(* spending is forgotten only when a new budget window starts.              *)
THEOREM LedgerImplementsAccount == Spec => ImplementsAccount
<1>1. Init => TypeOK /\ StampsPast /\ Account!Init
  BY InitTypeOK, InitAccount DEF Init, StampsPast, Issued
<1>2. TypeOK /\ StampsPast /\ [Next]_vars
        => TypeOK' /\ StampsPast' /\ [Account!Next]_(Account!vars)
  BY NextTypeOK, StampsPastKept, NextAccount
<1>. QED
  BY <1>1, <1>2, PTL DEF Spec, ImplementsAccount, Account!Spec
===============================================================================
