-------------------------- MODULE ReservationsProofs --------------------------
(***************************************************************************)
(* Proofs about the budget ledger, for every set of reservations and       *)
(* contracts, every limit, calendar, timeout and lock wait.                *)
(***************************************************************************)
EXTENDS Reservations, FiniteSetTheorems, TLAPS

-------------------------------------------------------------------------------
(* Money as a set of rupees *)

(* Rupees, with the table it reads as a parameter: Rupees(S) is             *)
(* RupeesOf(rows, S), and Rupees(S)' is RupeesOf(rows', S').                *)
RupeesOf(R, S) == {p \in S \X (1 .. MaxAmount) : p[2] <= R[p[1]].amount}

(* The rupees of finitely many reservations are finitely many.              *)
LEMMA RupeesFinite ==
  ASSUME NEW R, NEW S, IsFiniteSet(S)
  PROVE  /\ IsFiniteSet(RupeesOf(R, S))
         /\ Cardinality(RupeesOf(R, S)) \in Nat
<1>1. IsFiniteSet(1 .. MaxAmount)
  BY FS_Interval, BoundsAssumption
<1>2. IsFiniteSet(S \X (1 .. MaxAmount))
  BY <1>1, FS_Product
<1>3. RupeesOf(R, S) \in SUBSET (S \X (1 .. MaxAmount))
  BY DEF RupeesOf
<1>4. IsFiniteSet(RupeesOf(R, S))
  BY <1>2, <1>3, FS_Subset
<1>. QED
  BY <1>4, FS_CardinalityType

(* Fewer reservations, at the same amounts, hold no more money.             *)
LEMMA FewerRupees ==
  ASSUME NEW R1, NEW R2, NEW S1, NEW S2, IsFiniteSet(S2), S1 \subseteq S2,
         \A r \in S1 : R1[r].amount = R2[r].amount
  PROVE  Cardinality(RupeesOf(R1, S1)) <= Cardinality(RupeesOf(R2, S2))
<1>1. RupeesOf(R1, S1) \in SUBSET RupeesOf(R2, S2)
  BY DEF RupeesOf
<1>. QED
  BY <1>1, RupeesFinite, FS_Subset

(* Two groups of reservations together hold at most the sum of their money. *)
LEMMA JoinedRupees ==
  ASSUME NEW R, NEW S, NEW T, IsFiniteSet(S), IsFiniteSet(T)
  PROVE  Cardinality(RupeesOf(R, S \cup T))
           <= Cardinality(RupeesOf(R, S)) + Cardinality(RupeesOf(R, T))
<1>1. RupeesOf(R, S \cup T) = RupeesOf(R, S) \cup RupeesOf(R, T)
  BY DEF RupeesOf
<1>2. /\ IsFiniteSet(RupeesOf(R, S))
      /\ IsFiniteSet(RupeesOf(R, T))
      /\ Cardinality(RupeesOf(R, S)) \in Nat
      /\ Cardinality(RupeesOf(R, T)) \in Nat
  BY RupeesFinite
<1>3. IsFiniteSet(RupeesOf(R, S) \cap RupeesOf(R, T))
  BY <1>2, FS_Subset
<1>4. Cardinality(RupeesOf(R, S) \cap RupeesOf(R, T)) \in Nat
  BY <1>3, FS_CardinalityType
<1>5. Cardinality(RupeesOf(R, S) \cup RupeesOf(R, T))
        = Cardinality(RupeesOf(R, S)) + Cardinality(RupeesOf(R, T))
            - Cardinality(RupeesOf(R, S) \cap RupeesOf(R, T))
  BY <1>2, FS_Union, Zenon
<1>. DEFINE m == Cardinality(RupeesOf(R, S))
            n == Cardinality(RupeesOf(R, T))
            k == Cardinality(RupeesOf(R, S) \cap RupeesOf(R, T))
<1>6. m \in Nat /\ n \in Nat /\ k \in Nat
  BY <1>2, <1>4
<1>. HIDE DEF m, n, k
<1>7. m + n - k <= m + n
  BY <1>6
<1>. QED
  BY <1>1, <1>5, <1>7 DEF m, n, k

(* One reservation holds its amount.                                        *)
LEMMA SingleRupees ==
  ASSUME NEW R, NEW r, R[r].amount \in Amounts
  PROVE  Cardinality(RupeesOf(R, {r})) = R[r].amount
<1>. DEFINE a == R[r].amount
<1>0. a \in Nat
  BY BoundsAssumption DEF Amounts
<1>1. RupeesOf(R, {r}) = {r} \X (1 .. a)
  BY BoundsAssumption DEF RupeesOf, Amounts
<1>. HIDE DEF a
<1>2. /\ IsFiniteSet({r})
      /\ Cardinality({r}) = 1
  BY FS_Singleton
<1>3. /\ IsFiniteSet(1 .. a)
      /\ Cardinality(1 .. a) = a
  BY <1>0, FS_Interval
<1>4. Cardinality({r} \X (1 .. a)) = Cardinality({r}) * Cardinality(1 .. a)
  BY <1>2, <1>3, FS_Product
<1>5. 1 * a = a
  BY <1>0
<1>. QED
  BY <1>1, <1>2, <1>3, <1>4, <1>5 DEF a

-------------------------------------------------------------------------------
(* Budget windows *)

(* The start of a window is an instant, not after the moment asked about,   *)
(* and moves forward with it.                                               *)
LEMMA WindowStartRoundsDown ==
  ASSUME NEW c \in Contracts, NEW t \in Times
  PROVE  /\ WindowStart(c, t) \in Nat
         /\ WindowStart(c, t) <= t
         /\ \A s \in Times : s <= t => WindowStart(c, s) <= WindowStart(c, t)
<1>1. CASE Period[c] \in CalendarPeriods
  <2>1. CalendarStart[Period[c]] \in [Times -> Times]
    BY <1>1, CalendarAssumption
  <2>. QED
    BY <1>1, <2>1, CalendarAssumption, BoundsAssumption DEF WindowStart, Times
<1>2. CASE Period[c] \notin CalendarPeriods
  BY <1>2, BoundsAssumption DEF WindowStart, Times
<1>. QED
  BY <1>1, <1>2

-------------------------------------------------------------------------------
(* Type correctness *)

(* The empty ledger has its types.                                          *)
LEMMA InitTypeOK == Init => TypeOK
BY BoundsAssumption DEF Init, TypeOK, Times, Issued

(* A reservation inserts a well-formed row, or nothing.                     *)
LEMMA ReserveTypeOK ==
  ASSUME TypeOK,
         NEW r \in Ids, NEW c \in Contracts, NEW a \in Amounts, NEW now \in Stamps,
         AtomicReserve(r, c, a, now)
  PROVE  TypeOK'
<1>. DEFINE row == [contract |-> c, amount |-> a, status |-> "PENDING",
                    createdAt |-> now, expiresAt |-> now + Timeout,
                    committedAt |-> 0]
<1>1. now \in Times /\ now + Timeout \in Nat /\ 0 \in Times
  BY BoundsAssumption DEF Stamps, Times
<1>2. row \in Row
  BY <1>1 DEF Row, Statuses
<1>3. rows' = [rows EXCEPT ![r] = row] \/ rows' = rows
  BY DEF AtomicReserve
<1>4. rows' \in [Ids -> Row \cup {NoRow}]
  BY <1>2, <1>3 DEF TypeOK
<1>5. row # NoRow
  BY <1>2, IdsAssumption
<1>6. Issued \subseteq Issued'
  BY <1>3, <1>5 DEF TypeOK, Issued
<1>. QED
  BY <1>4, <1>6 DEF AtomicReserve, TypeOK

(* A commit leaves a well-formed row, and marks late only inserted rows.    *)
LEMMA CommitTypeOK ==
  ASSUME TypeOK, NEW r \in Ids, NEW now \in Stamps, CommitReservation(r, now)
  PROVE  TypeOK'
<1>. DEFINE row == [rows[r] EXCEPT !.status = "COMMITTED", !.committedAt = now]
<1>1. rows[r] \in Row
  BY DEF CommitReservation, TypeOK, Issued
<1>2. row \in Row
  BY <1>1 DEF Row, Statuses, Stamps
<1>3. rows' = [rows EXCEPT ![r] = row] \/ rows' = rows
  BY <1>1 DEF CommitReservation, Row, TypeOK
<1>4. rows' \in [Ids -> Row \cup {NoRow}]
  BY <1>2, <1>3 DEF TypeOK
<1>5. row # NoRow
  BY <1>2, IdsAssumption
<1>6. Issued \subseteq Issued'
  BY <1>3, <1>5 DEF TypeOK, Issued
<1>7. late' \subseteq Issued
  BY DEF CommitReservation, TypeOK
<1>. QED
  BY <1>4, <1>6, <1>7 DEF CommitReservation, TypeOK

(* A release leaves a well-formed row.                                      *)
LEMMA ReleaseTypeOK ==
  ASSUME TypeOK, NEW r \in Ids, ReleaseReservation(r)
  PROVE  TypeOK'
<1>. DEFINE row == [rows[r] EXCEPT !.status = "RELEASED"]
<1>1. rows[r] \in Row
  BY DEF ReleaseReservation, TypeOK, Issued
<1>2. row \in Row
  BY <1>1 DEF Row, Statuses
<1>3. rows' = [rows EXCEPT ![r] = row] \/ rows' = rows
  BY DEF ReleaseReservation
<1>4. rows' \in [Ids -> Row \cup {NoRow}]
  BY <1>2, <1>3 DEF TypeOK
<1>5. row # NoRow
  BY <1>2, IdsAssumption
<1>6. Issued \subseteq Issued'
  BY <1>3, <1>5 DEF TypeOK, Issued
<1>. QED
  BY <1>4, <1>6 DEF ReleaseReservation, TypeOK

(* Every step keeps the types.                                              *)
LEMMA NextTypeOK == TypeOK /\ [Next]_vars => TypeOK'
<1>. SUFFICES ASSUME TypeOK, [Next]_vars PROVE TypeOK'
  OBVIOUS
<1>1. ASSUME NEW r \in Ids, NEW c \in Contracts, NEW a \in Amounts,
             NEW now \in Stamps, AtomicReserve(r, c, a, now)
      PROVE  TypeOK'
  BY <1>1, ReserveTypeOK
<1>2. ASSUME NEW r \in Ids, NEW now \in Stamps, CommitReservation(r, now)
      PROVE  TypeOK'
  BY <1>2, CommitTypeOK
<1>3. ASSUME NEW r \in Ids, ReleaseReservation(r)
      PROVE  TypeOK'
  BY <1>3, ReleaseTypeOK
<1>4. CASE Tick
  BY <1>4, BoundsAssumption DEF Tick, TypeOK, Times, Issued
<1>5. CASE UNCHANGED vars
  BY <1>5 DEF vars, TypeOK, Issued
<1>. QED
  BY <1>1, <1>2, <1>3, <1>4, <1>5 DEF Next

(* The ledger keeps its types: every row is a well-formed row and only      *)
(* inserted rows are ever committed late.                                   *)
THEOREM LedgerTypeOK == Spec => []TypeOK
<1>. QED
  BY InitTypeOK, NextTypeOK, PTL DEF Spec

-------------------------------------------------------------------------------
(* The budget of every window *)

(* The sets the sums range over are finite and made of inserted rows.       *)
LEMMA ChargedFinite ==
  ASSUME NEW c, NEW t
  PROVE  IsFiniteSet(Charged(c, t)) /\ Charged(c, t) \subseteq Issued
<1>1. Charged(c, t) \subseteq Issued
  BY DEF Charged, OnTime, AliveFor, ActiveAt
<1>2. Charged(c, t) \in SUBSET Ids
  BY <1>1 DEF Issued
<1>. QED
  BY <1>1, <1>2, IdsAssumption, FS_Subset

(* The sets the two queries of atomic_reserve sum over are finite.          *)
LEMMA QueriesFinite ==
  ASSUME NEW c, NEW t
  PROVE  IsFiniteSet(CommittedIn(c, t)) /\ IsFiniteSet(ActiveAt(c, t))
<1>1. CommittedIn(c, t) \in SUBSET Ids /\ ActiveAt(c, t) \in SUBSET Ids
  BY DEF CommittedIn, ActiveAt, Issued
<1>. QED
  BY <1>1, IdsAssumption, FS_Subset

(* A step after which no more reservations are charged to a window, each at *)
(* the amount it had, keeps the window within its limit.                    *)
LEMMA NoMoreCharged ==
  ASSUME TypeOK, NEW c \in Contracts, NEW t \in Times,
         Total(Charged(c, t)) <= Cap[c],
         Charged(c, t)' \subseteq Charged(c, t),
         \A r \in Charged(c, t)' : rows'[r].amount = rows[r].amount
  PROVE  Total(Charged(c, t))' <= Cap[c]
<1>. DEFINE S1 == Charged(c, t)'
            S2 == Charged(c, t)
<1>1. IsFiniteSet(S2)
  BY ChargedFinite
<1>2. S1 \in SUBSET S2
  OBVIOUS
<1>3. IsFiniteSet(S1)
  BY <1>1, <1>2, FS_Subset
<1>4. S1 \subseteq S2 /\ \A r \in S1 : rows'[r].amount = rows[r].amount
  OBVIOUS
<1>5. /\ Total(Charged(c, t))' = Cardinality(RupeesOf(rows', S1))
      /\ Total(Charged(c, t)) = Cardinality(RupeesOf(rows, S2))
  BY DEF Total, Rupees, RupeesOf
<1>. HIDE DEF S1, S2
<1>6. Cardinality(RupeesOf(rows', S1)) <= Cardinality(RupeesOf(rows, S2))
  BY <1>1, <1>4, FewerRupees
<1>7. /\ Cardinality(RupeesOf(rows', S1)) \in Nat
      /\ Cardinality(RupeesOf(rows, S2)) \in Nat
  BY <1>1, <1>3, RupeesFinite
<1>8. Cap[c] \in Nat
  BY ContractsAssumption
<1>. QED
  BY <1>5, <1>6, <1>7, <1>8

(* A reservation the check inside the lock admits fits every window it is   *)
(* charged to: what the window holds was counted by the check, even when    *)
(* the stamp of the check is old.                                           *)
LEMMA ReserveFits ==
  ASSUME TypeOK, BudgetRespected,
         NEW r \in Ids, NEW b \in Contracts, NEW a \in Amounts, NEW now \in Stamps,
         AtomicReserve(r, b, a, now), Fits(b, a, now),
         NEW t \in Times, WindowStart(b, now) <= WindowStart(b, t)
  PROVE  Total(Charged(b, t))' <= Cap[b]
<1>. DEFINE C == CommittedIn(b, WindowStart(b, now))
            A == ActiveAt(b, now)
            D == Charged(b, t)'
<1>1. now \in Times /\ now <= clock /\ clock \in Nat /\ now \in Nat
  BY BoundsAssumption DEF Stamps, TypeOK, Times
<1>2. /\ rows \in [Ids -> Row \cup {NoRow}]
      /\ rows[r] = NoRow
      /\ clock' = clock /\ late' = late
      /\ \A q \in Ids \ {r} : rows'[q] = rows[q]
      /\ rows'[r].status = "PENDING"
      /\ rows'[r].amount = a
  BY DEF AtomicReserve, TypeOK
<1>3. ASSUME NEW q \in D, q # r
      PROVE  q \in C \cup A
  <2>1. q \in Issued /\ q \in Ids /\ rows'[q] = rows[q]
    BY <1>2, <1>3 DEF Charged, OnTime, AliveFor, ActiveAt, Issued
  <2>2. rows[q] \in Row
    BY <1>2, <2>1 DEF Issued
  <2>3. CASE q \in OnTime(b, t)'
    <3>1. /\ Period[b] # "per_order"
          /\ rows[q].contract = b
          /\ rows[q].status = "COMMITTED"
          /\ WindowStart(b, rows[q].committedAt) = WindowStart(b, t)
      BY <2>1, <2>3 DEF OnTime, WindowStart
    <3>2. rows[q].committedAt \in Times
      BY <2>2 DEF Row
    <3>3. rows[q].committedAt >= WindowStart(b, t)
      BY <3>1, <3>2, WindowStartRoundsDown
    <3>4. /\ WindowStart(b, now) \in Nat
          /\ WindowStart(b, t) \in Nat
          /\ rows[q].committedAt \in Nat
      BY <1>1, <3>2, WindowStartRoundsDown, BoundsAssumption DEF Times
    <3>5. rows[q].committedAt >= WindowStart(b, now)
      BY <3>3, <3>4
    <3>. QED
      BY <2>1, <3>1, <3>5 DEF CommittedIn
  <2>4. CASE q \in AliveFor(b, t)'
    <3>1. /\ rows[q].contract = b
          /\ rows[q].status = "PENDING"
          /\ rows[q].expiresAt > clock
      BY <1>2, <2>1, <2>4 DEF AliveFor, ActiveAt
    <3>2. rows[q].expiresAt \in Nat
      BY <2>2 DEF Row
    <3>3. rows[q].expiresAt > now
      BY <1>1, <3>1, <3>2
    <3>. QED
      BY <2>1, <3>1, <3>3 DEF ActiveAt
  <2>. QED
    BY <2>3, <2>4 DEF Charged
<1>4. /\ IsFiniteSet(C)
      /\ IsFiniteSet(A)
      /\ IsFiniteSet({r})
      /\ r \notin C \cup A
  <2>1. IsFiniteSet(C) /\ IsFiniteSet(A)
    BY QueriesFinite
  <2>2. IsFiniteSet({r})
    BY FS_Singleton
  <2>3. r \notin C \cup A
    BY <1>2 DEF CommittedIn, ActiveAt, Issued
  <2>. QED
    BY <2>1, <2>2, <2>3
<1>5. D \subseteq {r} \cup (C \cup A)
  BY <1>3
<1>6. \A q \in C \cup A : rows'[q].amount = rows[q].amount
  BY <1>2, <1>4 DEF CommittedIn, ActiveAt, Issued
<1>7. Total(Charged(b, t))' = Cardinality(RupeesOf(rows', D))
  BY DEF Total, Rupees, RupeesOf
<1>8. /\ Total(CommittedIn(b, WindowStart(b, now))) = Cardinality(RupeesOf(rows, C))
      /\ Total(ActiveAt(b, now)) = Cardinality(RupeesOf(rows, A))
  BY DEF Total, Rupees, RupeesOf
<1>. HIDE DEF C, A, D
<1>9. IsFiniteSet(C \cup A) /\ IsFiniteSet({r} \cup (C \cup A))
  BY <1>4, FS_Union
<1>10. IsFiniteSet(D)
  BY <1>5, <1>9, FS_Subset
<1>. DEFINE n(R, S) == Cardinality(RupeesOf(R, S))
<1>11. /\ n(rows', D) \in Nat
       /\ n(rows', {r} \cup (C \cup A)) \in Nat
       /\ n(rows', {r}) \in Nat
       /\ n(rows', C \cup A) \in Nat
       /\ n(rows, C \cup A) \in Nat
       /\ n(rows, C) \in Nat
       /\ n(rows, A) \in Nat
  BY <1>4, <1>9, <1>10, RupeesFinite
<1>12. n(rows', D) <= n(rows', {r} \cup (C \cup A))
  BY <1>5, <1>9, FewerRupees
<1>13. n(rows', {r} \cup (C \cup A)) <= n(rows', {r}) + n(rows', C \cup A)
  BY <1>4, <1>9, JoinedRupees
<1>14. n(rows', {r}) = a
  BY <1>2, SingleRupees
<1>15. n(rows', C \cup A) <= n(rows, C \cup A)
  BY <1>6, <1>9, FewerRupees
<1>16. n(rows, C \cup A) <= n(rows, C) + n(rows, A)
  BY <1>4, JoinedRupees
<1>17. a + n(rows, C) + n(rows, A) <= Cap[b]
  BY <1>8 DEF Fits
<1>18. a \in Nat /\ Cap[b] \in Nat
  BY ContractsAssumption, BoundsAssumption DEF Amounts
<1>. HIDE DEF n
<1>19. n(rows', D) <= Cap[b]
  BY <1>11, <1>12, <1>13, <1>14, <1>15, <1>16, <1>17, <1>18
<1>. QED
  BY <1>7, <1>19 DEF n

(* atomic_reserve keeps every window of every contract within its limit.    *)
LEMMA ReserveBudget ==
  ASSUME TypeOK, BudgetRespected,
         NEW r \in Ids, NEW b \in Contracts, NEW a \in Amounts, NEW now \in Stamps,
         AtomicReserve(r, b, a, now)
  PROVE  BudgetRespected'
<1>. SUFFICES ASSUME NEW c \in Contracts, NEW t \in Times
              PROVE  Total(Charged(c, t))' <= Cap[c]
  BY DEF BudgetRespected
<1>1. Total(Charged(c, t)) <= Cap[c]
  BY DEF BudgetRespected
<1>2. CASE /\ Fits(b, a, now)
           /\ c = b
           /\ WindowStart(b, now) <= WindowStart(b, t)
  BY <1>2, ReserveFits
<1>3. CASE ~ /\ Fits(b, a, now)
             /\ c = b
             /\ WindowStart(b, now) <= WindowStart(b, t)
  <2>1. r \notin Charged(c, t)'
    BY <1>3 DEF AtomicReserve, Charged, OnTime, AliveFor, ActiveAt, Issued,
                TypeOK, WindowStart
  <2>2. \A q \in Ids \ {r} : rows'[q] = rows[q]
    BY DEF AtomicReserve, TypeOK
  <2>3. Charged(c, t)' \subseteq Charged(c, t)
    BY <2>1, <2>2 DEF AtomicReserve, Charged, OnTime, AliveFor, ActiveAt, Issued,
                      WindowStart
  <2>4. \A q \in Charged(c, t)' : rows'[q].amount = rows[q].amount
    BY <2>1, <2>2 DEF Charged, OnTime, AliveFor, ActiveAt, Issued
  <2>. QED
    BY <1>1, <2>3, <2>4, NoMoreCharged
<1>. QED
  BY <1>2, <1>3

(* commit_reservation only moves money a window was already charged.        *)
LEMMA CommitBudget ==
  ASSUME TypeOK, BudgetRespected,
         NEW r \in Ids, NEW now \in Stamps, CommitReservation(r, now)
  PROVE  BudgetRespected'
<1>. SUFFICES ASSUME NEW c \in Contracts, NEW t \in Times
              PROVE  Total(Charged(c, t))' <= Cap[c]
  BY DEF BudgetRespected
<1>1. Total(Charged(c, t)) <= Cap[c]
  BY DEF BudgetRespected
<1>2. /\ rows \in [Ids -> Row \cup {NoRow}]
      /\ r \in Issued /\ rows[r] \in Row
      /\ \A q \in Ids \ {r} : rows'[q] = rows[q]
      /\ \A q \in Ids \ {r} : q \in late' <=> q \in late
      /\ clock' = clock /\ clock \in Nat
      /\ now \in Times
  BY BoundsAssumption DEF CommitReservation, TypeOK, Issued, Stamps, Times
<1>3. ASSUME NEW q \in Charged(c, t)', q # r
      PROVE  q \in Charged(c, t) /\ rows'[q].amount = rows[q].amount
  BY <1>2, <1>3 DEF Charged, OnTime, AliveFor, ActiveAt, Issued, WindowStart
<1>4. ASSUME r \in Charged(c, t)'
      PROVE  r \in Charged(c, t) /\ rows'[r].amount = rows[r].amount
  <2>1. CASE rows[r].status = "PENDING"
    <3>1. /\ rows'[r].status = "COMMITTED"
          /\ rows'[r].committedAt = now
          /\ rows'[r].contract = rows[r].contract
          /\ rows'[r].amount = rows[r].amount
          /\ rows[r].createdAt <= now
          /\ rows[r].createdAt \in Times
          /\ rows[r].expiresAt \in Nat
          /\ r \notin late' => rows[r].expiresAt > clock
      BY <1>2, <2>1 DEF CommitReservation, Row
    <3>2. r \in OnTime(c, t)'
      BY <1>4, <3>1 DEF Charged, AliveFor, ActiveAt
    <3>3. /\ c = rows[r].contract
          /\ rows[r].expiresAt > clock
          /\ WindowStart(c, now) = WindowStart(c, t)
      BY <3>1, <3>2 DEF OnTime, WindowStart
    <3>4. WindowStart(c, rows[r].createdAt) <= WindowStart(c, t)
      BY <1>2, <3>1, <3>3, WindowStartRoundsDown
    <3>. QED
      BY <1>2, <2>1, <3>1, <3>3, <3>4 DEF Charged, AliveFor, ActiveAt
  <2>2. CASE rows[r].status # "PENDING"
    BY <1>2, <1>4, <2>2 DEF CommitReservation, Charged, OnTime, AliveFor, ActiveAt,
                            Issued, WindowStart
  <2>. QED
    BY <2>1, <2>2
<1>. QED
  BY <1>1, <1>3, <1>4, NoMoreCharged

(* release_reservation gives money back.                                    *)
LEMMA ReleaseBudget ==
  ASSUME TypeOK, BudgetRespected, NEW r \in Ids, ReleaseReservation(r)
  PROVE  BudgetRespected'
<1>. SUFFICES ASSUME NEW c \in Contracts, NEW t \in Times
              PROVE  Total(Charged(c, t))' <= Cap[c]
  BY DEF BudgetRespected
<1>1. Total(Charged(c, t)) <= Cap[c]
  BY DEF BudgetRespected
<1>2. /\ rows \in [Ids -> Row \cup {NoRow}]
      /\ r \in Issued /\ rows[r] \in Row
      /\ \A q \in Ids \ {r} : rows'[q] = rows[q]
      /\ rows[r].status = "PENDING" => rows'[r].status = "RELEASED"
      /\ rows[r].status # "PENDING" => rows'[r] = rows[r]
      /\ clock' = clock /\ late' = late
  BY DEF ReleaseReservation, TypeOK, Issued, Row
<1>3. \A q \in Charged(c, t)' : rows'[q] = rows[q]
  BY <1>2 DEF Charged, OnTime, AliveFor, ActiveAt, Issued
<1>4. Charged(c, t)' \subseteq Charged(c, t)
  BY <1>2, <1>3 DEF Charged, OnTime, AliveFor, ActiveAt, Issued, WindowStart
<1>. QED
  BY <1>1, <1>3, <1>4, NoMoreCharged

(* Time passing expires holds and starts windows; it charges nothing.       *)
LEMMA TickBudget ==
  ASSUME TypeOK, BudgetRespected, Tick
  PROVE  BudgetRespected'
<1>. SUFFICES ASSUME NEW c \in Contracts, NEW t \in Times
              PROVE  Total(Charged(c, t))' <= Cap[c]
  BY DEF BudgetRespected
<1>1. Total(Charged(c, t)) <= Cap[c]
  BY DEF BudgetRespected
<1>2. /\ rows \in [Ids -> Row \cup {NoRow}]
      /\ rows' = rows /\ late' = late
      /\ clock \in Nat /\ clock' = clock + 1
  BY BoundsAssumption DEF Tick, TypeOK, Times
<1>3. \A q \in Issued : rows[q].expiresAt \in Nat
  BY <1>2 DEF Issued, Row
<1>4. Charged(c, t)' \subseteq Charged(c, t)
  BY <1>2, <1>3 DEF Charged, OnTime, AliveFor, ActiveAt, Issued, WindowStart
<1>. QED
  BY <1>1, <1>2, <1>4, NoMoreCharged

(* Nothing is charged to any window at the start.                           *)
LEMMA InitBudget == Init => BudgetRespected
<1>. SUFFICES ASSUME Init, NEW c \in Contracts, NEW t \in Times
              PROVE  Total(Charged(c, t)) <= Cap[c]
  BY DEF BudgetRespected
<1>1. Rupees(Charged(c, t)) = {}
  BY DEF Init, Rupees, Charged, OnTime, AliveFor, ActiveAt, Issued
<1>. QED
  BY <1>1, FS_EmptySet, ContractsAssumption DEF Total

(* Every step keeps every window within its limit.                          *)
LEMMA NextBudget == TypeOK /\ BudgetRespected /\ [Next]_vars => BudgetRespected'
<1>. SUFFICES ASSUME TypeOK, BudgetRespected, [Next]_vars PROVE BudgetRespected'
  OBVIOUS
<1>1. ASSUME NEW r \in Ids, NEW c \in Contracts, NEW a \in Amounts,
             NEW now \in Stamps, AtomicReserve(r, c, a, now)
      PROVE  BudgetRespected'
  BY <1>1, ReserveBudget
<1>2. ASSUME NEW r \in Ids, NEW now \in Stamps, CommitReservation(r, now)
      PROVE  BudgetRespected'
  BY <1>2, CommitBudget
<1>3. ASSUME NEW r \in Ids, ReleaseReservation(r)
      PROVE  BudgetRespected'
  BY <1>3, ReleaseBudget
<1>4. CASE Tick
  BY <1>4, TickBudget
<1>5. CASE UNCHANGED vars
  BY <1>5 DEF vars, BudgetRespected, Total, Rupees, Charged, OnTime, AliveFor,
              ActiveAt, Issued, WindowStart
<1>. QED
  BY <1>1, <1>2, <1>3, <1>4, <1>5 DEF Next

(* In every budget window the payments committed in time and the holds still*)
(* alive stay within the contract's limit, for every number of concurrent   *)
(* reservations, every calendar and every wait for the lock.                *)
THEOREM LedgerBudgetRespected == Spec => []BudgetRespected
<1>1. Init => TypeOK /\ BudgetRespected
  BY InitTypeOK, InitBudget
<1>2. TypeOK /\ BudgetRespected /\ [Next]_vars => TypeOK' /\ BudgetRespected'
  BY NextTypeOK, NextBudget
<1>. QED
  BY <1>1, <1>2, PTL DEF Spec

(* A hold is settled exactly once, whichever of a racing commit and release *)
(* comes first, and no row changes its contract, amount or expiry.          *)
THEOREM LedgerSettledOnce == Spec => SettledOnce
<1>. DEFINE Kept == \A r \in Issued :
                      /\ r \in Issued'
                      /\ rows[r].status # "PENDING" => rows'[r] = rows[r]
                      /\ rows'[r].contract = rows[r].contract
                      /\ rows'[r].amount = rows[r].amount
                      /\ rows'[r].expiresAt = rows[r].expiresAt
<1>1. ASSUME TypeOK, TypeOK', [Next]_vars PROVE Kept
  <2>1. \A q \in Issued : rows[q] \in Row
    BY <1>1 DEF TypeOK, Issued
  <2>2. ASSUME NEW r \in Ids, NEW c \in Contracts, NEW a \in Amounts,
               NEW now \in Stamps, AtomicReserve(r, c, a, now)
        PROVE  Kept
    <3>1. \A q \in Issued : rows'[q] = rows[q]
      BY <1>1, <2>2 DEF AtomicReserve, Issued, TypeOK
    <3>. QED
      BY <3>1 DEF Issued
  <2>3. ASSUME NEW r \in Ids, NEW now \in Stamps, CommitReservation(r, now)
        PROVE  Kept
    <3>1. \A q \in Issued : q # r => rows'[q] = rows[q]
      BY <1>1, <2>3 DEF CommitReservation, Issued, TypeOK
    <3>2. /\ r \in Issued
          /\ rows[r].status # "PENDING" => rows'[r] = rows[r]
          /\ rows'[r].contract = rows[r].contract
          /\ rows'[r].amount = rows[r].amount
          /\ rows'[r].expiresAt = rows[r].expiresAt
      BY <1>1, <2>1, <2>3 DEF CommitReservation, Issued, TypeOK, Row
    <3>3. r \in Issued'
      BY <1>1, <2>3, CommitTypeOK, <3>2, IdsAssumption, <2>1
         DEF CommitReservation, Issued, TypeOK, Row, Statuses, Stamps
    <3>. QED
      BY <3>1, <3>2, <3>3 DEF Issued
  <2>4. ASSUME NEW r \in Ids, ReleaseReservation(r) PROVE Kept
    <3>1. \A q \in Issued : q # r => rows'[q] = rows[q]
      BY <1>1, <2>4 DEF ReleaseReservation, Issued, TypeOK
    <3>2. /\ r \in Issued
          /\ rows[r].status # "PENDING" => rows'[r] = rows[r]
          /\ rows'[r].contract = rows[r].contract
          /\ rows'[r].amount = rows[r].amount
          /\ rows'[r].expiresAt = rows[r].expiresAt
      BY <1>1, <2>1, <2>4 DEF ReleaseReservation, Issued, TypeOK, Row
    <3>3. rows'[r] \in Row
      BY <1>1, <2>1, <2>4 DEF ReleaseReservation, Issued, TypeOK, Row, Statuses
    <3>. QED
      BY <3>1, <3>2, <3>3, IdsAssumption DEF Issued
  <2>5. CASE UNCHANGED rows
    BY <2>5 DEF Issued
  <2>. QED
    BY <1>1, <2>2, <2>3, <2>4, <2>5 DEF Next, Tick, vars
<1>2. TypeOK /\ TypeOK' /\ [Next]_vars => [Kept]_vars
  BY <1>1
<1>. HIDE DEF Kept
<1>3. Spec => [][Kept]_vars
  BY <1>2, LedgerTypeOK, PTL DEF Spec
<1>. QED
  BY <1>3 DEF SettledOnce, Kept
===============================================================================
