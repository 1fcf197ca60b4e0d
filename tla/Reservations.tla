----------------------------- MODULE Reservations -----------------------------
(***************************************************************************)
(* The budget ledger: table budget_reservations and the four operations of *)
(* ReservationService on it (authorization/reservations.py), each of which *)
(* is one BEGIN IMMEDIATE transaction under the process-wide lock of       *)
(* core/db.py.                                                             *)
(*                                                                         *)
(* Every operation reads the wall clock before it waits for that lock, so  *)
(* the stamp it works with may be older than the moment its transaction    *)
(* runs: `now' below is the stamp, `clock' the real time, and MaxLag       *)
(* bounds how far the first may be behind the second.                      *)
(***************************************************************************)
EXTENDS Naturals, FiniteSets

CONSTANTS
  Ids,            (* reservation ids; the code draws them from uuid4        *)
  Contracts,      (* user authorization contracts                           *)
  Cap,            (* Cap[c]: max_aggregate_value_inr of contract c          *)
  Period,         (* Period[c]: budget_period of contract c                 *)
  CalendarStart,  (* CalendarStart[p][t]: first instant of t's day/week/... *)
  Timeout,        (* life of a pending hold (timeout_minutes)               *)
  MaxAmount,      (* bound: largest amount of one reservation               *)
  MaxTime,        (* bound: last instant of the clock                       *)
  MaxLag,         (* bound: longest wait for the database lock              *)
  NoRow           (* the id has no row yet                                  *)

Times == 0 .. MaxTime
Amounts == 0 .. MaxAmount
CalendarPeriods == {"daily", "weekly", "monthly"}
Periods == CalendarPeriods \cup {"per_order", "lifetime"}

Statuses == {"PENDING", "COMMITTED", "RELEASED"}

(* A row of the table. committedAt is meaningful once status is COMMITTED.  *)
Row == [contract: Contracts, amount: Amounts, status: Statuses,
        createdAt: Times, expiresAt: Nat, committedAt: Times]

ASSUME IdsAssumption == IsFiniteSet(Ids) /\ NoRow \notin Row
ASSUME ContractsAssumption ==
  /\ Cap \in [Contracts -> Nat]
  /\ Period \in [Contracts -> Periods]
ASSUME BoundsAssumption ==
  /\ Timeout \in Nat
  /\ MaxAmount \in Nat
  /\ MaxTime \in Nat
  /\ MaxLag \in Nat
(* The calendar rounds down, and never runs backwards.                      *)
ASSUME CalendarAssumption ==
  /\ CalendarStart \in [CalendarPeriods -> [Times -> Times]]
  /\ \A p \in CalendarPeriods : \A s, t \in Times :
       /\ CalendarStart[p][t] <= t
       /\ s <= t => CalendarStart[p][s] <= CalendarStart[p][t]

VARIABLES
  rows,   (* rows[r]: the row of reservation r, or NoRow                    *)
  clock,  (* the wall clock                                                 *)
  late    (* history: the reservations committed after they had expired     *)

vars == <<rows, clock, late>>

Issued == {r \in Ids : rows[r] # NoRow}

(***************************************************************************)
(* Money is counted rupee by rupee: Rupees(S) has one element for every    *)
(* rupee of every reservation of S, and their number is the SUM(amount_inr)*)
(* of the code's queries.                                                  *)
(***************************************************************************)
Rupees(S) == {p \in S \X (1 .. MaxAmount) : p[2] <= rows[p[1]].amount}
Total(S)  == Cardinality(Rupees(S))

(* get_budget_window_start. A contract is issued at time 0 or before, so    *)
(* the issued_at of a lifetime budget and the 1970 of a per-order one are   *)
(* both 0.                                                                  *)
WindowStart(c, t) ==
  IF Period[c] \in CalendarPeriods THEN CalendarStart[Period[c]][t] ELSE 0

(* The two sums every budget computation takes.                             *)
CommittedIn(c, windowStart) ==
  {r \in Issued : /\ Period[c] # "per_order"
                  /\ rows[r].contract = c
                  /\ rows[r].status = "COMMITTED"
                  /\ rows[r].committedAt >= windowStart}
ActiveAt(c, now) ==
  {r \in Issued : /\ rows[r].contract = c
                  /\ rows[r].status = "PENDING"
                  /\ rows[r].expiresAt > now}

(* Mutants: one of the two sums is left out of the check.                   *)
FitsSpentOnly(c, a, now) ==
  a + Total(CommittedIn(c, WindowStart(c, now))) <= Cap[c]
FitsHeldOnly(c, a, now) ==
  a + Total(ActiveAt(c, now)) <= Cap[c]

(* `amount_inr > available_budget' does not hold.                           *)
Fits(c, a, now) ==
  a + Total(CommittedIn(c, WindowStart(c, now))) + Total(ActiveAt(c, now)) <= Cap[c]

-------------------------------------------------------------------------------
(* The stamps an operation whose transaction runs now may be carrying.      *)
Stamps == {t \in Times : t <= clock /\ clock <= t + MaxLag}

(* atomic_reserve: the check and the insert are one transaction; a request  *)
(* that does not fit is refused and changes nothing.                        *)
AtomicReserve(r, c, a, now) ==
  /\ rows[r] = NoRow
  /\ rows' = IF Fits(c, a, now)
               THEN [rows EXCEPT ![r] =
                       [contract |-> c, amount |-> a, status |-> "PENDING",
                        createdAt |-> now, expiresAt |-> now + Timeout,
                        committedAt |-> 0]]
               ELSE rows
  /\ UNCHANGED <<clock, late>>

(* commit_reservation: UPDATE ... WHERE status = 'PENDING'. The expiry of   *)
(* the hold is not looked at.                                               *)
CommitReservation(r, now) ==
  /\ r \in Issued
  /\ rows[r].createdAt <= now
  /\ IF rows[r].status = "PENDING"
       THEN /\ rows' = [rows EXCEPT ![r].status = "COMMITTED",
                                    ![r].committedAt = now]
            /\ late' = IF clock >= rows[r].expiresAt THEN late \cup {r} ELSE late
       ELSE UNCHANGED <<rows, late>>
  /\ UNCHANGED clock

(* Mutants: without the test of the status, or with the status the schema   *)
(* lists but no code writes.                                                *)
ReleaseAnyStatus(r) ==
  /\ r \in Issued
  /\ rows' = [rows EXCEPT ![r].status = "RELEASED"]
  /\ UNCHANGED <<clock, late>>
ReleaseAsExpired(r) ==
  /\ r \in Issued
  /\ rows' = IF rows[r].status = "PENDING"
               THEN [rows EXCEPT ![r].status = "EXPIRED"]
               ELSE rows
  /\ UNCHANGED <<clock, late>>

(* release_reservation.                                                     *)
ReleaseReservation(r) ==
  /\ r \in Issued
  /\ rows' = IF rows[r].status = "PENDING"
               THEN [rows EXCEPT ![r].status = "RELEASED"]
               ELSE rows
  /\ UNCHANGED <<clock, late>>

Tick ==
  /\ clock < MaxTime
  /\ clock' = clock + 1
  /\ UNCHANGED <<rows, late>>

Init ==
  /\ rows = [r \in Ids |-> NoRow]
  /\ clock = 0
  /\ late = {}

Next ==
  \/ \E r \in Ids, c \in Contracts, a \in Amounts, now \in Stamps :
       AtomicReserve(r, c, a, now)
  \/ \E r \in Ids, now \in Stamps : CommitReservation(r, now)
  \/ \E r \in Ids : ReleaseReservation(r)
  \/ Tick

Spec == Init /\ [][Next]_vars

-------------------------------------------------------------------------------
(* Type invariant of the ledger.                                            *)
TypeOK ==
  /\ rows \in [Ids -> Row \cup {NoRow}]
  /\ clock \in Times
  /\ late \subseteq Issued

(* The money of contract c that counts against the budget window of t: what *)
(* was committed in that window while its hold was alive, and the holds     *)
(* alive now that were placed in that window or an earlier one.             *)
OnTime(c, t) ==
  {r \in Issued : /\ Period[c] # "per_order"
                  /\ rows[r].contract = c
                  /\ rows[r].status = "COMMITTED"
                  /\ r \notin late
                  /\ WindowStart(c, rows[r].committedAt) = WindowStart(c, t)}
AliveFor(c, t) ==
  {r \in ActiveAt(c, clock) :
     WindowStart(c, rows[r].createdAt) <= WindowStart(c, t)}
Charged(c, t) == OnTime(c, t) \cup AliveFor(c, t)

(* In every budget window, past or current, the payments committed before   *)
(* their hold expired and the holds still alive never exceed the contract's *)
(* aggregate limit, whatever the interleaving of reserve, commit, release   *)
(* and expiry and however old the stamps they carry (atomic_reserve re-reads*)
(* both sums inside the lock).                                              *)
BudgetRespected ==
  \A c \in Contracts, t \in Times : Total(Charged(c, t)) <= Cap[c]

(* A hold is settled once: of a commit and a release that race, one wins,   *)
(* and a settled row is never changed again (the WHERE status = 'PENDING'   *)
(* of both updates); a row never changes contract, amount or expiry.        *)
SettledOnce ==
  [][\A r \in Issued :
       /\ r \in Issued'
       /\ rows[r].status # "PENDING" => rows'[r] = rows[r]
       /\ rows'[r].contract = rows[r].contract
       /\ rows'[r].amount = rows[r].amount
       /\ rows'[r].expiresAt = rows[r].expiresAt]_vars

(* What the concurrency test claims: total spend never exceeds the limit of *)
(* the contract. All committed rows of the current window count here.       *)
SpendWithinLimit ==
  \A c \in Contracts :
    Total(CommittedIn(c, WindowStart(c, clock))) <= Cap[c]

(* The ledger implements the account it promises: money held is what the    *)
(* live holds reserve, money spent is what was committed in time in the     *)
(* current window. Payments committed after their hold expired are outside  *)
(* the account: SpendWithinLimit above counts them.                         *)
Account == INSTANCE SpendingAccount WITH
  Limit  <- Cap,
  held   <- [c \in Contracts |-> Total(ActiveAt(c, clock))],
  spent  <- [c \in Contracts |-> Total(OnTime(c, clock))],
  window <- [c \in Contracts |-> WindowStart(c, clock)]
ImplementsAccount == Account!Spec

===============================================================================
