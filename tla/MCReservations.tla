---------------------------- MODULE MCReservations ----------------------------
(* Small instances of the ledger for TLC. *)
EXTENDS Reservations, TLC

CONSTANTS wallet, single

(* Days of two instants, weeks of four, months of eight; the first instant  *)
(* is the last one of each.                                                 *)
PeriodLength == [daily |-> 2, weekly |-> 4, monthly |-> 8]
MCCalendarStart ==
  [p \in CalendarPeriods |->
     [t \in Times |-> IF t = 0 THEN 0 ELSE t - ((t - 1) % PeriodLength[p])]]

MCCap == [c \in Contracts |-> 2]
MCDailyAndPerOrder ==
  [c \in Contracts |-> IF c = single THEN "per_order" ELSE "daily"]
MCLifetime == [c \in Contracts |-> "lifetime"]

IdSymmetry == Permutations(Ids)
===============================================================================
