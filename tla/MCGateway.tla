------------------------------- MODULE MCGateway -------------------------------
(* Small instances of the gateway for TLC.                                  *)
EXTENDS Gateway, TLC

CONSTANTS wallet, demo, tv, t1, t2, k1, k2

(* Weeks of two instants.                                                   *)
MCCalendarStart ==
  [p \in {"daily", "weekly", "monthly"} |-> [t \in Times |-> t - (t % 2)]]
MCPeriod == [c \in Contracts |-> "weekly"]
MCLifetime == [c \in Contracts |-> "lifetime"]
MCCap == [c \in Contracts |-> 2]
MCSeedStock == [s \in Skus |-> 2]
MCExpiries == {0, MaxTime}

MCScarceStock == [s \in Skus |-> 1]

AnOrder(tx, amount, sku, qty, rules) ==
  [tx |-> tx, contract |-> wallet, amount |-> amount, sku |-> sku, qty |-> qty,
   rules |-> rules]

(* Of one transaction, the order that takes the whole budget and one that   *)
(* needs the user's approval.                                               *)
RivalOrders == {AnOrder(t1, 2, tv, 1, "ALLOW"), AnOrder(t1, 1, tv, 1, "CHALLENGE")}
(* One for a product of the catalog, under a contract of the demo data, and *)
(* one for another product, under one that the user creates.                *)
AnyContract == {[AnOrder(t1, 1, tv, 1, "ALLOW") EXCEPT !.contract = demo],
                AnOrder(t1, 1, Unlisted, 1, "ALLOW")}
(* For a unit of it or, the quantity being negative, for one put back.      *)
AnyQuantity == {AnOrder(t1, 1, tv, n, "ALLOW") : n \in {1, -1}}
OneOrder == {AnOrder(t1, 1, tv, 1, "ALLOW")}
OneChallenge == {AnOrder(t1, 1, tv, 1, "CHALLENGE")}

NonEmptyKeys == {m \in Payment : m.key # EmptyKey}
Successes == {m \in Payment : ~ m.fails}

Symmetry == Permutations(Auths) \cup Permutations(Pays) \cup Permutations(Keys)
===============================================================================
