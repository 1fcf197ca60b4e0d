---------------------------- MODULE SpendingAccount ----------------------------
(***************************************************************************)
(* What the budget ledger promises a principal, without its rows, stamps   *)
(* and expiry times: each contract is an account with money held for       *)
(* authorized orders and money spent in the current budget window, and the *)
(* two together never exceed the limit the principal signed.               *)
(***************************************************************************)
EXTENDS Integers

CONSTANTS
  Contracts,  (* user authorization contracts                               *)
  Limit       (* Limit[c]: what c allows to be held and spent in a window   *)

VARIABLES
  held,    (* held[c]: money reserved for authorized, unpaid orders         *)
  spent,   (* spent[c]: money paid in the current window                    *)
  window   (* window[c]: start of the current window                        *)

vars == <<held, spent, window>>

Init ==
  /\ held = [c \in Contracts |-> 0]
  /\ spent = [c \in Contracts |-> 0]
  /\ window \in [Contracts -> Nat]

(* An order is authorized: its money is held, if the limit allows it.       *)
Hold(c) ==
  \E sum \in held[c] .. (Limit[c] - spent[c]) :
    /\ held' = [held EXCEPT ![c] = sum]
    /\ UNCHANGED <<spent, window>>

(* An authorized order is paid: what it spends is money that was held. An   *)
(* order that is cancelled, or accounted to a window already closed, spends *)
(* nothing of the current one.                                              *)
Settle(c) ==
  \E sum \in 0 .. held[c] :
    /\ held' = [held EXCEPT ![c] = @ - sum]
    /\ \/ spent' = [spent EXCEPT ![c] = @ + sum]
       \/ spent' = spent
    /\ UNCHANGED window

(* Time passes: holds may lapse, and spending is forgotten when, and only   *)
(* when, a new window starts.                                               *)
Elapse ==
  /\ held' \in [Contracts -> Nat]
  /\ window' \in [Contracts -> Nat]
  /\ \A c \in Contracts :
       /\ held'[c] <= held[c]
       /\ window'[c] >= window[c]
  /\ spent' = [c \in Contracts |-> IF window'[c] = window[c] THEN spent[c] ELSE 0]

Next ==
  \/ \E c \in Contracts : Hold(c) \/ Settle(c)
  \/ Elapse

Spec == Init /\ [][Next]_vars

===============================================================================
