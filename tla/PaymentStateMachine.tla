-------------------------- MODULE PaymentStateMachine --------------------------
(***************************************************************************)
(* The lifecycle table of a transaction, PaymentStateMachine.TRANSITIONS   *)
(* (payments/state_machine.py). The payment code imports the class but     *)
(* writes statuses with plain upserts; Gateway states what that means.     *)
(***************************************************************************)

TransactionStatuses ==
  {"DRAFT", "AUTHORIZATION_PENDING", "AUTHORIZED", "RESERVED", "PAYMENT_PENDING",
   "COMPLETED", "CHALLENGED", "DENIED", "PAYMENT_FAILED",
   "AUTHORIZATION_EXPIRED", "AUTHORIZATION_REVOKED", "RESERVATION_RELEASED"}

(* The statuses a transaction in status s may move to.                      *)
TRANSITIONS(s) ==
  CASE s = "DRAFT" ->
         {"AUTHORIZATION_PENDING", "DENIED", "CHALLENGED"}
    [] s = "AUTHORIZATION_PENDING" ->
         {"AUTHORIZED", "CHALLENGED", "DENIED",
          "AUTHORIZATION_EXPIRED", "AUTHORIZATION_REVOKED"}
    [] s = "AUTHORIZED" ->
         {"RESERVED", "PAYMENT_PENDING", "RESERVATION_RELEASED",
          "AUTHORIZATION_REVOKED"}
    [] s = "RESERVED" -> {"PAYMENT_PENDING", "RESERVATION_RELEASED"}
    [] s = "PAYMENT_PENDING" ->
         {"COMPLETED", "PAYMENT_FAILED", "RESERVATION_RELEASED"}
    [] s = "CHALLENGED" -> {"AUTHORIZED", "DENIED", "RESERVATION_RELEASED"}
    [] s \in {"PAYMENT_FAILED", "AUTHORIZATION_REVOKED"} -> {"RESERVATION_RELEASED"}
    [] OTHER -> {}

===============================================================================
