----------------------------- MODULE MCDelegation -----------------------------
(* Values of the constants of Delegation for TLC: prompts that name things  *)
(* and prompts that do not, with amounts around the price of the orders of  *)
(* MCFirewall.                                                              *)
EXTENDS MCFirewall, Delegation, TLC

Prompt(words, amounts, pincodes) ==
  [words |-> words, amounts |-> amounts, thousands |-> {}, numbers |-> {},
   pincodes |-> pincodes]
Clear == {"substitut", "merchant", "no recurring", "recurring"}
MCPrompts ==
  {Prompt({}, {}, {}),
   Prompt({"groceries", "freshmart", "week"}, {21200}, {}),
   Prompt(Clear, {10500}, {}),
   Prompt({"budget", "freshmart"}, {}, {"560034"}),
   Prompt(Clear \cup {"electronics"}, {10000, 30000}, {"560001"}),
   [Prompt({"substitut", "store", "every week", "week", "subscription"}, {10600}, {"560034"})
      EXCEPT !.numbers = {2, 128}],
   [Prompt({}, {}, {}) EXCEPT !.thousands = {101}]}
MCAnswers ==
  {<<>>, "tax_and_fees" :> "text", "recurring_allowed" :> "once",
   "recurring_allowed" :> "null" @@ "merchants_allowlist" :> {"shady"},
   "max_order_value_inr" :> 11000 @@ "categories_allowlist" :> {},
   "delivery_pincodes" :> {"110001"} @@ "max_aggregate_value_inr" :> 10500}

(* "A 65 inch screen for 75000 rupees", strictly one-time; and an order of  *)
(* 60 rupees that is repeated.                                              *)
ScreenOnly == {[Prompt({}, {7500000}, {}) EXCEPT !.numbers = {65}]}
OneTimeAnswered == {"recurring_allowed" :> "once"}
RepeatedOnly == {[Costing(6000) EXCEPT !.recurring = TRUE]}
===============================================================================
