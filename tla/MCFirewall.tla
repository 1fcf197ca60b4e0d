------------------------------ MODULE MCFirewall ------------------------------
(* Values of the constants of Firewall for TLC: one honest order of a       *)
(* hundred rupees, and what may be different about it.                              *)
EXTENDS Firewall

BaseTx ==
  [merchant |-> "freshmart", sku |-> "oats", category |-> "groceries", qty |-> 1,
   unit |-> 10000, subtotal |-> 10000, fees |-> 0, total |-> 10000, currency |-> "INR",
   pincode |-> "560001", recurring |-> FALSE, version |-> None]
Costing(total) == [BaseTx EXCEPT !.subtotal = total, !.total = total]
MCTxs ==
  {BaseTx,
   Costing(10600), Costing(11000), Costing(25000),
   [BaseTx EXCEPT !.total = 10005], [BaseTx EXCEPT !.fees = -6],
   [BaseTx EXCEPT !.merchant = "shady"],
   [BaseTx EXCEPT !.sku = "oil"], [BaseTx EXCEPT !.category = "electronics"],
   [BaseTx EXCEPT !.qty = 2],
   [BaseTx EXCEPT !.pincode = "110001"], [BaseTx EXCEPT !.pincode = None],
   [BaseTx EXCEPT !.recurring = TRUE], [BaseTx EXCEPT !.currency = "USD"],
   [BaseTx EXCEPT !.version = "v14"], [BaseTx EXCEPT !.version = "v16"]}

BaseProposal ==
  [merchant |-> "freshmart", sku |-> "oats", category |-> "groceries", qty |-> 1,
   total |-> 10000, currency |-> "INR", pincode |-> "560001", recurring |-> FALSE]
MCProposals ==
  {BaseProposal,
   [BaseProposal EXCEPT !.total = 0], [BaseProposal EXCEPT !.qty = 2],
   [BaseProposal EXCEPT !.category = "electronics"],
   [BaseProposal EXCEPT !.sku = "oil"], [BaseProposal EXCEPT !.currency = "USD"],
   [BaseProposal EXCEPT !.recurring = TRUE]}

BaseContract ==
  [merchants |-> {"freshmart"}, categories |-> {"groceries"}, pincodes |-> {"560001"},
   maxOrder |-> 200000, aggregate |-> 30000, recurring |-> FALSE,
   conditions |-> ApprovalConditions, revoked |-> FALSE, expired |-> FALSE]
MCContracts ==
  {BaseContract,
   [BaseContract EXCEPT !.conditions = {}],
   [BaseContract EXCEPT !.merchants = {"shady"}],
   [BaseContract EXCEPT !.merchants = {}, !.categories = {}, !.pincodes = {}],
   [BaseContract EXCEPT !.merchants = {"freshmart", "shady"}, !.maxOrder = 30000],
   [BaseContract EXCEPT !.recurring = TRUE, !.conditions = {"new_merchant"}]}

Oats == [merchant |-> "freshmart", category |-> "groceries", price |-> 10000,
         inventory |-> 2, aiEnabled |-> TRUE, installation |-> FALSE]
MCQuantities == {1, -1}
OatsOnly == [sku \in {"oats"} |-> Oats]

BasePolicy ==
  [aiSales |-> TRUE, maxOrder |-> 20000, categories |-> {"groceries"},
   substitutions |-> FALSE, stepUp |-> StepUpRules,
   discounts |-> TRUE, maxDiscount |-> 10]
MCSeedPolicies ==
  [v \in {"v14", "v15"} |->
     IF v = "v14" THEN [BasePolicy EXCEPT !.stepUp = {}] ELSE BasePolicy]
MCSeedOrder == <<"v14", "v15">>
MCDrafts ==
  {[BasePolicy EXCEPT !.aiSales = FALSE, !.substitutions = TRUE],
   [BasePolicy EXCEPT !.maxOrder = 9990, !.categories = {}]}
===============================================================================
