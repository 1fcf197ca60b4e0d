------------------------------- MODULE Shopping -------------------------------
(***************************************************************************)
(* The buyer agent (agents/buyer_agent.py): one shopping task, from the    *)
(* search over negotiation and evaluation to payment, in the world of      *)
(* Firewall. Each access to the database is a step: the user, the          *)
(* merchant, other buyers and a restart come in between. A step names what *)
(* it reads; the computations that need no access belong to the step       *)
(* before.                                                                 *)
(*                                                                         *)
(* Budget, holds and payment records of the evaluation and the payment are *)
(* in Gateway; here the ledger may answer anything, as in Firewall.        *)
(***************************************************************************)
EXTENDS Firewall, Negotiation, FiniteSets

CONSTANTS
  Requests     (* the tasks users may submit                               *)

VARIABLES
  task,        (* the task, or None: its request and its locals            *)
  moments      (* history: the worlds there were since its evaluation began*)

shopVars == <<vars, task, moments>>

(* What a row of the products table may be, of which only the stock changes.*)
WithAnyStock(p) ==
  [merchant : {p.merchant}, category : {p.category}, price : {p.price},
   inventory : Nat, aiEnabled : {p.aiEnabled}, installation : {p.installation}]

ASSUME ShoppingAssumption ==
  /\ None \notin Requests
  /\ \A req \in Requests : req.qty \in Int /\ req.target \in Int \cup {None}
  /\ \A sku \in DOMAIN SeedCatalog :
       /\ SeedCatalog[sku].price # 0
       /\ None \notin WithAnyStock(SeedCatalog[sku])
  /\ None \notin DOMAIN SeedCatalog

-------------------------------------------------------------------------------
(* Constraints and amounts                                                  *)

(* _extract_constraints. The goal is the set of the kinds of word it has.   *)
Category(req) ==
  IF req.preferred # None THEN req.preferred
  ELSE IF "electronics" \in req.goal THEN "electronics"
  ELSE IF "groceries" \in req.goal THEN "groceries"
  ELSE IF "personal_care" \in req.goal THEN "personal_care"
  ELSE "groceries"

OrElse(x, default) == IF x \in {None, 0} THEN default ELSE x

(* The limits a user gives count for electronics only: the condition binds  *)
(* weaker than the "or".                                                    *)
ExtractConstraints(req) ==
  LET category == Category(req)
      electronics == category = "electronics"
  IN  [category |-> category,
       target  |-> IF electronics THEN OrElse(req.target, 7000000) ELSE 200000,
       ceiling |-> IF electronics THEN OrElse(req.ceiling, 7500000) ELSE 500000,
       installation |-> req.installation \/ "installation" \in req.goal,
       pincode |-> IF req.pincode = None THEN "560001" ELSE req.pincode,
       qty |-> req.qty]

(* The price after negotiation; an offer of nothing counts as none.         *)
FinalPrice(offer, list) ==
  IF offer.eligible /\ offer.offered # 0 THEN offer.offered ELSE list

(* Mutant: the tax is that of the list price.                               *)
FeesOnListPrice(list, final, down) ==
  Rounded(5 * list, down) + (IF final > 100000 THEN 0 ELSE 5000)
  - (IF list > final THEN list - final ELSE 0)

(* Tax and shipping less discount.                                          *)
Fees(list, final, down) ==
  Rounded(5 * final, down) + (IF final > 100000 THEN 0 ELSE 5000)
  - (IF list > final THEN list - final ELSE 0)

(* The total the agent computes: price, tax and shipping.                   *)
Total(final, down) == final + Rounded(5 * final, down) + (IF final > 100000 THEN 0 ELSE 5000)

(* The transaction and the proposal the agent forms.                        *)
Transaction(wants, sku, row, offer, down) ==
  LET list  == row.price * wants.qty
      final == FinalPrice(offer, list)
  IN  [merchant |-> row.merchant, sku |-> sku, category |-> row.category,
       qty |-> wants.qty, unit |-> row.price, subtotal |-> list,
       fees |-> Fees(list, final, "tax" \in down), total |-> Total(final, "tax" \in down),
       currency |-> "INR", pincode |-> wants.pincode, recurring |-> FALSE,
       version |-> None]
Proposal(tx) ==
  [merchant |-> tx.merchant, sku |-> tx.sku, category |-> tx.category, qty |-> tx.qty,
   total |-> tx.total, currency |-> "INR", pincode |-> tx.pincode, recurring |-> FALSE]

-------------------------------------------------------------------------------
(* The steps of a task                                                      *)

At(step) == task # None /\ task.pc = step
Ended == {"empty", "failed", "lost", "done"}
Evaluating == {"policy", "product", "evaluate"}

(* The world an evaluation looks at.                                        *)
Moment ==
  [contract |-> contract, policy |-> PolicyFor(task.tx, None),
   product |-> GetProduct(task.tx.sku)]

World == <<policies, active, written, contract, catalog, replay, changes>>

(* Search and ranking. One decision is followed (bound).                    *)
Discover(req) ==
  /\ task = None /\ last = None
  /\ LET wants == ExtractConstraints(req)
         found == ListProducts(catalog, wants.category, None, wants.ceiling)
         begun == [pc |-> "empty", req |-> req, wants |-> wants, sku |-> None,
                   row |-> None, asked |-> None, seen |-> None, offer |-> Refusal,
                   tx |-> None, contract |-> None, version |-> None, policy |-> None,
                   product |-> None]
     IN  \/ found = {} /\ task' = begun
         \/ \E sku \in Preferred(catalog, found, wants.installation) :
              task' = [begun EXCEPT !.pc = "negotiate", !.sku = sku, !.row = catalog[sku]]
  /\ UNCHANGED <<World, last, moments>>

(* Mutant: amounts are not validated.                                       *)
FormedUnvalidated(t, offer, down) ==
  [t EXCEPT !.pc = "contract", !.offer = offer,
            !.tx = Transaction(t.wants, t.sku, t.row, offer, down)]
(* The order that follows from an offer. Negative amounts do not validate.  *)
Formed(t, offer, down) ==
  LET tx == Transaction(t.wants, t.sku, t.row, offer, down) IN
  IF tx.subtotal < 0 THEN [t EXCEPT !.pc = "failed"]
  ELSE [t EXCEPT !.pc = "contract", !.offer = offer, !.tx = tx]

(* evaluate_negotiation: the policy is read, then the products.             *)
NegotiatePolicy ==
  /\ At("negotiate")
  /\ LET v == IF task.row.merchant = Merchant THEN Policies!ActiveVersion ELSE None
         policy == IF v = None THEN None ELSE policies[v]
         asking == [task EXCEPT !.asked = policy]
     IN  task' \in IF PolicyRefuses(policy, task.wants.category)
                     THEN {Formed(asking, Refusal, down) : down \in SUBSET {"tax"}}
                     ELSE {[asking EXCEPT !.pc = "offer"]}
  /\ UNCHANGED <<World, last, moments>>

Ask == [category |-> task.wants.category, sku |-> task.sku,
        target |-> task.wants.target, ceiling |-> task.wants.ceiling,
        installation |-> task.wants.installation, qty |-> task.wants.qty]

(* The product the offer is made for is read again: asked and seen are the  *)
(* policy and the product the negotiation has gone by.                      *)
NegotiateOffer ==
  /\ At("offer")
  /\ \E down \in SUBSET {"offer", "tax"} :
       \E offer \in Responses(task.asked, catalog, task.row.merchant, Ask, "offer" \in down) :
         task' = IF PercentageUndefined(task.asked, task.row.price * task.wants.qty,
                                        task.wants.target)
                   THEN [task EXCEPT !.pc = "failed"]
                   ELSE Formed([task EXCEPT !.seen = catalog[task.sku]], offer, down)
  /\ UNCHANGED <<World, last, moments>>

(* evaluate: contract, policy and product are read one after the other.     *)
ReadContract ==
  /\ At("contract")
  /\ task' = [task EXCEPT !.pc = "policy", !.contract = contract]
  /\ moments' = {Moment}
  /\ UNCHANGED <<World, last>>

(* Mutant: the policy the negotiation has read is used.                     *)
ReusePolicy ==
  /\ At("policy")
  /\ task' = [task EXCEPT !.pc = "product", !.policy = task.asked,
                         !.version = VersionFor(task.tx, None)]
  /\ UNCHANGED <<World, last, moments>>
ReadPolicy ==
  /\ At("policy")
  /\ task' = [task EXCEPT !.pc = "product", !.policy = PolicyFor(task.tx, None),
                         !.version = VersionFor(task.tx, None)]
  /\ UNCHANGED <<World, last, moments>>

ReadProduct ==
  /\ At("product")
  /\ task' = [task EXCEPT !.pc = "evaluate", !.product = GetProduct(task.tx.sku)]
  /\ UNCHANGED <<World, last, moments>>

(* The rules look at the clock; the budget and its reservation may answer   *)
(* anything. The decision is persisted, and paid for if it is an ALLOW.     *)
EvaluateOrder ==
  /\ At("evaluate")
  /\ \E available \in Budgets, edge \in Edges, reserved \in BOOLEAN :
       /\ available <= task.contract.aggregate
       /\ LET s == [tx |-> task.tx, proposal |-> Proposal(task.tx),
                    contract |-> [task.contract EXCEPT !.expired = contract.expired],
                    policy |-> task.policy, product |-> task.product,
                    available |-> available, edge |-> edge]
              o == Recorded(Outcome(s, task.version), reserved)
          IN  /\ last' = o
              /\ task' = [task EXCEPT !.pc = IF o.decision = "ALLOW" /\ task.req.pay
                                               THEN "pay" ELSE "done"]
  /\ UNCHANGED <<World, moments>>

(* execute_payment                                                          *)
PayOrder ==
  /\ At("pay")
  /\ task' = [task EXCEPT !.pc = "done"]
  /\ DeductUnits(task.sku, task.tx.qty)
  /\ UNCHANGED <<policies, active, written, contract, replay, changes, last, moments>>

-------------------------------------------------------------------------------
(* The world around it                                                      *)

WorldChanges ==
  /\ \/ Change(RevokeContract) \/ Change(ContractExpires)
     \/ Change(PublishPolicy) \/ Change(SellUnits)
  /\ UNCHANGED task
  /\ moments' = IF task # None /\ task.pc \in Evaluating
                  THEN moments \cup {Moment'} ELSE moments

(* A restart loses the task that is under way.                              *)
Crash ==
  /\ Change(Restart)
  /\ task' = IF task = None \/ task.pc \in Ended THEN task ELSE [task EXCEPT !.pc = "lost"]
  /\ UNCHANGED moments

(* Requests of others, and replays.                                         *)
AuthorizeDirectly ==
  /\ task = None
  /\ \E tx \in Txs, proposal \in Proposals \cup {None}, available \in Budgets,
        edge \in Edges, reserved \in BOOLEAN :
       available <= contract.aggregate /\ Evaluate(tx, proposal, available, edge, reserved)
  /\ UNCHANGED <<task, moments>>
Replay ==
  /\ \E target \in Targets : ReplayDecision(target)
  /\ UNCHANGED <<task, moments>>

ShopInit == Init /\ task = None /\ moments = {}

ShopNext ==
  \/ \E req \in Requests : Discover(req)
  \/ NegotiatePolicy \/ NegotiateOffer
  \/ ReadContract \/ ReadPolicy \/ ReadProduct \/ EvaluateOrder \/ PayOrder
  \/ WorldChanges \/ Crash \/ AuthorizeDirectly \/ Replay

ShopSpec == ShopInit /\ [][ShopNext]_shopVars

-------------------------------------------------------------------------------
Decided == task # None /\ last # None
OutcomeOf(rule) == EvaluateAll(last.facts)[rule]

(* Type invariant: a task that is decided has ended or is about to pay, one *)
(* that pays is allowed, and no quantity below zero gets to an evaluation.  *)
ShopTypeOK ==
  /\ TypeOK
  /\ task # None =>
       /\ task.pc \in {"negotiate", "offer", "contract", "pay"} \cup Evaluating \cup Ended
       /\ task.tx # None => task.tx.qty \in Nat
       /\ task.pc \in Evaluating => IsContract(task.contract) /\ moments # {}
       /\ task.pc = "pay" => IsOutcome(last) /\ last.decision = "ALLOW"
       /\ task.pc \in {"negotiate", "offer", "contract", "failed"} \cup Evaluating => last = None
  /\ \A m \in moments : IsContract(m.contract)

(* An agent's own order is never refused for its form: whatever was         *)
(* discounted, rounded and shipped, its parts add up to its total, it is    *)
(* what it was proposed to be, and the mutation detector finds nothing.     *)
FormRules ==
  {"RULE_CURRENCY_MATCH", "RULE_TRANSACTION_FEE_INTEGRITY",
   "RULE_USER_RECURRING_PERMISSION", "RULE_MERCHANT_SUBSTITUTION_POLICY",
   "RULE_TRANSACTION_MUTATION_MERCHANT", "RULE_TRANSACTION_MUTATION_SKU",
   "RULE_TRANSACTION_MUTATION_PRICE_DRIFT", "RULE_TRANSACTION_MUTATION_QUANTITY",
   "RULE_TRANSACTION_MUTATION_RECURRING"}
OwnOrderIntact ==
  Decided =>
    /\ \A rule \in FormRules : OutcomeOf(rule) \in {"PASS", "ABSENT"}
    /\ ~ DetectMutations(last.facts.tx, last.facts.proposal)

(* Negotiation and firewall, which read the policy and the product at       *)
(* different times and judge an order each in its own way, agree when both  *)
(* found the same, whatever changed and changed back in between: what was   *)
(* refused in the negotiation is not allowed, whatever the product is by    *)
(* then if it was the policy that refused; what was offered meets the       *)
(* merchant's rules, except for a ceiling that tax and shipping exceed, or  *)
(* that the list price exceeds, for which an offer of nothing is taken; and *)
(* it is discounted no further than the policy permits and the target asks  *)
(* for.                                                                     *)
NegotiationAgrees ==
  /\ Decided
  /\ last.facts.policy = task.asked
  /\ task.seen # None => last.facts.product = task.seen
  =>
    LET policy == last.facts.policy
        list   == task.tx.subtotal
        final  == FinalPrice(task.offer, list)
    IN
    /\ ~ task.offer.eligible => last.decision # "ALLOW"
    /\ task.offer.eligible =>
         /\ \A rule \in {"RULE_MERCHANT_AI_COMMERCE_ENABLED", "RULE_MERCHANT_CATEGORY_RESTRICTION",
                        "RULE_PRODUCT_INVENTORY_AVAILABLE", "RULE_PRODUCT_AI_ELIGIBILITY"} :
              OutcomeOf(rule) = "PASS"
         /\ \/ OutcomeOf("RULE_MERCHANT_MAX_ORDER_CAP") = "PASS"
            \/ final <= policy.maxOrder \/ task.offer.offered = 0
         /\ final < list =>
              /\ policy.discounts /\ task.wants.target <= final
              /\ 100 * (list - final) <= policy.maxDiscount * list + 50

(* An evaluation takes no lock: it reads contract, policy and product one   *)
(* after the other. Each was true at some time since it began, expiry even  *)
(* at its end, and unless the world changed twice under it, all were true   *)
(* at one time: the decision is one the firewall would have taken then.     *)
EvaluationIsSnapshot ==
  Decided =>
    LET s == last.facts IN
    /\ \E m \in moments : m.policy = s.policy
    /\ \E m \in moments : m.product = s.product
    /\ \E m \in moments : m.contract.revoked = s.contract.revoked
    /\ Cardinality(moments) <= 2 =>
         [contract |-> s.contract, policy |-> s.policy, product |-> s.product] \in moments

-------------------------------------------------------------------------------
(* What the repository says of the buyer agent and the code does not do; it *)
(* is refuted by a run of its own: no order above the hard ceiling a user   *)
(* gave is allowed.                                                         *)
WithinHardCeiling ==
  Decided /\ last.decision = "ALLOW" /\ task.req.ceiling # None =>
    task.tx.total <= task.req.ceiling

===============================================================================
