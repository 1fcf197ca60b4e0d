---------------------------- MODULE FirewallRules ----------------------------
(***************************************************************************)
(* The rules of the authorization firewall (authorization/rules.py), the   *)
(* decision they resolve to (authorization/engine.py) and the mutation     *)
(* detector (authorization/mutation.py), as operators on records.          *)
(*                                                                         *)
(* Money is in paise: every amount has at most two decimals. A situation s *)
(* is what one evaluation reads:                                           *)
(*   s.tx         the executable transaction                               *)
(*   s.proposal   the agent's proposal, or None                            *)
(*   s.contract   the delegation, with the standing it has when it is read *)
(*   s.policy     the policy of the merchant, or None                      *)
(*   s.product    the product of the sku, or None                          *)
(*   s.available  the budget that is left                                  *)
(*   s.edge       the comparisons of floats that, on an exact tie with     *)
(*                their threshold, come out on its far side                *)
(***************************************************************************)
EXTENDS Integers

CONSTANT None

Impacts == {"ABSENT", "PASS", "CHALLENGE", "DENY"}

Larger(x, y) == IF x > y THEN x ELSE y
Magnitude(x) == IF x < 0 THEN -x ELSE x

(* A rule that fails denies; one that may be softened asks for approval     *)
(* when the contract or the policy says so.                                 *)
Require(holds) == IF holds THEN "PASS" ELSE "DENY"
RequireOr(holds, softened) ==
  IF holds THEN "PASS" ELSE IF softened THEN "CHALLENGE" ELSE "DENY"

(* An empty list restricts nothing.                                         *)
Listed(x, list) == list = {} \/ x \in list

-------------------------------------------------------------------------------
(* The contract                                                             *)

ContractExpiry(s) == Require(~ s.contract.expired)
ContractRevocation(s) == Require(~ s.contract.revoked)

(* Mutant: a softened rule passes.                                          *)
MerchantAllowlistSoft(s) ==
  Require(\/ Listed(s.tx.merchant, s.contract.merchants)
          \/ "new_merchant" \in s.contract.conditions)
UserMerchantAllowlist(s) ==
  RequireOr(Listed(s.tx.merchant, s.contract.merchants),
            "new_merchant" \in s.contract.conditions)

(* Mutant: the category of the proposal is looked at, if there is one.      *)
ProposedCategoryAllowlist(s) ==
  LET of == IF s.proposal = None THEN s.tx ELSE s.proposal
  IN  Require(Listed(of.category, s.contract.categories))
UserCategoryAllowlist(s) == Require(Listed(s.tx.category, s.contract.categories))
UserSingleOrderCap(s) == Require(s.tx.total <= s.contract.maxOrder)
UserAggregateBudget(s) == Require(s.tx.total <= s.available)
(* Mutant: the implication is the wrong way round.                          *)
RecurringRequired(s) == Require(s.contract.recurring => s.tx.recurring)
UserRecurringPermission(s) == Require(s.tx.recurring => s.contract.recurring)
UserPincode(s) ==
  RequireOr(s.tx.pincode = None \/ Listed(s.tx.pincode, s.contract.pincodes),
            "unapproved_pincode" \in s.contract.conditions)

-------------------------------------------------------------------------------
(* The facts of the transaction                                             *)

CurrencyMatch(s) == Require(s.tx.currency = "INR")

(* The declared total is compared with the declared parts, to five paise;   *)
(* the parts are not compared with unit price and quantity.                 *)
FeeIntegrity(s) ==
  LET gap == Magnitude(s.tx.subtotal + s.tx.fees - s.tx.total)
  IN  Require(gap < 5 \/ (gap = 5 /\ "fee" \notin s.edge))

-------------------------------------------------------------------------------
(* The merchant's policy                                                    *)

IfPresent(x, impact) == IF x = None THEN "ABSENT" ELSE impact

MerchantPolicyPresent(s) == IF s.policy = None THEN "DENY" ELSE "ABSENT"
MerchantAiEnabled(s) == IfPresent(s.policy, Require(s.policy.aiSales))
MerchantOrderCap(s) ==
  IfPresent(s.policy, RequireOr(s.tx.total <= s.policy.maxOrder,
                                "high_value_order" \in s.policy.stepUp))
MerchantCategory(s) ==
  IfPresent(s.policy, Require(Listed(s.tx.category, s.policy.categories)))
MerchantSubstitutions(s) ==
  IfPresent(s.policy,
    RequireOr(\/ s.proposal = None
              \/ s.proposal.sku = s.tx.sku
              \/ s.policy.substitutions,
              "product_substitution" \in s.policy.stepUp))

-------------------------------------------------------------------------------
(* The product                                                              *)

ProductInventory(s) == IfPresent(s.product, Require(s.tx.qty <= s.product.inventory))
ProductAiEnabled(s) == IfPresent(s.product, Require(s.product.aiEnabled))

-------------------------------------------------------------------------------
(* The proposal                                                             *)

MutationMerchant(s) ==
  IfPresent(s.proposal, Require(s.tx.merchant = s.proposal.merchant))
MutationSku(s) ==
  IfPresent(s.proposal, RequireOr(s.tx.sku = s.proposal.sku,
                                  "substituted_sku" \in s.contract.conditions))

(* More than ten percent over the estimate, which counts as a rupee at least*)
MutationPriceDrift(s) ==
  LET drift == 10 * (s.tx.total - s.proposal.total)
      base  == Larger(s.proposal.total, 100)
  IN  IfPresent(s.proposal,
        RequireOr(drift < base \/ (drift = base /\ "drift" \notin s.edge),
                  "price_increase_over_10_percent" \in s.contract.conditions))
MutationQuantity(s) == IfPresent(s.proposal, Require(s.tx.qty = s.proposal.qty))
MutationRecurring(s) ==
  IfPresent(s.proposal, Require(s.tx.recurring => s.proposal.recurring))

-------------------------------------------------------------------------------
(* The decision                                                             *)

(* evaluate_all: the outcome of every rule, ABSENT when it is not evaluated.*)
EvaluateAll(s) ==
  [RULE_USER_CONTRACT_EXPIRY           |-> ContractExpiry(s),
   RULE_USER_CONTRACT_REVOCATION       |-> ContractRevocation(s),
   RULE_USER_MERCHANT_ALLOWLIST        |-> UserMerchantAllowlist(s),
   RULE_USER_CATEGORY_ALLOWLIST        |-> UserCategoryAllowlist(s),
   RULE_USER_SINGLE_ORDER_CAP          |-> UserSingleOrderCap(s),
   RULE_USER_AGGREGATE_BUDGET          |-> UserAggregateBudget(s),
   RULE_USER_RECURRING_PERMISSION      |-> UserRecurringPermission(s),
   RULE_USER_PINCODE_RESTRICTION       |-> UserPincode(s),
   RULE_CURRENCY_MATCH                 |-> CurrencyMatch(s),
   RULE_TRANSACTION_FEE_INTEGRITY      |-> FeeIntegrity(s),
   RULE_MERCHANT_POLICY_PRESENT        |-> MerchantPolicyPresent(s),
   RULE_MERCHANT_AI_COMMERCE_ENABLED   |-> MerchantAiEnabled(s),
   RULE_MERCHANT_MAX_ORDER_CAP         |-> MerchantOrderCap(s),
   RULE_MERCHANT_CATEGORY_RESTRICTION  |-> MerchantCategory(s),
   RULE_MERCHANT_SUBSTITUTION_POLICY   |-> MerchantSubstitutions(s),
   RULE_PRODUCT_INVENTORY_AVAILABLE    |-> ProductInventory(s),
   RULE_PRODUCT_AI_ELIGIBILITY         |-> ProductAiEnabled(s),
   RULE_TRANSACTION_MUTATION_MERCHANT  |-> MutationMerchant(s),
   RULE_TRANSACTION_MUTATION_SKU       |-> MutationSku(s),
   RULE_TRANSACTION_MUTATION_PRICE_DRIFT |-> MutationPriceDrift(s),
   RULE_TRANSACTION_MUTATION_QUANTITY  |-> MutationQuantity(s),
   RULE_TRANSACTION_MUTATION_RECURRING |-> MutationRecurring(s)]

RulesWith(outcomes, impact) == {r \in DOMAIN outcomes : outcomes[r] = impact}

(* Mutant: the rules that ask for approval decide first.                    *)
ResolveChallengesFirst(outcomes) ==
  IF RulesWith(outcomes, "CHALLENGE") # {} THEN "CHALLENGE"
  ELSE IF RulesWith(outcomes, "DENY") # {} THEN "DENY"
  ELSE "ALLOW"

(* One failed rule that denies decides; without one, a failed rule that asks*)
(* for approval; without either, the order is allowed if its budget can be  *)
(* reserved.                                                                *)
Resolve(outcomes) ==
  IF RulesWith(outcomes, "DENY") # {} THEN "DENY"
  ELSE IF RulesWith(outcomes, "CHALLENGE") # {} THEN "CHALLENGE"
  ELSE "ALLOW"

Decide(s) == Resolve(EvaluateAll(s))

(* How restrictive a decision is.                                           *)
Rank(decision) ==
  CASE decision = "ALLOW" -> 0 [] decision = "CHALLENGE" -> 1 [] decision = "DENY" -> 2

-------------------------------------------------------------------------------
(* Mutant: the detector looks at the rupees of a drift only.                *)
MaterialDriftInRupees(tx, proposal) == tx.total - proposal.total > 20000

(* MutationDetector.detect_mutations: whether a difference it calls material*)
(* is found. It calls a total material from 200 rupees, or five percent     *)
(* after the percentage is rounded to two decimals, over the estimate.      *)
MaterialDrift(tx, proposal) ==
  LET drift == tx.total - proposal.total
      base  == Larger(proposal.total, 100)
  IN  /\ Magnitude(drift) > 5
      /\ 20000 * drift > 1001 * base \/ drift > 20000

DetectMutations(tx, proposal) ==
  /\ proposal # None
  /\ \/ tx.merchant # proposal.merchant
     \/ tx.sku # proposal.sku
     \/ tx.category # proposal.category
     \/ tx.qty # proposal.qty
     \/ MaterialDrift(tx, proposal)
     \/ tx.recurring # proposal.recurring
     \/ /\ proposal.pincode # None /\ tx.pincode # None
        /\ proposal.pincode # tx.pincode

===============================================================================
