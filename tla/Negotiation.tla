------------------------------ MODULE Negotiation ------------------------------
(***************************************************************************)
(* Discovery of products (CatalogService.list_products) and the negotiation*)
(* with a merchant (commerce/negotiation.py), as operators on a catalog and*)
(* on the policy of the merchant. Money is in paise; percentages are whole.*)
(* A request for a negotiation has the fields category, sku (preferred, or *)
(* None), target, ceiling, installation and qty.                           *)
(***************************************************************************)
EXTENDS FirewallRules

(* The products an agent may buy, of a merchant or of all.                  *)
ListProducts(catalog, category, merchant, maxPrice) ==
  {sku \in DOMAIN catalog :
     /\ catalog[sku].aiEnabled
     /\ catalog[sku].category = category
     /\ merchant = None \/ catalog[sku].merchant = merchant
     /\ catalog[sku].price <= maxPrice}

(* The first of them in the order of their prices, where installation is    *)
(* required the first that has it, if any has; of equal prices either.      *)
Preferred(catalog, skus, installation) ==
  LET installed == {sku \in skus : catalog[sku].installation}
      fitting == IF installation /\ installed # {} THEN installed ELSE skus
  IN  {sku \in fitting : \A other \in fitting : catalog[sku].price <= catalog[other].price}

(* The candidates of a negotiation, and what it chooses of them.            *)
Candidates(catalog, merchant, ask) ==
  ListProducts(catalog, ask.category, merchant, ask.ceiling)
Chosen(catalog, merchant, ask) ==
  LET candidates == Candidates(catalog, merchant, ask) IN
  IF ask.sku \in candidates THEN {ask.sku}
  ELSE Preferred(catalog, candidates, ask.installation)

(* round(x, 2) of an amount in hundredths of paise. A tie goes either way:  *)
(* floats are seldom exactly on it.                                         *)
Rounded(hundredths, down) == (hundredths + (IF down THEN 49 ELSE 50)) \div 100

(* Mutant: the discount that is needed, whatever the policy permits.        *)
OfferedAnyDiscount(policy, list, target, down) ==
  IF policy.discounts /\ list > target THEN target ELSE list

(* The price of the whole quantity: discounted towards the target as far as *)
(* the policy permits.                                                      *)
OfferedPrice(policy, list, target, down) ==
  LET needed == 100 * (list - target)
      most == policy.maxDiscount * list
  IN  IF ~ (policy.discounts /\ list > target) THEN list
      ELSE IF needed <= most THEN target
      ELSE Rounded(100 * list - most, down)

(* The percentage a discount on nothing would be is not defined: an error.  *)
PercentageUndefined(policy, list, target) ==
  policy.discounts /\ list = 0 /\ target < 0

Refusal == [eligible |-> FALSE, offered |-> None]

(* What is refused before the catalog is looked at.                         *)
PolicyRefuses(policy, category) ==
  policy = None \/ ~ policy.aiSales \/ ~ Listed(category, policy.categories)

(* Mutant: the merchant's ceiling is compared with the price of one unit.   *)
OfferUnitCeiling(policy, product, ask, down) ==
  LET offered == OfferedPrice(policy, product.price * ask.qty, ask.target, down) IN
  IF product.inventory < ask.qty \/ product.price > policy.maxOrder THEN Refusal
  ELSE [eligible |-> TRUE, offered |-> offered]

(* The offer for the product that was chosen.                               *)
Offer(policy, product, ask, down) ==
  LET offered == OfferedPrice(policy, product.price * ask.qty, ask.target, down) IN
  IF product.inventory < ask.qty \/ offered > policy.maxOrder THEN Refusal
  ELSE [eligible |-> TRUE, offered |-> offered]

(* What a merchant whose policy does not refuse may answer.                 *)
Responses(policy, catalog, merchant, ask, down) ==
  IF Candidates(catalog, merchant, ask) = {} THEN {Refusal}
  ELSE {Offer(policy, catalog[sku], ask, down) : sku \in Chosen(catalog, merchant, ask)}

===============================================================================
