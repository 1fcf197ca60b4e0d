------------------------------ MODULE MCShopping ------------------------------
(* Values of the constants of Shopping for TLC. Prices lie on both sides of *)
(* the thresholds for shipping, discounts and the merchant's ceiling; tax   *)
(* and discount of some of them fall on half a paisa.                       *)
EXTENDS MCFirewall, Shopping

MCCatalog ==
  [sku \in {"oats", "radio", "tv", "cream"} |->
     CASE sku = "oats"  -> [Oats EXCEPT !.price = 104910]
       [] sku = "radio" -> [Oats EXCEPT !.category = "electronics", !.price = 50000,
                                        !.inventory = 1]
       [] sku = "tv"    -> [Oats EXCEPT !.category = "electronics", !.price = 6800010,
                                        !.inventory = 1, !.installation = TRUE]
       [] sku = "cream" -> [Oats EXCEPT !.category = "personal_care",
                                        !.merchant = "apothecary"]]

OatsPlease ==
  [goal |-> {"groceries"}, preferred |-> None, target |-> None, ceiling |-> 100000,
   installation |-> FALSE, pincode |-> None, qty |-> 1, pay |-> TRUE]
TvPlease ==
  [OatsPlease EXCEPT !.goal = {"electronics", "installation"}, !.target = 6400000,
                     !.ceiling = None]
MCRequests ==
  {OatsPlease,
   [OatsPlease EXCEPT !.qty = 2], [OatsPlease EXCEPT !.qty = -1],
   TvPlease,
   [TvPlease EXCEPT !.goal = {}, !.preferred = "electronics", !.pay = FALSE],
   [TvPlease EXCEPT !.ceiling = 40000],
   [TvPlease EXCEPT !.target = -1], [TvPlease EXCEPT !.target = -1, !.qty = 0],
   [OatsPlease EXCEPT !.goal = {"personal_care"}]}

ShopPolicy ==
  [BasePolicy EXCEPT !.maxOrder = 6500000, !.maxDiscount = 5,
                     !.categories = {"groceries", "electronics"}]
ShopSeedPolicies ==
  [v \in {"v14", "v15"} |->
     IF v = "v14" THEN [ShopPolicy EXCEPT !.stepUp = {}] ELSE ShopPolicy]
ShopDrafts ==
  {[ShopPolicy EXCEPT !.aiSales = FALSE],
   [ShopPolicy EXCEPT !.maxOrder = 199000, !.maxDiscount = 100, !.categories = {}]}

ShopContract ==
  [BaseContract EXCEPT !.categories = {"groceries", "electronics"},
                       !.maxOrder = 7000000, !.aggregate = 7500000]
ShopContracts == {ShopContract}

DirectTx ==
  [BaseTx EXCEPT !.unit = 104910, !.subtotal = 104910, !.fees = 5246, !.total = 110156]
DirectTxs == {DirectTx, [DirectTx EXCEPT !.version = "v14"], [DirectTx EXCEPT !.pincode = "110001"]}
DirectProposals == {[BaseProposal EXCEPT !.total = 100000]}
===============================================================================
