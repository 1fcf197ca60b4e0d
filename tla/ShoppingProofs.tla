---------------------------- MODULE ShoppingProofs ----------------------------
(***************************************************************************)
(* Proofs about the buyer agent, for every set of requests, products,      *)
(* policies and delegations, and any number of changes of the world around *)
(* a task.                                                                 *)
(***************************************************************************)
EXTENDS Shopping, ReplayProofs, FiniteSetTheorems

-------------------------------------------------------------------------------
(* The inductive invariant                                                  *)

(* The world, whatever the task does.                                       *)
WorldTyped ==
  /\ PoliciesWritten /\ RowsNumbered
  /\ IsContract(contract)
  /\ CatalogKnown
  /\ RecordsTyped

(* A task before its decision; one that has no order.                       *)
Ahead == {"negotiate", "offer", "contract"} \cup Evaluating
Unordered == {"empty", "failed", "negotiate", "offer"}

IsTask(t) ==
  /\ t = [pc |-> t.pc, req |-> t.req, wants |-> t.wants, sku |-> t.sku, row |-> t.row,
          asked |-> t.asked, seen |-> t.seen, offer |-> t.offer, tx |-> t.tx,
          contract |-> t.contract, version |-> t.version, policy |-> t.policy,
          product |-> t.product]
  /\ t.req \in Requests /\ t.wants = ExtractConstraints(t.req)

TaskShaped ==
  task # None =>
    /\ IsTask(task)
    /\ task.pc \in Ahead \cup Ended \cup {"pay"}
    /\ task.pc \in Unordered => task.tx = None
    /\ task.pc \in Unordered \cup Ahead => last = None
    /\ task.pc = "offer" =>
         task.asked \in Contents /\ ~ PolicyRefuses(task.asked, task.wants.category)

(* The product the task is for is as seeded, but for its stock, and meets   *)
(* what was asked for.                                                      *)
RowOf(t) ==
  /\ t.sku \in DOMAIN SeedCatalog
  /\ t.row = [SeedCatalog[t.sku] EXCEPT !.inventory = t.row.inventory]
  /\ t.row.inventory \in Nat
  /\ t.row.aiEnabled /\ t.row.category = t.wants.category
  /\ t.row.price <= t.wants.ceiling
RowFound == task # None /\ task.pc # "empty" => RowOf(task)

ListPrice(t) == t.row.price * t.wants.qty

(* Why there is no offer, in terms of the policy and the product the        *)
(* negotiation has seen, and what an offer has to meet.                     *)
Refused(t) ==
  /\ t.offer = Refusal
  /\ \/ PolicyRefuses(t.asked, t.wants.category)
     \/ t.seen # None /\ t.seen.inventory \in Nat /\ t.seen.inventory < t.wants.qty
     \/ t.asked \in Contents /\ ListPrice(t) > t.asked.maxOrder
Accepted(t) ==
  /\ t.asked \in Contents /\ ~ PolicyRefuses(t.asked, t.wants.category)
  /\ t.seen # None /\ t.seen.aiEnabled
  /\ t.seen.inventory \in Nat /\ t.wants.qty <= t.seen.inventory
  /\ \E down \in SUBSET {"offer", "tax"} :
       LET offered == OfferedPrice(t.asked, ListPrice(t), t.wants.target, "offer" \in down) IN
       /\ t.offer = [eligible |-> TRUE, offered |-> offered]
       /\ offered <= t.asked.maxOrder
Answered(t) == Refused(t) \/ Accepted(t)

Formulated(t) ==
  /\ ListPrice(t) >= 0
  /\ \E down \in SUBSET {"offer", "tax"} :
       t.tx = Transaction(t.wants, t.sku, t.row, t.offer, down)

HasOrder ==
  /\ task # None
  /\ \/ task.pc \in {"contract", "pay", "done"} \cup Evaluating
     \/ task.tx # None
     \/ last # None

(* The order follows from an answer to the negotiation.                     *)
OrderFormed ==
  HasOrder => task.pc \notin Unordered /\ Formulated(task) /\ Answered(task)

(* The decision is about the order and what the evaluation has read.        *)
Judged ==
  /\ Decided =>
       LET s == last.facts IN
       /\ task.pc \in {"pay", "done", "lost"}
       /\ s = Facts(task.tx, Proposal(task.tx), s.contract, task.policy, task.product,
                    s.available, s.edge)
       /\ last.decision = "ALLOW" =>
            \A r \in DOMAIN EvaluateAll(s) : EvaluateAll(s)[r] \in {"PASS", "ABSENT"}
  /\ task # None /\ task.pc = "pay" => IsOutcome(last) /\ last.decision = "ALLOW"

TaskInv == TaskShaped /\ RowFound /\ OrderFormed /\ Judged

(* Contracts that differ in their standing only.                            *)
SameTerms(c, d) == c = [d EXCEPT !.revoked = c.revoked, !.expired = c.expired]

(* What may change under an evaluation, and moments that differ in no more  *)
(* than that.                                                               *)
Aspects == {"revoked", "expired", "policy", "product"}
AlikeBut(aspect, m, n) ==
  /\ aspect = "revoked" \/ m.contract.revoked = n.contract.revoked
  /\ aspect = "expired" \/ m.contract.expired = n.contract.expired
  /\ aspect = "policy" \/ m.policy = n.policy
  /\ aspect = "product" \/ m.product = n.product

(* The moments of an evaluation under way: the present one is among them,   *)
(* what was read was true in one of them, and if there are two, they differ *)
(* in one thing.                                                            *)
Snapshot ==
  task # None /\ task.pc \in Evaluating =>
    /\ IsFiniteSet(moments) /\ Moment \in moments
    /\ \A m \in moments :
         /\ m = [contract |-> m.contract, policy |-> m.policy, product |-> m.product]
         /\ SameTerms(m.contract, contract)
    /\ IsContract(task.contract) /\ SameTerms(task.contract, contract)
    /\ \E m \in moments : m.contract.revoked = task.contract.revoked
    /\ task.pc \in {"product", "evaluate"} => \E m \in moments : m.policy = task.policy
    /\ task.pc = "evaluate" => \E m \in moments : m.product = task.product
    /\ Cardinality(moments) <= 2 =>
         \E aspect \in Aspects : \A m, n \in moments : AlikeBut(aspect, m, n)
MomentsTyped == \A m \in moments : IsContract(m.contract)

ShopInv ==
  /\ WorldTyped
  /\ TaskInv
  /\ Snapshot
  /\ MomentsTyped
  /\ EvaluationIsSnapshot

-------------------------------------------------------------------------------
(* Amounts                                                                  *)

(* What a merchant offers is at most the list price, and discounted no      *)
(* further than to the target and by the percentage the policy permits.     *)
LEMMA OfferedBounds ==
  ASSUME NEW policy, IsPolicy(policy), NEW list \in Nat, NEW target \in Int,
         NEW down
  PROVE  LET offered == OfferedPrice(policy, list, target, down) IN
         /\ offered \in Int /\ offered <= list
         /\ offered < list =>
              /\ policy.discounts /\ target <= offered
              /\ 100 * (list - offered) <= policy.maxDiscount * list + 50
<1>. DEFINE most == policy.maxDiscount * list
            rounded == Rounded(100 * list - most, down)
<1>1. most \in Nat
  BY DEF IsPolicy
<1>. HIDE DEF most
<1>2. /\ rounded \in Int /\ rounded <= list /\ 100 * (list - rounded) <= most + 50
      /\ 100 * (list - target) > most => target <= rounded
  BY <1>1 DEF Rounded
<1>. HIDE DEF rounded
<1>3. OfferedPrice(policy, list, target, down) =
        IF ~ (policy.discounts /\ list > target) THEN list
        ELSE IF 100 * (list - target) <= most THEN target ELSE rounded
  BY DEF OfferedPrice, most, rounded
<1>. QED
  BY <1>1, <1>2, <1>3 DEF most

(* The parts of an order add up to its total, which is no less than its     *)
(* price.                                                                   *)
LEMMA PartsAddUp ==
  ASSUME NEW list \in Nat, NEW final \in Int, final <= list, NEW down
  PROVE  /\ Fees(list, final, down) \in Int /\ Total(final, down) \in Int
         /\ list + Fees(list, final, down) = Total(final, down)
         /\ final >= 0 => final <= Total(final, down)
BY DEF Fees, Total, Rounded

(* The constraints of a request carry its quantity and a target.            *)
LEMMA WantsTyped ==
  ASSUME NEW req \in Requests
  PROVE  /\ ExtractConstraints(req).qty \in Int /\ ExtractConstraints(req).qty = req.qty
         /\ ExtractConstraints(req).target \in Int
<1>1. req.qty \in Int /\ req.target \in Int \cup {None}
  BY ShoppingAssumption
<1>2. OrElse(req.target, 7000000) \in Int
  BY <1>1 DEF OrElse
<1>. QED
  BY <1>1, <1>2 DEF ExtractConstraints

(* A product of whatever stock is one.                                      *)
LEMMA AnyStock ==
  ASSUME NEW sku \in DOMAIN SeedCatalog, NEW n \in Nat
  PROVE  [SeedCatalog[sku] EXCEPT !.inventory = n] # None
<1>1. PICK p : p = SeedCatalog[sku]
  OBVIOUS
<1>2. IsProduct(p) /\ None \notin WithAnyStock(p)
  BY <1>1, FirewallAssumption, ShoppingAssumption
<1>3. [p EXCEPT !.inventory = n] =
        [merchant |-> p.merchant, category |-> p.category, price |-> p.price,
         inventory |-> n, aiEnabled |-> p.aiEnabled, installation |-> p.installation]
  BY <1>2 DEF IsProduct
<1>4. [p EXCEPT !.inventory = n] \in WithAnyStock(p)
  BY <1>3 DEF WithAnyStock
<1>. QED
  BY <1>1, <1>2, <1>4

(* The product of a task, and its price.                                    *)
LEMMA RowTyped ==
  ASSUME NEW t, RowOf(t)
  PROVE  /\ t.row.price \in Nat \ {0} /\ t.row.inventory \in Nat /\ t.row # None
         /\ t.row.merchant = SeedCatalog[t.sku].merchant
         /\ t.row.category = SeedCatalog[t.sku].category
         /\ t.row.price = SeedCatalog[t.sku].price
         /\ t.row.aiEnabled = SeedCatalog[t.sku].aiEnabled
<1>1. IsProduct(SeedCatalog[t.sku]) /\ SeedCatalog[t.sku].price # 0
  BY FirewallAssumption, ShoppingAssumption DEF RowOf
<1>2. PICK p, n : /\ p = SeedCatalog[t.sku] /\ n = t.row.inventory
                  /\ t.row = [p EXCEPT !.inventory = n]
                  /\ n \in Nat /\ IsProduct(p)
  BY <1>1 DEF RowOf
<1>3. t.row # None
  BY <1>2, AnyStock DEF RowOf
<1>4. t.row = [merchant |-> p.merchant, category |-> p.category, price |-> p.price,
               inventory |-> n, aiEnabled |-> p.aiEnabled, installation |-> p.installation]
  BY <1>2 DEF IsProduct
<1>5. p.price \in Nat \ {0}
  BY <1>1, <1>2 DEF IsProduct
<1>. QED
  BY <1>2, <1>3, <1>4, <1>5

(* No quantity below zero has a price that validates.                       *)
LEMMA QuantityTyped ==
  ASSUME NEW price \in Nat \ {0}, NEW qty \in Int, price * qty >= 0
  PROVE  qty \in Nat
<1>1. CASE qty < 0
  <2>1. -qty \in Nat \ {0}
    BY <1>1
  <2>2. \A x, y \in Nat \ {0} : x * y > 0
    OBVIOUS
  <2>3. price * (-qty) > 0
    BY <2>1, <2>2
  <2>4. price * (-qty) = -(price * qty)
    OBVIOUS
  <2>. QED
    BY <2>3, <2>4
<1>. QED
  BY <1>1

-------------------------------------------------------------------------------
(* The world                                                                *)

(* Every step is one of the firewall and the world around it, the decision  *)
(* of the task or its payment.                                              *)
LEMMA FirewallOrTask ==
  ASSUME [ShopNext]_shopVars
  PROVE  [Next]_vars \/ EvaluateOrder \/ PayOrder
BY DEF ShopNext, shopVars, vars, World, Discover, NegotiatePolicy, NegotiateOffer,
    ReadContract, ReadPolicy, ReadProduct, WorldChanges, Crash, AuthorizeDirectly, Replay,
    Next

(* The product a task is for is on offer as long as it was found.           *)
LEMMA SkuKnown ==
  ASSUME CatalogKnown, NEW t, RowOf(t)
  PROVE  /\ t.sku \in DOMAIN catalog
         /\ catalog[t.sku] = [t.row EXCEPT !.inventory = catalog[t.sku].inventory]
         /\ catalog[t.sku].inventory \in Nat
         /\ catalog[t.sku] # None
         /\ catalog[t.sku].merchant = t.row.merchant
         /\ catalog[t.sku].category = t.row.category
         /\ catalog[t.sku].price = t.row.price
         /\ catalog[t.sku].aiEnabled = t.row.aiEnabled
<1>1. IsProduct(SeedCatalog[t.sku]) /\ t.sku \in DOMAIN SeedCatalog
  BY FirewallAssumption DEF RowOf
<1>2. /\ t.sku \in DOMAIN catalog
      /\ catalog[t.sku] = [SeedCatalog[t.sku] EXCEPT !.inventory = catalog[t.sku].inventory]
      /\ catalog[t.sku].inventory \in Nat
  BY <1>1 DEF CatalogKnown
<1>3. [SeedCatalog[t.sku] EXCEPT !.inventory = catalog[t.sku].inventory] # None
  BY <1>1, <1>2, AnyStock
<1>4. PICK p, n, m : /\ p = SeedCatalog[t.sku] /\ n = t.row.inventory
                     /\ m = catalog[t.sku].inventory
                     /\ t.row = [p EXCEPT !.inventory = n]
                     /\ catalog[t.sku] = [p EXCEPT !.inventory = m]
                     /\ m \in Nat /\ IsProduct(p)
  BY <1>1, <1>2 DEF RowOf
<1>5. [p EXCEPT !.inventory = m] = [[p EXCEPT !.inventory = n] EXCEPT !.inventory = m]
  BY <1>4 DEF IsProduct
<1>6. \A x : [p EXCEPT !.inventory = x] =
             [merchant |-> p.merchant, category |-> p.category, price |-> p.price,
              inventory |-> x, aiEnabled |-> p.aiEnabled, installation |-> p.installation]
  BY <1>4 DEF IsProduct
<1>. QED
  BY <1>2, <1>3, <1>4, <1>5, <1>6

(* An order is for a product that was found, its quantity and its price are *)
(* not negative.                                                            *)
LEMMA OrderTyped ==
  ASSUME TaskShaped, RowFound, OrderFormed, HasOrder
  PROVE  /\ IsTask(task) /\ RowOf(task)
         /\ task.wants.qty \in Nat /\ ListPrice(task) \in Nat /\ task.wants.target \in Int
         /\ task.tx.qty = task.wants.qty /\ task.tx.sku = task.sku
         /\ task.tx.subtotal = ListPrice(task)
<1>1. IsTask(task) /\ RowOf(task) /\ Formulated(task)
  BY DEF TaskShaped, RowFound, OrderFormed, HasOrder, Unordered
<1>2. task.wants.qty \in Int /\ task.wants.target \in Int
  BY <1>1, WantsTyped DEF IsTask
<1>3. task.row.price \in Nat \ {0}
  BY <1>1, RowTyped
<1>4. task.wants.qty \in Nat
  BY <1>1, <1>2, <1>3, QuantityTyped DEF Formulated, ListPrice
<1>5. ListPrice(task) \in Nat
  BY <1>3, <1>4 DEF ListPrice
<1>6. /\ task.tx.qty = task.wants.qty /\ task.tx.sku = task.sku
      /\ task.tx.subtotal = ListPrice(task)
  BY <1>1 DEF Formulated, Transaction, ListPrice
<1>. QED
  BY <1>1, <1>2, <1>4, <1>5, <1>6

(* The decision of the task is a record like any other.                     *)
LEMMA DecisionTyped ==
  ASSUME WorldTyped, TaskShaped, EvaluateOrder
  PROVE  WorldTyped' /\ IsOutcome(last')
<1>1. last = None
  BY DEF EvaluateOrder, At, TaskShaped, Ahead, Evaluating
<1>2. IsOutcome(last')
  BY OutcomeShape DEF EvaluateOrder
<1>3. UNCHANGED World
  BY DEF EvaluateOrder
<1>4. RecordsTyped'
  BY <1>1, <1>2, <1>3 DEF WorldTyped, RecordsTyped, World, IsOutcome
<1>5. (PoliciesWritten /\ RowsNumbered /\ IsContract(contract) /\ CatalogKnown)'
  BY <1>3 DEF WorldTyped, World, PoliciesWritten, RowsNumbered, IsContract, CatalogKnown
<1>. QED
  BY <1>2, <1>4, <1>5 DEF WorldTyped

(* A payment leaves the world a world.                                      *)
LEMMA PaymentTyped ==
  ASSUME WorldTyped, TaskShaped, RowFound, OrderFormed, PayOrder
  PROVE  WorldTyped'
<1>1. /\ RowOf(task) /\ task.tx.qty \in Nat
  BY OrderTyped DEF PayOrder, At, HasOrder
<1>2. task.sku \in DOMAIN catalog
  BY <1>1, SkuKnown DEF WorldTyped
<1>3. CatalogKnown'
  BY <1>1, <1>2, DeductKnown DEF PayOrder, WorldTyped
<1>. QED
  BY <1>3 DEF PayOrder, WorldTyped, PoliciesWritten, RowsNumbered, IsContract,
     RecordsTyped, IsOutcome

(* No step of a task or around it takes the world out of its types.         *)
LEMMA NextWorldTyped ==
  ASSUME WorldTyped, TaskShaped, RowFound, OrderFormed, [ShopNext]_shopVars
  PROVE  WorldTyped'
<1>1. CASE [Next]_vars
  BY <1>1, NextWorld, NextNumbered, NextCatalog, NextRecords DEF WorldTyped
<1>. QED
  BY <1>1, FirewallOrTask, DecisionTyped, PaymentTyped

-------------------------------------------------------------------------------
(* The task, step by step                                                   *)

(* What is said of a task's product and offer depends on its locals only.   *)
SameLocals(t, u) ==
  /\ t.req = u.req /\ t.wants = u.wants /\ t.sku = u.sku /\ t.row = u.row

(* A task that is found its product keeps it.                               *)
LEMMA RowKept ==
  ASSUME NEW t, NEW u, SameLocals(t, u), RowOf(t)
  PROVE  RowOf(u) /\ ListPrice(u) = ListPrice(t)
BY DEF SameLocals, RowOf, ListPrice

(* Of an answer to the negotiation an order is formed, or none if its       *)
(* amounts do not validate.                                                 *)
LEMMA FormedOrder ==
  ASSUME NEW t, IsTask(t), RowOf(t), t.tx = None,
         NEW offer, NEW down \in SUBSET {"offer", "tax"},
         ListPrice(t) >= 0 => Answered([t EXCEPT !.offer = offer]),
         task' = Formed(t, offer, down), last = None, UNCHANGED <<World, last>>
  PROVE  TaskInv'
<1>1. PICK tx : tx = Transaction(t.wants, t.sku, t.row, offer, down)
  OBVIOUS
<1>2. tx.subtotal = ListPrice(t)
  BY <1>1 DEF Transaction, ListPrice
<1>3. /\ t.wants.qty \in Int /\ t.row.price \in Nat
  BY RowTyped, WantsTyped DEF IsTask
<1>4. Judged'
  <2>1. task'.pc \in {"failed", "contract"}
    BY DEF Formed, IsTask
  <2>. QED
    BY <2>1 DEF Judged, Decided
<1>5. CASE tx.subtotal < 0
  <2>1. PICK new : new = [t EXCEPT !.pc = "failed"]
    OBVIOUS
  <2>2. task' = new
    BY <1>1, <1>5, <2>1 DEF Formed
  <2>3. IsTask(new) /\ new.pc = "failed" /\ new.tx = None /\ SameLocals(t, new)
    BY <2>1 DEF IsTask, SameLocals
  <2>4. TaskShaped'
    BY <2>2, <2>3 DEF TaskShaped, Ahead, Ended, Evaluating, IsTask
  <2>5. RowFound'
    BY <2>2, <2>3, RowKept DEF RowFound, RowOf
  <2>6. OrderFormed'
    BY <2>2, <2>3 DEF OrderFormed, HasOrder, Evaluating
  <2>. QED
    BY <1>4, <2>4, <2>5, <2>6 DEF TaskInv
<1>6. CASE ~ (tx.subtotal < 0)
  <2>1. ListPrice(t) >= 0
    BY <1>2, <1>3, <1>6 DEF ListPrice
  <2>2. PICK new : new = [t EXCEPT !.pc = "contract", !.offer = offer, !.tx = tx]
    OBVIOUS
  <2>3. task' = new
    BY <1>1, <1>6, <2>2 DEF Formed
  <2>4. /\ IsTask(new) /\ new.pc = "contract" /\ new.tx = tx /\ new.offer = offer
        /\ new.asked = t.asked /\ new.seen = t.seen /\ SameLocals(t, new)
    BY <2>2 DEF IsTask, SameLocals
  <2>5. TaskShaped'
    BY <2>3, <2>4 DEF TaskShaped, Ahead, Ended, Evaluating, IsTask, Unordered
  <2>6. RowOf(new)
    BY <2>4, RowKept
  <2>7. RowFound'
    BY <2>3, <2>6 DEF RowFound, RowOf
  <2>8. Formulated(new)
    <3>1. ListPrice(new) >= 0
      BY <2>1, <2>4, RowKept
    <3>2. new.tx = Transaction(new.wants, new.sku, new.row, new.offer, down)
      BY <1>1, <2>4 DEF SameLocals
    <3>. QED
      BY <3>1, <3>2 DEF Formulated
  <2>9. Answered(new)
    <3>1. PICK u : u = [t EXCEPT !.offer = offer]
      OBVIOUS
    <3>2. /\ u.req = t.req /\ u.wants = t.wants /\ u.sku = t.sku /\ u.row = t.row
          /\ u.asked = t.asked /\ u.seen = t.seen /\ u.offer = offer
      BY <3>1 DEF IsTask
    <3>3. ListPrice(u) = ListPrice(new)
      BY <2>4, <3>2 DEF ListPrice, SameLocals
    <3>4. Answered(u)
      BY <2>1, <3>1
    <3>. QED
      BY <2>4, <3>2, <3>3, <3>4 DEF Answered, Refused, Accepted, SameLocals
  <2>10. OrderFormed'
    BY <2>3, <2>4, <2>8, <2>9
       DEF OrderFormed, HasOrder, Unordered, Formulated, Answered, Refused, Accepted,
           ListPrice
  <2>. QED
    BY <1>4, <2>5, <2>7, <2>10 DEF TaskInv
<1>. QED
  BY <1>5, <1>6

(* A product that is discovered is the one the catalog has.                 *)
LEMMA DiscoverTask ==
  ASSUME CatalogKnown, NEW req \in Requests, Discover(req)
  PROVE  TaskInv'
<1>1. PICK wants, begun :
        /\ wants = ExtractConstraints(req)
        /\ begun = [pc |-> "empty", req |-> req, wants |-> wants, sku |-> None,
                    row |-> None, asked |-> None, seen |-> None, offer |-> Refusal,
                    tx |-> None, contract |-> None, version |-> None, policy |-> None,
                    product |-> None]
  OBVIOUS
<1>2. /\ last' = None /\ catalog' = catalog
      /\ \/ task' = begun
         \/ \E sku \in Preferred(catalog, ListProducts(catalog, wants.category, None, wants.ceiling),
                                 wants.installation) :
              task' = [begun EXCEPT !.pc = "negotiate", !.sku = sku, !.row = catalog[sku]]
  BY <1>1, Zenon DEF Discover, World
<1>3. CASE task' = begun
  <2>1. /\ IsTask(begun) /\ begun.pc = "empty" /\ begun.tx = None
    BY <1>1 DEF IsTask
  <2>2. TaskShaped'
    BY <1>2, <1>3, <2>1 DEF TaskShaped, Ahead, Ended, Evaluating, IsTask
  <2>3. RowFound' /\ OrderFormed' /\ Judged'
    BY <1>2, <1>3, <2>1 DEF RowFound, OrderFormed, HasOrder, Evaluating, Judged, Decided
  <2>. QED
    BY <2>2, <2>3 DEF TaskInv
<1>4. ASSUME NEW sku \in Preferred(catalog, ListProducts(catalog, wants.category, None, wants.ceiling),
                                   wants.installation),
             task' = [begun EXCEPT !.pc = "negotiate", !.sku = sku, !.row = catalog[sku]]
      PROVE  TaskInv'
  <2>1. /\ sku \in DOMAIN catalog /\ catalog[sku].aiEnabled
        /\ catalog[sku].category = wants.category /\ catalog[sku].price <= wants.ceiling
    BY DEF Preferred, ListProducts
  <2>2. PICK new : new = [begun EXCEPT !.pc = "negotiate", !.sku = sku, !.row = catalog[sku]]
    OBVIOUS
  <2>3. /\ IsTask(new) /\ new.pc = "negotiate" /\ new.tx = None /\ new.sku = sku
        /\ new.row = catalog[sku] /\ new.wants = wants
    BY <1>1, <2>2 DEF IsTask
  <2>4. task' = new
    BY <1>4, <2>2
  <2>5. TaskShaped'
    BY <1>2, <2>3, <2>4 DEF TaskShaped, Ahead, Ended, Evaluating, IsTask
  <2>6. RowOf(new)
    BY <2>1, <2>3 DEF RowOf, CatalogKnown
  <2>7. RowFound'
    BY <2>4, <2>6 DEF RowFound, RowOf
  <2>8. OrderFormed' /\ Judged'
    BY <1>2, <2>3, <2>4 DEF OrderFormed, HasOrder, Evaluating, Judged, Decided
  <2>. QED
    BY <2>5, <2>7, <2>8 DEF TaskInv
<1>. QED
  BY <1>2, <1>3, <1>4

(* A policy that is asked is one the merchant has written.                  *)
LEMMA NegotiatePolicyTask ==
  ASSUME WorldTyped, TaskInv, NegotiatePolicy
  PROVE  TaskInv'
<1>1. PICK v, policy, asking :
        /\ v = IF task.row.merchant = Merchant THEN Policies!ActiveVersion ELSE None
        /\ policy = IF v = None THEN None ELSE policies[v]
        /\ asking = [task EXCEPT !.asked = policy]
  OBVIOUS
<1>2. /\ task # None /\ task.pc = "negotiate" /\ UNCHANGED <<World, last>>
      /\ \/ /\ PolicyRefuses(policy, task.wants.category)
            /\ \E down \in SUBSET {"tax"} : task' = Formed(asking, Refusal, down)
         \/ /\ ~ PolicyRefuses(policy, task.wants.category)
            /\ task' = [asking EXCEPT !.pc = "offer"]
  <2>. DEFINE offers == IF PolicyRefuses(policy, task.wants.category)
                          THEN {Formed(asking, Refusal, down) : down \in SUBSET {"tax"}}
                          ELSE {[asking EXCEPT !.pc = "offer"]}
  <2>1. task' \in offers
    BY <1>1 DEF NegotiatePolicy
  <2>. QED
    BY <2>1, Zenon DEF NegotiatePolicy, At
<1>3. /\ IsTask(task) /\ RowOf(task) /\ task.tx = None /\ last = None
  BY <1>2 DEF TaskInv, TaskShaped, RowFound, Unordered, Ahead
<1>4. /\ IsTask(asking) /\ SameLocals(task, asking) /\ asking.tx = None
      /\ asking.asked = policy /\ asking.pc = "negotiate"
  BY <1>1, <1>2, <1>3 DEF IsTask, SameLocals
<1>5. RowOf(asking)
  BY <1>3, <1>4, RowKept
<1>6. ASSUME PolicyRefuses(policy, task.wants.category),
             NEW down \in SUBSET {"tax"}, task' = Formed(asking, Refusal, down)
      PROVE  TaskInv'
  <2>1. PICK u : u = [asking EXCEPT !.offer = Refusal]
    OBVIOUS
  <2>2. u.asked = policy /\ u.wants = task.wants /\ u.offer = Refusal
    BY <1>4, <2>1 DEF IsTask, SameLocals
  <2>3. Answered(u)
    BY <1>6, <2>2 DEF Answered, Refused
  <2>4. down \in SUBSET {"offer", "tax"}
    OBVIOUS
  <2>. QED
    BY <1>2, <1>3, <1>4, <1>5, <1>6, <2>1, <2>3, <2>4, FormedOrder
<1>7. CASE ~ PolicyRefuses(policy, task.wants.category) /\ task' = [asking EXCEPT !.pc = "offer"]
  <2>1. PICK new : new = [asking EXCEPT !.pc = "offer"]
    OBVIOUS
  <2>2. /\ IsTask(new) /\ SameLocals(asking, new) /\ new.tx = None /\ new.asked = policy
        /\ new.pc = "offer" /\ task' = new
    BY <1>4, <1>7, <2>1 DEF IsTask, SameLocals
  <2>3. policy \in Contents
    <3>1. v \in Versions \cup {None}
      BY <1>1, ActiveIsVersion DEF WorldTyped, PoliciesWritten
    <3>2. policy # None
      BY <1>7 DEF PolicyRefuses
    <3>. QED
      BY <1>1, <3>1, <3>2 DEF WorldTyped, PoliciesWritten
  <2>4. TaskShaped'
    BY <1>2, <1>3, <1>4, <1>7, <2>2, <2>3
       DEF TaskShaped, Ahead, Ended, Evaluating, IsTask, SameLocals
  <2>5. RowOf(new)
    BY <1>5, <2>2, RowKept
  <2>6. RowFound'
    BY <2>2, <2>5 DEF RowFound, RowOf
  <2>7. OrderFormed' /\ Judged'
    BY <1>2, <1>3, <2>2 DEF OrderFormed, HasOrder, Evaluating, Judged, Decided
  <2>. QED
    BY <2>4, <2>6, <2>7 DEF TaskInv
<1>. QED
  BY <1>2, <1>6, <1>7

(* The product that was found is the one that is offered.                   *)
LEMMA OfferedProduct ==
  ASSUME CatalogKnown, IsTask(task), RowOf(task), NEW down
  PROVE  Responses(task.asked, catalog, task.row.merchant, Ask, down) =
           {Offer(task.asked, catalog[task.sku], Ask, down)}
<1>1. PICK p : p = catalog[task.sku]
  OBVIOUS
<1>2. /\ task.sku \in DOMAIN catalog
      /\ p.merchant = task.row.merchant /\ p.category = task.row.category
      /\ p.price = task.row.price /\ p.aiEnabled = task.row.aiEnabled
  BY <1>1, SkuKnown
<1>3. task.row.aiEnabled /\ task.row.category = task.wants.category
      /\ task.row.price <= task.wants.ceiling
  BY DEF RowOf
<1>4. /\ Ask.sku = task.sku /\ Ask.category = task.wants.category
      /\ Ask.ceiling = task.wants.ceiling
  BY DEF Ask
<1>5. task.sku \in Candidates(catalog, task.row.merchant, Ask)
  <2>1. catalog[task.sku].aiEnabled
    BY <1>1, <1>2, <1>3
  <2>. QED
    BY <1>1, <1>2, <1>3, <1>4, <2>1 DEF Candidates, ListProducts
<1>6. Chosen(catalog, task.row.merchant, Ask) = {task.sku}
  BY <1>4, <1>5 DEF Chosen
<1>. QED
  BY <1>5, <1>6 DEF Responses

(* An offer is made of a policy that allows it, within the stock there is.  *)
LEMMA NegotiateOfferTask ==
  ASSUME WorldTyped, TaskInv, NegotiateOffer
  PROVE  TaskInv'
<1>1. /\ task # None /\ task.pc = "offer" /\ UNCHANGED <<World, last>>
  BY DEF NegotiateOffer, At
<1>2. /\ IsTask(task) /\ RowOf(task) /\ task.tx = None /\ last = None
      /\ task.asked \in Contents /\ ~ PolicyRefuses(task.asked, task.wants.category)
  BY <1>1 DEF TaskInv, TaskShaped, RowFound, Unordered, Ahead
<1>3. CASE task' = [task EXCEPT !.pc = "failed"]
  <2>1. PICK new : new = [task EXCEPT !.pc = "failed"]
    OBVIOUS
  <2>2. /\ IsTask(new) /\ SameLocals(task, new) /\ new.tx = None
        /\ new.pc = "failed" /\ task' = new
    BY <1>2, <1>3, <2>1 DEF IsTask, SameLocals
  <2>3. RowOf(new)
    BY <1>2, <2>2, RowKept
  <2>4. TaskShaped'
    BY <1>1, <1>2, <2>2 DEF TaskShaped, Ahead, Ended, Evaluating, IsTask
  <2>5. RowFound' /\ OrderFormed' /\ Judged'
    BY <1>1, <1>2, <2>2, <2>3
       DEF RowFound, RowOf, OrderFormed, HasOrder, Ahead, Evaluating, Judged, Decided
  <2>. QED
    BY <2>4, <2>5 DEF TaskInv
<1>4. ASSUME NEW down \in SUBSET {"offer", "tax"},
             NEW offer \in Responses(task.asked, catalog, task.row.merchant, Ask, "offer" \in down),
             task' = Formed([task EXCEPT !.seen = catalog[task.sku]], offer, down)
      PROVE  TaskInv'
  <2>1. offer = Offer(task.asked, catalog[task.sku], Ask, "offer" \in down)
    BY <1>2, OfferedProduct DEF WorldTyped
  <2>2. /\ catalog[task.sku].inventory \in Nat /\ catalog[task.sku] # None
        /\ catalog[task.sku].price = task.row.price /\ catalog[task.sku].aiEnabled
    BY <1>2, SkuKnown DEF WorldTyped, RowOf
  <2>3. PICK list, seen, offered :
          /\ list = ListPrice(task) /\ seen = catalog[task.sku]
          /\ offered = OfferedPrice(task.asked, list, task.wants.target, "offer" \in down)
    OBVIOUS
  <2>4. offer = IF seen.inventory < task.wants.qty \/ offered > task.asked.maxOrder
                  THEN Refusal
                  ELSE [eligible |-> TRUE, offered |-> offered]
    BY <2>1, <2>2, <2>3 DEF Offer, Ask, ListPrice
  <2>5. /\ task.wants.qty \in Int /\ task.wants.target \in Int
        /\ task.row.price \in Nat /\ IsPolicy(task.asked)
    BY <1>2, RowTyped, WantsTyped, FirewallAssumption DEF IsTask
  <2>6. PICK t, u : /\ t = [task EXCEPT !.seen = seen]
                    /\ u = [t EXCEPT !.offer = offer]
    OBVIOUS
  <2>7. /\ IsTask(t) /\ SameLocals(task, t) /\ t.tx = None
        /\ u.offer = offer /\ u.seen = seen /\ u.asked = task.asked
        /\ u.wants = task.wants /\ u.row = task.row
    BY <1>2, <2>6 DEF IsTask, SameLocals
  <2>8. RowOf(t) /\ ListPrice(t) = list /\ ListPrice(u) = list
    BY <1>2, <2>3, <2>7, RowKept DEF ListPrice
  <2>9. ASSUME list >= 0
        PROVE  Answered(u)
    <3>1. list \in Nat
      BY <2>3, <2>5, <2>9 DEF ListPrice
    <3>2. offered \in Int /\ offered <= list /\ task.asked.maxOrder \in Nat
      BY <2>3, <2>5, <3>1, OfferedBounds DEF IsPolicy
    <3>3. CASE seen.inventory < task.wants.qty
      BY <2>2, <2>3, <2>4, <2>7, <3>3 DEF Answered, Refused
    <3>4. CASE offered > task.asked.maxOrder
      <4>1. list > task.asked.maxOrder
        BY <3>1, <3>2, <3>4
      <4>. QED
        BY <1>2, <2>4, <2>7, <2>8, <3>4, <4>1 DEF Answered, Refused
    <3>5. CASE ~ (seen.inventory < task.wants.qty) /\ ~ (offered > task.asked.maxOrder)
      <4>1. seen # None /\ seen.aiEnabled /\ seen.inventory \in Nat
            /\ task.wants.qty <= seen.inventory
        BY <2>2, <2>3, <2>5, <3>5
      <4>2. offer = [eligible |-> TRUE, offered |-> offered]
        BY <2>4, <3>5
      <4>3. offered <= task.asked.maxOrder
        BY <3>2, <3>5
      <4>. QED
        BY <1>2, <2>3, <2>7, <2>8, <4>1, <4>2, <4>3 DEF Answered, Accepted
    <3>. QED
      BY <3>3, <3>4, <3>5
  <2>10. /\ task' = Formed(t, offer, down)
         /\ ListPrice(t) >= 0 => Answered([t EXCEPT !.offer = offer])
    BY <1>4, <2>3, <2>6, <2>8, <2>9
  <2>. QED
    BY <1>1, <1>2, <2>7, <2>8, <2>10, FormedOrder
<1>. QED
  BY <1>3, <1>4 DEF NegotiateOffer

(* The order, once formed, stays as it is.                                  *)
SameOrder(t, u) ==
  /\ SameLocals(t, u)
  /\ u.asked = t.asked /\ u.seen = t.seen /\ u.offer = t.offer /\ u.tx = t.tx

(* It is still the order of the negotiation.                                *)
LEMMA OrderKept ==
  ASSUME NEW t, NEW u, SameOrder(t, u), Formulated(t), Answered(t)
  PROVE  Formulated(u) /\ Answered(u)
<1>1. Formulated(u)
  BY DEF SameOrder, SameLocals, Formulated, ListPrice
<1>2. Refused(t) => Refused(u)
  BY DEF SameOrder, SameLocals, ListPrice, Refused
<1>3. Accepted(t) => Accepted(u)
  BY DEF SameOrder, SameLocals, ListPrice, Accepted
<1>. QED
  BY <1>1, <1>2, <1>3 DEF Answered

(* What a task that evaluates knows.                                        *)
LEMMA OrderUnderWay ==
  ASSUME CatalogKnown, TaskInv, task # None, task.pc \in {"contract"} \cup Evaluating
  PROVE  /\ HasOrder /\ IsTask(task) /\ RowOf(task) /\ Formulated(task) /\ Answered(task)
         /\ last = None /\ task.tx.sku = task.sku /\ task.sku \in DOMAIN catalog
<1>1. HasOrder /\ task.pc \in Ahead
  BY DEF HasOrder, Ahead, Evaluating
<1>2. IsTask(task) /\ RowOf(task) /\ Formulated(task) /\ Answered(task)
      /\ task.tx.sku = task.sku
  BY <1>1, OrderTyped DEF TaskInv, OrderFormed
<1>3. last = None
  BY <1>1 DEF TaskInv, TaskShaped
<1>. QED
  BY <1>1, <1>2, <1>3, SkuKnown

(* Reading the contract, the policy and the product.                        *)
LEMMA ReadTask ==
  ASSUME WorldTyped, TaskInv, ReadContract \/ ReadPolicy \/ ReadProduct
  PROVE  TaskInv'
<1>1. PICK new :
        /\ new = IF task.pc = "contract"
                   THEN [task EXCEPT !.pc = "policy", !.contract = contract]
                 ELSE IF task.pc = "policy"
                   THEN [task EXCEPT !.pc = "product", !.policy = PolicyFor(task.tx, None),
                                     !.version = VersionFor(task.tx, None)]
                 ELSE [task EXCEPT !.pc = "evaluate", !.product = GetProduct(task.tx.sku)]
  OBVIOUS
<1>2. /\ task # None /\ task.pc \in {"contract", "policy", "product"} /\ task' = new
      /\ UNCHANGED <<World, last>>
  BY <1>1 DEF ReadContract, ReadPolicy, ReadProduct, At
<1>3. /\ HasOrder /\ IsTask(task) /\ RowOf(task) /\ Formulated(task) /\ Answered(task)
      /\ last = None
  BY <1>2, OrderUnderWay DEF WorldTyped, Evaluating
<1>4. IsTask(new) /\ SameOrder(task, new) /\ new.pc \in Evaluating
  BY <1>1, <1>2, <1>3 DEF IsTask, SameOrder, SameLocals, Evaluating
<1>5. RowOf(new) /\ Formulated(new) /\ Answered(new)
  BY <1>3, <1>4, RowKept, OrderKept DEF SameOrder
<1>6. TaskShaped'
  BY <1>2, <1>3, <1>4 DEF TaskShaped, Ahead, Ended, Evaluating, IsTask, Unordered
<1>7. RowFound'
  BY <1>2, <1>5 DEF RowFound, RowOf
<1>8. OrderFormed'
  BY <1>2, <1>4, <1>5
     DEF OrderFormed, Evaluating, Unordered, Formulated, Answered, Refused, Accepted, ListPrice
<1>9. Judged'
  BY <1>2, <1>3, <1>4 DEF Judged, Decided, Evaluating
<1>. QED
  BY <1>6, <1>7, <1>8, <1>9 DEF TaskInv

(* Nothing that is allowed failed a rule.                                   *)
LEMMA AllowedRules ==
  ASSUME NEW s, NEW version, NEW reserved,
         Recorded(Outcome(s, version), reserved).decision = "ALLOW"
  PROVE  \A r \in DOMAIN EvaluateAll(s) : EvaluateAll(s)[r] \in {"PASS", "ABSENT"}
<1>1. Decide(s) = "ALLOW"
  BY DEF Recorded, Outcome
<1>2. RulesWith(EvaluateAll(s), "DENY") = {} /\ RulesWith(EvaluateAll(s), "CHALLENGE") = {}
  BY <1>1 DEF Decide, Resolve
<1>3. \A r \in DOMAIN EvaluateAll(s) :
        EvaluateAll(s)[r] # "DENY" /\ EvaluateAll(s)[r] # "CHALLENGE"
  BY <1>2 DEF RulesWith
<1>. QED
  BY <1>3, RuleImpacts DEF Impacts

(* The decision is about the order that was formed and what was read.       *)
LEMMA EvaluateOrderTask ==
  ASSUME WorldTyped, TaskInv, EvaluateOrder
  PROVE  TaskInv'
<1>1. PICK available \in Budgets, edge \in Edges, reserved \in BOOLEAN :
        LET s == Facts(task.tx, Proposal(task.tx),
                       [task.contract EXCEPT !.expired = contract.expired],
                       task.policy, task.product, available, edge)
            o == Recorded(Outcome(s, task.version), reserved)
        IN  /\ last' = o
            /\ task' = [task EXCEPT !.pc = IF o.decision = "ALLOW" /\ task.req.pay
                                             THEN "pay" ELSE "done"]
  BY DEF EvaluateOrder, Facts
<1>2. PICK s, c : /\ c = [task.contract EXCEPT !.expired = contract.expired]
                  /\ s = Facts(task.tx, Proposal(task.tx), c,
                               task.policy, task.product, available, edge)
  OBVIOUS
<1>3. PICK new : new = [task EXCEPT !.pc = IF last'.decision = "ALLOW" /\ task.req.pay
                                             THEN "pay" ELSE "done"]
  OBVIOUS
<1>4. /\ task # None /\ task.pc = "evaluate" /\ task' = new /\ UNCHANGED World
      /\ last' = Recorded(Outcome(s, task.version), reserved)
  BY <1>1, <1>2, <1>3 DEF EvaluateOrder, At
<1>5. /\ HasOrder /\ IsTask(task) /\ RowOf(task) /\ Formulated(task) /\ Answered(task)
      /\ last = None
  BY <1>4, OrderUnderWay DEF WorldTyped, Evaluating
<1>6. /\ IsTask(new) /\ SameOrder(task, new) /\ new.pc \in {"pay", "done"}
      /\ new.pc = "pay" => last'.decision = "ALLOW"
      /\ new.product = task.product /\ new.policy = task.policy
  BY <1>3, <1>4, <1>5 DEF IsTask, SameOrder, SameLocals
<1>7. RowOf(new) /\ Formulated(new) /\ Answered(new)
  BY <1>5, <1>6, RowKept, OrderKept DEF SameOrder
<1>8. TaskShaped'
  BY <1>4, <1>5, <1>6 DEF TaskShaped, Ahead, Ended, Evaluating, IsTask, Unordered
<1>9. RowFound'
  BY <1>4, <1>7 DEF RowFound, RowOf
<1>10. OrderFormed'
  BY <1>4, <1>6, <1>7
     DEF OrderFormed, Unordered, Formulated, Answered, Refused, Accepted, ListPrice
<1>11. Judged'
  <2>1. IsOutcome(last') /\ last'.facts = s
    BY <1>4, OutcomeShape
  <2>2. last'.decision = "ALLOW" =>
          \A r \in DOMAIN EvaluateAll(s) : EvaluateAll(s)[r] \in {"PASS", "ABSENT"}
    BY <1>4, AllowedRules
  <2>3. s = Facts(new.tx, Proposal(new.tx), s.contract, new.policy, new.product,
                  s.available, s.edge)
    BY <1>2, <1>6 DEF Facts, SameOrder
  <2>. QED
    BY <1>4, <1>6, <2>1, <2>2, <2>3 DEF Judged, Decided, IsOutcome, Proposal, Facts
<1>. QED
  BY <1>8, <1>9, <1>10, <1>11 DEF TaskInv

(* A task that ends, paid or lost, keeps what it was decided on.            *)
LEMMA EndTask ==
  ASSUME TaskInv, task # None, UNCHANGED last, NEW end \in {"done", "lost"},
         task' = [task EXCEPT !.pc = end],
         \/ task.pc = "pay"
         \/ task.pc \in Ahead /\ end = "lost"
  PROVE  TaskInv'
<1>1. PICK new : new = [task EXCEPT !.pc = end]
  OBVIOUS
<1>2. IsTask(task) /\ RowOf(task) /\ task' = new
  BY <1>1 DEF TaskInv, TaskShaped, RowFound, Ahead, Evaluating
<1>3. /\ IsTask(new) /\ SameOrder(task, new) /\ new.pc = end
      /\ new.product = task.product /\ new.policy = task.policy
  BY <1>1, <1>2 DEF IsTask, SameOrder, SameLocals
<1>4. RowOf(new)
  BY <1>2, <1>3, RowKept DEF SameOrder
<1>5. TaskShaped'
  BY <1>2, <1>3 DEF TaskShaped, Ahead, Ended, Evaluating, IsTask, Unordered
<1>6. RowFound'
  BY <1>2, <1>4 DEF RowFound, RowOf
<1>7. OrderFormed'
  <2>1. HasOrder' => HasOrder
    BY <1>2, <1>3 DEF HasOrder, SameOrder, Ahead, Evaluating
  <2>2. HasOrder => Formulated(new) /\ Answered(new)
    BY <1>3, OrderKept DEF TaskInv, OrderFormed
  <2>3. task'.pc \notin Unordered /\ (HasOrder' => Formulated(task') /\ Answered(task'))
    BY <1>2, <1>3, <2>1, <2>2 DEF Unordered
  <2>. QED
    BY <2>3 DEF OrderFormed, Formulated, Answered, Refused, Accepted, ListPrice
<1>8. Judged'
  <2>1. Decided' => Decided
    BY DEF Decided
  <2>. QED
    BY <1>2, <1>3, <2>1 DEF TaskInv, Judged, SameOrder, Decided, IsOutcome, Proposal, Facts
<1>. QED
  BY <1>5, <1>6, <1>7, <1>8 DEF TaskInv

(* A task that rests, whatever becomes of the world.                        *)
LEMMA RestTask ==
  ASSUME TaskInv, UNCHANGED <<task, last>>
  PROVE  TaskInv'
<1>1. TaskShaped'
  BY DEF TaskInv, TaskShaped, IsTask
<1>2. RowFound'
  BY DEF TaskInv, RowFound, RowOf
<1>3. OrderFormed'
  BY DEF TaskInv, OrderFormed, HasOrder, Formulated, Answered, Refused, Accepted, ListPrice
<1>4. Judged'
  BY DEF TaskInv, Judged, Decided, IsOutcome, Proposal, Facts
<1>. QED
  BY <1>1, <1>2, <1>3, <1>4 DEF TaskInv

(* Every step keeps what is said of the task.                               *)
LEMMA NextTask ==
  ASSUME WorldTyped, TaskInv, [ShopNext]_shopVars
  PROVE  TaskInv'
<1>1. ASSUME UNCHANGED <<task, last>>
      PROVE  TaskInv'
  BY <1>1, RestTask
<1>2. CASE PayOrder
  BY <1>2, EndTask DEF PayOrder, At
<1>3. CASE WorldChanges
  BY <1>1, <1>3 DEF WorldChanges, Change
<1>4. CASE Crash
  <2>1. CASE task # None /\ task.pc \notin Ended
    <3>1. task.pc = "pay" \/ task.pc \in Ahead
      BY <2>1 DEF TaskInv, TaskShaped
    <3>. QED
      BY <1>4, <2>1, <3>1, EndTask DEF Crash, Change
  <2>2. CASE task = None \/ task.pc \in Ended
    BY <1>1, <1>4, <2>2 DEF Crash, Change
  <2>. QED
    BY <2>1, <2>2
<1>5. CASE AuthorizeDirectly
  BY <1>5 DEF AuthorizeDirectly, TaskInv, TaskShaped, RowFound, OrderFormed, HasOrder,
     Judged, Decided
<1>6. CASE Replay
  BY <1>1, <1>6 DEF Replay, ReplayDecision
<1>7. CASE UNCHANGED shopVars
  BY <1>1, <1>7 DEF shopVars, vars
<1>. QED
  BY <1>2, <1>3, <1>4, <1>5, <1>6, <1>7, DiscoverTask, NegotiatePolicyTask,
     NegotiateOfferTask, ReadTask, EvaluateOrderTask
     DEF ShopNext, WorldTyped

-------------------------------------------------------------------------------
(* The moments of an evaluation                                             *)

(* Contracts of the same terms as a third have the same terms.              *)
LEMMA TermsKept ==
  ASSUME NEW c, NEW d, NEW e, IsContract(c), IsContract(d), IsContract(e),
         SameTerms(c, d), SameTerms(d, e)
  PROVE  SameTerms(c, e)
<1>1. /\ c.merchants = d.merchants /\ c.categories = d.categories
      /\ c.pincodes = d.pincodes /\ c.maxOrder = d.maxOrder /\ c.aggregate = d.aggregate
      /\ c.recurring = d.recurring /\ c.conditions = d.conditions
  BY DEF SameTerms, IsContract
<1>2. /\ d.merchants = e.merchants /\ d.categories = e.categories
      /\ d.pincodes = e.pincodes /\ d.maxOrder = e.maxOrder /\ d.aggregate = e.aggregate
      /\ d.recurring = e.recurring /\ d.conditions = e.conditions
  BY DEF SameTerms, IsContract
<1>. QED
  BY <1>1, <1>2 DEF SameTerms, IsContract

(* A contract has its own terms.                                            *)
LEMMA TermsReflexive ==
  ASSUME NEW c, IsContract(c)
  PROVE  SameTerms(c, c)
BY DEF SameTerms, IsContract

(* One change of the world changes one thing of what an evaluation reads.   *)
LEMMA MomentSteps ==
  ASSUME IsContract(contract), WorldChanges
  PROVE  /\ \E aspect \in Aspects : AlikeBut(aspect, Moment, Moment')
         /\ SameTerms(contract, contract')
         /\ task' = task /\ last' = last
<1>1. PICK policy, product, policy2, product2 :
        /\ policy = PolicyFor(task.tx, None) /\ product = GetProduct(task.tx.sku)
        /\ policy2 = PolicyFor(task.tx, None)' /\ product2 = GetProduct(task.tx.sku)'
  OBVIOUS
<1>2. /\ Moment = [contract |-> contract, policy |-> policy, product |-> product]
      /\ Moment' = [contract |-> contract', policy |-> policy2, product |-> product2]
  BY <1>1 DEF Moment
<1>3. task' = task /\ last' = last
  BY DEF WorldChanges, Change
<1>4. UNCHANGED <<policies, active, written>> => policy2 = policy
  BY <1>1, <1>3 DEF PolicyFor, VersionFor, Policies!ActiveVersion, Policies!ActiveRows
<1>5. UNCHANGED catalog => product2 = product
  BY <1>1, <1>3 DEF GetProduct
<1>6. CASE RevokeContract
  <2>1. /\ contract' = [contract EXCEPT !.revoked = TRUE]
        /\ contract'.expired = contract.expired /\ IsContract(contract')
    BY <1>6 DEF RevokeContract, IsContract
  <2>2. SameTerms(contract, contract')
    BY <2>1 DEF SameTerms, IsContract
  <2>3. AlikeBut("revoked", Moment, Moment')
    BY <1>2, <1>4, <1>5, <1>6, <2>1 DEF AlikeBut, RevokeContract
  <2>. QED
    BY <1>3, <2>2, <2>3 DEF Aspects
<1>7. CASE ContractExpires
  <2>1. /\ contract' = [contract EXCEPT !.expired = TRUE]
        /\ contract'.revoked = contract.revoked /\ IsContract(contract')
    BY <1>7 DEF ContractExpires, IsContract
  <2>2. SameTerms(contract, contract')
    BY <2>1 DEF SameTerms, IsContract
  <2>3. AlikeBut("expired", Moment, Moment')
    BY <1>2, <1>4, <1>5, <1>7, <2>1 DEF AlikeBut, ContractExpires
  <2>. QED
    BY <1>3, <2>2, <2>3 DEF Aspects
<1>8. CASE PublishPolicy
  <2>1. AlikeBut("policy", Moment, Moment') /\ contract' = contract
    BY <1>2, <1>5, <1>8 DEF AlikeBut, PublishPolicy
  <2>. QED
    BY <1>3, <2>1, TermsReflexive DEF Aspects
<1>9. CASE SellUnits
  <2>1. AlikeBut("product", Moment, Moment') /\ contract' = contract
    BY <1>2, <1>4, <1>9 DEF AlikeBut, SellUnits, DeductUnits
  <2>. QED
    BY <1>3, <2>1, TermsReflexive DEF Aspects
<1>. QED
  BY <1>6, <1>7, <1>8, <1>9 DEF WorldChanges, Change

(* A set that has two elements with one more had one.                       *)
LEMMA OneBefore ==
  ASSUME NEW S, IsFiniteSet(S), NEW x \in S, NEW y, y \notin S,
         Cardinality(S \cup {y}) <= 2
  PROVE  S = {x}
<1>1. Cardinality(S) \in Nat /\ Cardinality(S \cup {y}) = Cardinality(S) + 1
  BY FS_CardinalityType, FS_AddElement
<1>2. Cardinality(S) # 0
  BY FS_EmptySet
<1>3. Cardinality(S) = 1
  BY <1>1, <1>2
<1>. QED
  BY <1>3, FS_Singleton

(* Where a step of the task leads.                                          *)
LEMMA NotEvaluating ==
  ASSUME TaskInv,
         \/ \E req \in Requests : Discover(req)
         \/ NegotiatePolicy \/ NegotiateOffer \/ EvaluateOrder \/ PayOrder
         \/ Crash \/ AuthorizeDirectly
  PROVE  task' = None \/ task'.pc \notin Evaluating
<1>1. \A t, offer, down : IsTask(t) => Formed(t, offer, down).pc \in {"failed", "contract"}
  BY DEF Formed, IsTask
<1>2. task # None => IsTask(task)
  BY DEF TaskInv, TaskShaped
<1>3. ASSUME NEW req \in Requests, Discover(req)
      PROVE  task'.pc \notin Evaluating
  <2>1. PICK begun :
          /\ begun = [pc |-> "empty", req |-> req, wants |-> ExtractConstraints(req),
                      sku |-> None, row |-> None, asked |-> None, seen |-> None,
                      offer |-> Refusal, tx |-> None, contract |-> None, version |-> None,
                      policy |-> None, product |-> None]
          /\ \/ task' = begun
             \/ \E sku : task' = [begun EXCEPT !.pc = "negotiate", !.sku = sku, !.row = catalog[sku]]
    BY <1>3, Zenon DEF Discover
  <2>2. begun.pc = "empty"
        /\ \A sku : [begun EXCEPT !.pc = "negotiate", !.sku = sku, !.row = catalog[sku]].pc = "negotiate"
    BY <2>1
  <2>3. task'.pc \in {"empty", "negotiate"}
    BY <2>1, <2>2
  <2>. QED
    BY <2>3 DEF Evaluating
<1>4. CASE NegotiatePolicy
  <2>1. PICK policy, asking : asking = [task EXCEPT !.asked = policy]
                              /\ \/ \E down : task' = Formed(asking, Refusal, down)
                                 \/ task' = [asking EXCEPT !.pc = "offer"]
    BY <1>4, Zenon DEF NegotiatePolicy
  <2>2. IsTask(asking)
    BY <1>2, <1>4, <2>1 DEF IsTask, NegotiatePolicy, At
  <2>3. [asking EXCEPT !.pc = "offer"].pc = "offer"
    BY <2>2 DEF IsTask
  <2>4. CASE task' = [asking EXCEPT !.pc = "offer"]
    BY <2>3, <2>4 DEF Evaluating
  <2>5. ASSUME NEW down, task' = Formed(asking, Refusal, down)
        PROVE  task'.pc \notin Evaluating
    <3>1. Formed(asking, Refusal, down).pc \in {"failed", "contract"}
      BY <1>1, <2>2
    <3>. QED
      BY <2>5, <3>1 DEF Evaluating
  <2>. QED
    BY <2>1, <2>4, <2>5
<1>5. CASE NegotiateOffer
  <2>1. [task EXCEPT !.pc = "failed"].pc = "failed"
    BY <1>2, <1>5 DEF IsTask, NegotiateOffer, At
  <2>2. PICK t : t = [task EXCEPT !.seen = catalog[task.sku]]
    OBVIOUS
  <2>3. IsTask(t)
    BY <1>2, <1>5, <2>2 DEF IsTask, NegotiateOffer, At
  <2>4. \/ task' = [task EXCEPT !.pc = "failed"]
        \/ \E offer, down : task' = Formed(t, offer, down)
    BY <1>5, <2>2, Zenon DEF NegotiateOffer
  <2>. QED
    BY <1>1, <2>1, <2>3, <2>4 DEF Evaluating
<1>6. CASE EvaluateOrder
  BY <1>2, <1>6 DEF EvaluateOrder, At, IsTask, Evaluating
<1>7. CASE PayOrder
  BY <1>2, <1>7 DEF PayOrder, At, IsTask, Evaluating
<1>8. CASE Crash
  BY <1>2, <1>8 DEF Crash, IsTask, Evaluating, Ended
<1>9. CASE AuthorizeDirectly
  BY <1>9 DEF AuthorizeDirectly
<1>. QED
  BY <1>3, <1>4, <1>5, <1>6, <1>7, <1>8, <1>9 DEF Evaluating

(* Without a change of the world the moment is the same.                    *)
LEMMA SameMoment ==
  ASSUME UNCHANGED <<policies, active, written, contract, catalog>>, task'.tx = task.tx
  PROVE  Moment' = Moment
BY DEF Moment, PolicyFor, VersionFor, GetProduct, Policies!ActiveVersion, Policies!ActiveRows

(* A change of the world adds a moment.                                     *)
LEMMA WorldSnapshot ==
  ASSUME WorldTyped, WorldTyped', MomentsTyped, Snapshot, WorldChanges
  PROVE  Snapshot'
<1>. SUFFICES ASSUME task' # None, task'.pc \in Evaluating PROVE Snapshot'
  BY DEF Snapshot
<1>1. PICK aspect \in Aspects : AlikeBut(aspect, Moment, Moment')
  BY MomentSteps DEF WorldTyped
<1>2. SameTerms(contract, contract') /\ task' = task
  BY MomentSteps DEF WorldTyped
<1>3. /\ IsContract(contract) /\ IsContract(contract')
      /\ \A m \in moments : IsContract(m.contract)
  BY DEF WorldTyped, IsContract, MomentsTyped
<1>4. moments' = moments \cup {Moment'}
  BY <1>2 DEF WorldChanges
<1>5. /\ IsFiniteSet(moments) /\ Moment \in moments
      /\ \A m \in moments :
           /\ m = [contract |-> m.contract, policy |-> m.policy, product |-> m.product]
           /\ SameTerms(m.contract, contract)
      /\ IsContract(task.contract) /\ SameTerms(task.contract, contract)
      /\ \E m \in moments : m.contract.revoked = task.contract.revoked
      /\ task.pc \in {"product", "evaluate"} => \E m \in moments : m.policy = task.policy
      /\ task.pc = "evaluate" => \E m \in moments : m.product = task.product
      /\ Cardinality(moments) <= 2 =>
           \E k \in Aspects : \A m, n \in moments : AlikeBut(k, m, n)
  BY <1>2 DEF Snapshot
<1>6. PICK now : now = Moment'
  OBVIOUS
<1>7. /\ now = [contract |-> now.contract, policy |-> now.policy, product |-> now.product]
      /\ now.contract = contract'
  BY <1>6 DEF Moment
<1>8. IsFiniteSet(moments') /\ now \in moments' /\ moments' = moments \cup {now}
  BY <1>4, <1>5, <1>6, FS_AddElement
<1>9. \A m \in moments' :
        /\ m = [contract |-> m.contract, policy |-> m.policy, product |-> m.product]
        /\ SameTerms(m.contract, contract')
  <2>1. \A m \in moments : SameTerms(m.contract, contract')
    BY <1>2, <1>3, <1>5, TermsKept
  <2>. QED
    BY <1>3, <1>5, <1>7, <1>8, <2>1, TermsReflexive
<1>10. SameTerms(task.contract, contract')
  BY <1>2, <1>3, <1>5, TermsKept
<1>11. Cardinality(moments') <= 2 =>
         \E k \in Aspects : \A m, n \in moments' : AlikeBut(k, m, n)
  <2>1. CASE now \in moments
    <3>1. moments' = moments
      BY <1>8, <2>1
    <3>. QED
      BY <1>5, <3>1
  <2>2. CASE now \notin moments /\ Cardinality(moments') <= 2
    <3>1. moments = {Moment}
      BY <1>5, <1>8, <2>2, OneBefore
    <3>2. moments' = {Moment, now}
      BY <1>8, <3>1
    <3>3. AlikeBut(aspect, Moment, now)
      BY <1>1, <1>6
    <3>4. \A m, n \in {Moment, now} : AlikeBut(aspect, m, n)
      BY <3>3 DEF AlikeBut
    <3>. QED
      BY <3>2, <3>4
  <2>. QED
    BY <2>1, <2>2
<1>12. \A m, n, k : AlikeBut(k, m, n)' <=> AlikeBut(k, m, n)
  BY DEF AlikeBut
<1>. QED
  BY <1>2, <1>5, <1>6, <1>8, <1>9, <1>10, <1>11
     DEF Snapshot, AlikeBut, SameTerms, IsContract

(* Reading the contract begins the moments; policy and product are read of  *)
(* the present one.                                                         *)
LEMMA ReadSnapshot ==
  ASSUME WorldTyped, TaskInv, MomentsTyped, Snapshot,
         ReadContract \/ ReadPolicy \/ ReadProduct
  PROVE  Snapshot'
<1>1. /\ task # None /\ IsTask(task) /\ UNCHANGED World
  BY DEF ReadContract, ReadPolicy, ReadProduct, At, TaskInv, TaskShaped
<1>2. PICK now : now = Moment
  OBVIOUS
<1>3. now = [contract |-> contract, policy |-> PolicyFor(task.tx, None),
             product |-> GetProduct(task.tx.sku)]
  BY <1>2 DEF Moment
<1>4. IsContract(contract) /\ SameTerms(contract, contract)
  BY TermsReflexive DEF WorldTyped
<1>5. CASE ReadContract
  <2>1. PICK new : new = [task EXCEPT !.pc = "policy", !.contract = contract]
    OBVIOUS
  <2>2. /\ task' = new /\ new.tx = task.tx /\ new.pc = "policy" /\ new.contract = contract
    BY <1>1, <1>5, <2>1 DEF ReadContract, IsTask
  <2>3. moments' = {now} /\ Moment' = now
    BY <1>1, <1>2, <1>5, <2>2, SameMoment DEF ReadContract, World
  <2>4. IsFiniteSet(moments') /\ \A m, n \in moments' : AlikeBut("policy", m, n)
    BY <2>3, FS_Singleton DEF AlikeBut
  <2>5. contract' = contract
    BY <1>1 DEF World
  <2>6. \A m \in moments' :
          /\ m = [contract |-> m.contract, policy |-> m.policy, product |-> m.product]
          /\ SameTerms(m.contract, contract')
    BY <1>3, <1>4, <2>3, <2>5
  <2>7. IsContract(task'.contract) /\ SameTerms(task'.contract, contract')
    BY <1>4, <2>2, <2>5
  <2>8. now \in moments' /\ now.contract.revoked = task'.contract.revoked
    BY <1>3, <2>2, <2>3
  <2>9. \E k \in Aspects : \A m, n \in moments' : AlikeBut(k, m, n)
    BY <2>4 DEF Aspects
  <2>10. task'.pc = "policy"
    BY <2>2
  <2>. QED
    BY <2>3, <2>4, <2>6, <2>7, <2>8, <2>9, <2>10
       DEF Snapshot, AlikeBut, SameTerms, IsContract
<1>6. CASE ReadPolicy \/ ReadProduct
  <2>1. PICK new :
          new = IF task.pc = "policy"
                  THEN [task EXCEPT !.pc = "product", !.policy = PolicyFor(task.tx, None),
                                    !.version = VersionFor(task.tx, None)]
                  ELSE [task EXCEPT !.pc = "evaluate", !.product = GetProduct(task.tx.sku)]
    OBVIOUS
  <2>2. /\ task.pc \in {"policy", "product"} /\ task' = new /\ moments' = moments
    BY <1>6, <2>1 DEF ReadPolicy, ReadProduct, At
  <2>3. /\ new.tx = task.tx /\ new.contract = task.contract
        /\ task.pc = "policy" => new.pc = "product" /\ new.policy = now.policy
        /\ task.pc = "product" => /\ new.pc = "evaluate" /\ new.policy = task.policy
                                  /\ new.product = now.product
    BY <1>1, <1>3, <2>1, <2>2 DEF IsTask
  <2>4. /\ IsFiniteSet(moments) /\ now \in moments
        /\ \A m \in moments :
             /\ m = [contract |-> m.contract, policy |-> m.policy, product |-> m.product]
             /\ SameTerms(m.contract, contract)
        /\ IsContract(task.contract) /\ SameTerms(task.contract, contract)
        /\ \E m \in moments : m.contract.revoked = task.contract.revoked
        /\ task.pc = "product" => \E m \in moments : m.policy = task.policy
        /\ Cardinality(moments) <= 2 =>
             \E k \in Aspects : \A m, n \in moments : AlikeBut(k, m, n)
    BY <1>1, <1>2, <2>2 DEF Snapshot, Evaluating
  <2>5. Moment' = now
    BY <1>1, <1>2, <2>2, <2>3, SameMoment DEF World
  <2>6. \E m \in moments : m.policy = new.policy
    BY <2>2, <2>3, <2>4
  <2>7. new.pc = "evaluate" => \E m \in moments : m.product = new.product
    BY <2>2, <2>3, <2>4
  <2>8. /\ contract' = contract /\ moments' = moments /\ task' = new
        /\ new.contract = task.contract
    BY <1>1, <2>2, <2>3 DEF World
  <2>9. /\ \A m \in moments' :
             /\ m = [contract |-> m.contract, policy |-> m.policy, product |-> m.product]
             /\ SameTerms(m.contract, contract')
        /\ IsContract(task'.contract) /\ SameTerms(task'.contract, contract')
        /\ \E m \in moments' : m.contract.revoked = task'.contract.revoked
    BY <2>4, <2>8
  <2>10. /\ IsFiniteSet(moments') /\ now \in moments'
         /\ Cardinality(moments') <= 2 =>
              \E k \in Aspects : \A m, n \in moments' : AlikeBut(k, m, n)
    BY <2>4, <2>8
  <2>11. /\ \E m \in moments' : m.policy = task'.policy
         /\ task'.pc = "evaluate" => \E m \in moments' : m.product = task'.product
    BY <2>6, <2>7, <2>8
  <2>. QED
    BY <2>5, <2>9, <2>10, <2>11 DEF Snapshot, AlikeBut, SameTerms, IsContract
<1>. QED
  BY <1>5, <1>6

(* Every step keeps what was read a snapshot.                               *)
LEMMA NextSnapshot ==
  ASSUME WorldTyped, WorldTyped', TaskInv, MomentsTyped, Snapshot, [ShopNext]_shopVars
  PROVE  Snapshot'
<1>1. CASE task' = None \/ task'.pc \notin Evaluating
  BY <1>1 DEF Snapshot
<1>2. ASSUME UNCHANGED <<policies, active, written, contract, catalog, task, moments>>
      PROVE  Snapshot'
  <2>1. /\ Moment' = Moment /\ task' = task /\ moments' = moments
        /\ contract' = contract
    BY <1>2, SameMoment
  <2>2. CASE task # None /\ task.pc \in Evaluating
    <3>1. /\ IsFiniteSet(moments) /\ Moment \in moments
          /\ \A m \in moments :
               /\ m = [contract |-> m.contract, policy |-> m.policy, product |-> m.product]
               /\ SameTerms(m.contract, contract)
          /\ IsContract(task.contract) /\ SameTerms(task.contract, contract)
      BY <2>2 DEF Snapshot
    <3>2. /\ \E m \in moments : m.contract.revoked = task.contract.revoked
          /\ task.pc \in {"product", "evaluate"} => \E m \in moments : m.policy = task.policy
          /\ task.pc = "evaluate" => \E m \in moments : m.product = task.product
          /\ Cardinality(moments) <= 2 =>
               \E k \in Aspects : \A m, n \in moments : AlikeBut(k, m, n)
      BY <2>2 DEF Snapshot
    <3>3. /\ IsFiniteSet(moments') /\ Moment' \in moments'
          /\ \A m \in moments' :
               /\ m = [contract |-> m.contract, policy |-> m.policy, product |-> m.product]
               /\ SameTerms(m.contract, contract')
          /\ IsContract(task'.contract) /\ SameTerms(task'.contract, contract')
      BY <2>1, <3>1
    <3>4. /\ \E m \in moments' : m.contract.revoked = task'.contract.revoked
          /\ task'.pc \in {"product", "evaluate"} => \E m \in moments' : m.policy = task'.policy
          /\ task'.pc = "evaluate" => \E m \in moments' : m.product = task'.product
          /\ Cardinality(moments') <= 2 =>
               \E k \in Aspects : \A m, n \in moments' : AlikeBut(k, m, n)
      BY <2>1, <3>2
    <3>. QED
      BY <3>3, <3>4 DEF Snapshot, AlikeBut, SameTerms, IsContract
  <2>. QED
    BY <1>1, <2>1, <2>2
<1>3. CASE Replay
  BY <1>2, <1>3 DEF Replay, ReplayDecision
<1>4. CASE UNCHANGED shopVars
  BY <1>2, <1>4 DEF shopVars, vars
<1>. QED
  BY <1>1, <1>3, <1>4, NotEvaluating, WorldSnapshot, ReadSnapshot DEF ShopNext

(* The moments are those of delegations.                                    *)
LEMMA NextMoments ==
  ASSUME WorldTyped, WorldTyped', MomentsTyped, [ShopNext]_shopVars
  PROVE  MomentsTyped'
<1>1. Moment.contract = contract /\ Moment'.contract = contract'
  BY DEF Moment
<1>2. /\ IsContract(contract) /\ IsContract(contract')
      /\ \A m \in moments : IsContract(m.contract)
  BY DEF WorldTyped, MomentsTyped, IsContract
<1>3. \/ moments' = moments
      \/ moments' = {Moment}
      \/ moments' = moments \cup {Moment'}
  BY DEF ShopNext, shopVars, Discover, NegotiatePolicy, NegotiateOffer, ReadContract,
    ReadPolicy, ReadProduct, EvaluateOrder, PayOrder, WorldChanges, Crash,
    AuthorizeDirectly, Replay
<1>4. \A m \in moments' : IsContract(m.contract)
  BY <1>1, <1>2, <1>3
<1>. QED
  BY <1>4 DEF MomentsTyped, IsContract

(* When the decision falls, what it is based on was there: where two moments*)
(* differ in one thing only, all of it at once.                             *)
LEMMA DecisionSnapshot ==
  ASSUME WorldTyped, TaskInv, MomentsTyped, Snapshot, EvaluateOrder
  PROVE  EvaluationIsSnapshot'
<1>1. PICK available \in Budgets, edge \in Edges, reserved \in BOOLEAN :
        last' = Recorded(Outcome([tx |-> task.tx, proposal |-> Proposal(task.tx),
                                  contract |-> [task.contract EXCEPT !.expired = contract.expired],
                                  policy |-> task.policy, product |-> task.product,
                                  available |-> available, edge |-> edge],
                                 task.version), reserved)
  BY Zenon DEF EvaluateOrder
<1>2. PICK s : last'.facts = s
  OBVIOUS
<1>3. /\ s.contract = [task.contract EXCEPT !.expired = contract.expired]
      /\ s.policy = task.policy /\ s.product = task.product
  <2>1. s = [tx |-> task.tx, proposal |-> Proposal(task.tx),
             contract |-> [task.contract EXCEPT !.expired = contract.expired],
             policy |-> task.policy, product |-> task.product,
             available |-> available, edge |-> edge]
    BY <1>1, <1>2, OutcomeShape
  <2>. QED
    BY <2>1
<1>4. /\ IsFiniteSet(moments) /\ Moment \in moments
      /\ \A m \in moments :
           /\ m = [contract |-> m.contract, policy |-> m.policy, product |-> m.product]
           /\ SameTerms(m.contract, contract) /\ IsContract(m.contract)
      /\ IsContract(task.contract) /\ SameTerms(task.contract, contract)
      /\ \E m \in moments : m.contract.revoked = task.contract.revoked
      /\ \E m \in moments : m.policy = task.policy
      /\ \E m \in moments : m.product = task.product
      /\ Cardinality(moments) <= 2 =>
           \E k \in Aspects : \A m, n \in moments : AlikeBut(k, m, n)
  BY DEF Snapshot, MomentsTyped, EvaluateOrder, At, Evaluating
<1>5. s.contract.revoked = task.contract.revoked /\ s.contract.expired = contract.expired
      /\ IsContract(s.contract) /\ SameTerms(s.contract, contract)
  <2>1. IsContract(contract)
    BY DEF WorldTyped
  <2>2. /\ s.contract.revoked = task.contract.revoked
        /\ s.contract.expired = contract.expired /\ IsContract(s.contract)
    BY <1>3, <1>4, <2>1 DEF IsContract
  <2>3. SameTerms(s.contract, task.contract)
    BY <1>3, <1>4, <2>2 DEF SameTerms, IsContract
  <2>. QED
    BY <1>4, <2>1, <2>2, <2>3, TermsKept
<1>6. Moment.contract.expired = contract.expired
  BY DEF Moment
<1>7. ASSUME NEW m \in moments,
             m.contract.revoked = s.contract.revoked,
             m.contract.expired = s.contract.expired
      PROVE  m.contract = s.contract
  <2>1. /\ m.contract = [contract EXCEPT !.revoked = m.contract.revoked,
                                         !.expired = m.contract.expired]
        /\ s.contract = [contract EXCEPT !.revoked = s.contract.revoked,
                                         !.expired = s.contract.expired]
    BY <1>4, <1>5 DEF SameTerms
  <2>. QED
    BY <1>7, <2>1
<1>8. ASSUME Cardinality(moments) <= 2
      PROVE  [contract |-> s.contract, policy |-> s.policy, product |-> s.product] \in moments
  <2>1. PICK k \in Aspects : \A m, n \in moments : AlikeBut(k, m, n)
    BY <1>4, <1>8
  <2>2. PICK r \in moments : r.contract.revoked = task.contract.revoked
    BY <1>4
  <2>3. PICK p \in moments : p.policy = task.policy
    BY <1>4
  <2>4. PICK q \in moments : q.product = task.product
    BY <1>4
  <2>5. PICK e \in moments : e.contract.expired = contract.expired
    BY <1>4, <1>6
  <2>6. PICK m \in moments :
          /\ m.contract.revoked = task.contract.revoked
          /\ m.contract.expired = contract.expired
          /\ m.policy = task.policy /\ m.product = task.product
    <3>1. CASE k = "revoked"
      BY <2>1, <2>2, <2>3, <2>4, <2>5, <3>1 DEF AlikeBut
    <3>2. CASE k = "expired"
      BY <2>1, <2>2, <2>3, <2>4, <2>5, <3>2 DEF AlikeBut
    <3>3. CASE k = "policy"
      BY <2>1, <2>2, <2>3, <2>4, <2>5, <3>3 DEF AlikeBut
    <3>4. CASE k = "product"
      BY <2>1, <2>2, <2>3, <2>4, <2>5, <3>4 DEF AlikeBut
    <3>. QED
      BY <3>1, <3>2, <3>3, <3>4 DEF Aspects
  <2>7. m.contract = s.contract
    BY <1>5, <1>7, <2>6
  <2>. QED
    BY <1>3, <1>4, <2>6, <2>7
<1>9. moments' = moments
  BY DEF EvaluateOrder
<1>10. /\ \E m \in moments' : m.policy = last'.facts.policy
       /\ \E m \in moments' : m.product = last'.facts.product
       /\ \E m \in moments' : m.contract.revoked = last'.facts.contract.revoked
       /\ Cardinality(moments') <= 2 =>
            [contract |-> last'.facts.contract, policy |-> last'.facts.policy,
             product |-> last'.facts.product] \in moments'
  BY <1>2, <1>3, <1>4, <1>5, <1>8, <1>9
<1>. QED
  BY <1>10 DEF EvaluationIsSnapshot

(* After it, neither the decision nor the moments change.                   *)
LEMMA NextDecided ==
  ASSUME WorldTyped, TaskInv, MomentsTyped, Snapshot, EvaluationIsSnapshot,
         [ShopNext]_shopVars
  PROVE  EvaluationIsSnapshot'
<1>1. ASSUME last' = last, Decided => moments' = moments, task' # None => task # None
      PROVE  EvaluationIsSnapshot'
  BY <1>1 DEF EvaluationIsSnapshot, Decided
<1>2. CASE last' = None \/ task' = None
  BY <1>2 DEF EvaluationIsSnapshot, Decided
<1>3. CASE \E req \in Requests : Discover(req)
  BY <1>2, <1>3 DEF Discover
<1>4. CASE NegotiatePolicy \/ NegotiateOffer \/ ReadContract \/ ReadPolicy \/ ReadProduct
  <2>1. last = None
    BY <1>4 DEF NegotiatePolicy, NegotiateOffer, ReadContract, ReadPolicy, ReadProduct, At,
       TaskInv, TaskShaped, Unordered, Ahead, Evaluating
  <2>2. last' = last
    BY <1>4 DEF NegotiatePolicy, NegotiateOffer, ReadContract, ReadPolicy, ReadProduct
  <2>. QED
    BY <1>2, <2>1, <2>2
<1>5. CASE PayOrder
  BY <1>1, <1>5 DEF PayOrder, At
<1>6. CASE WorldChanges
  <2>1. Decided => moments' = moments
    BY <1>6 DEF WorldChanges, TaskInv, Judged, Evaluating
  <2>. QED
    BY <1>1, <1>6, <2>1 DEF WorldChanges, Change
<1>7. CASE Crash
  BY <1>1, <1>7 DEF Crash, Change
<1>8. CASE AuthorizeDirectly
  BY <1>2, <1>8 DEF AuthorizeDirectly
<1>9. CASE Replay
  BY <1>1, <1>9 DEF Replay, ReplayDecision
<1>10. CASE UNCHANGED shopVars
  BY <1>1, <1>10 DEF shopVars, vars
<1>. QED
  BY <1>3, <1>4, <1>5, <1>6, <1>7, <1>8, <1>9, <1>10, DecisionSnapshot DEF ShopNext

-------------------------------------------------------------------------------
(* The theorems                                                             *)

(* The invariant holds at first,                                            *)
LEMMA ShopInitTyped == ShopInit => ShopInv
<1>. SUFFICES ASSUME ShopInit PROVE ShopInv
  OBVIOUS
<1>1. WorldTyped
  BY InitKnown, InitNumbered, SeedCatalogKnown
     DEF ShopInit, Init, WorldTyped, WorldKnown, RecordsTyped
<1>2. TaskInv /\ Snapshot /\ MomentsTyped /\ EvaluationIsSnapshot
  BY DEF ShopInit, TaskInv, TaskShaped, RowFound, OrderFormed, HasOrder, Judged, Decided,
    Snapshot, MomentsTyped, EvaluationIsSnapshot
<1>. QED
  BY <1>1, <1>2 DEF ShopInv

(* every step keeps it,                                                     *)
LEMMA ShopNextTyped == ShopInv /\ [ShopNext]_shopVars => ShopInv'
<1>. SUFFICES ASSUME ShopInv, [ShopNext]_shopVars PROVE ShopInv'
  OBVIOUS
<1>1. WorldTyped'
  BY NextWorldTyped DEF ShopInv, TaskInv
<1>2. TaskInv'
  BY NextTask DEF ShopInv
<1>3. Snapshot' /\ MomentsTyped'
  BY <1>1, NextSnapshot, NextMoments DEF ShopInv
<1>4. EvaluationIsSnapshot'
  BY NextDecided DEF ShopInv
<1>. QED
  BY <1>1, <1>2, <1>3, <1>4 DEF ShopInv

(* and so it always holds.                                                  *)
LEMMA AlwaysShopping == ShopSpec => []ShopInv
BY ShopInitTyped, ShopNextTyped, PTL DEF ShopSpec

(* An evaluation without a lock is as good as one of a moment               *)
(* (EvaluationIsSnapshot), unless the world changed twice under it.         *)
THEOREM ShoppingEvaluationIsSnapshot == ShopSpec => []EvaluationIsSnapshot
<1>1. ShopInv => EvaluationIsSnapshot
  BY DEF ShopInv
<1>. QED
  BY <1>1, AlwaysShopping, PTL

(* Type correctness of the task and of the world around it (ShopTypeOK).    *)
THEOREM ShoppingTypeOK == ShopSpec => []ShopTypeOK
<1>1. ShopInv => ShopTypeOK
  <2>. SUFFICES ASSUME ShopInv PROVE ShopTypeOK
    OBVIOUS
  <2>1. TypeOK
    BY PartsTyped DEF ShopInv, WorldTyped
  <2>2. \A m \in moments : IsContract(m.contract)
    BY DEF ShopInv, MomentsTyped
  <2>3. ASSUME task # None
        PROVE  /\ task.pc \in {"negotiate", "offer", "contract", "pay"} \cup Evaluating \cup Ended
               /\ task.tx # None => task.tx.qty \in Nat
               /\ task.pc \in Evaluating => IsContract(task.contract) /\ moments # {}
               /\ task.pc = "pay" => IsOutcome(last) /\ last.decision = "ALLOW"
               /\ task.pc \in {"negotiate", "offer", "contract", "failed"} \cup Evaluating
                    => last = None
    <3>1. task.tx # None => task.tx.qty \in Nat
      BY <2>3, OrderTyped DEF ShopInv, TaskInv, HasOrder
    <3>2. task.pc \in Evaluating => IsContract(task.contract) /\ moments # {}
      BY <2>3 DEF ShopInv, Snapshot
    <3>3. task.pc = "pay" => IsOutcome(last) /\ last.decision = "ALLOW"
      BY <2>3 DEF ShopInv, TaskInv, Judged
    <3>. QED
      BY <2>3, <3>1, <3>2, <3>3
         DEF ShopInv, TaskInv, TaskShaped, Ahead, Unordered, Ended, Evaluating
  <2>. QED
    BY <2>1, <2>2, <2>3 DEF ShopTypeOK
<1>. QED
  BY <1>1, AlwaysShopping, PTL

(* The price of an order that was answered.                                 *)
LEMMA FinalBounds ==
  ASSUME TaskInv, task # None, task.pc = "evaluate" \/ last # None
  PROVE  LET list == ListPrice(task)
             final == FinalPrice(task.offer, list)
         IN  /\ list \in Nat /\ final \in Int /\ final <= list
             /\ ~ task.offer.eligible => final = list
             /\ Accepted(task) =>
                  /\ task.offer.eligible /\ task.offer.offered <= task.asked.maxOrder
                  /\ final = task.offer.offered \/ task.offer.offered = 0
                  /\ final < list =>
                       /\ task.asked.discounts /\ task.wants.target <= final
                       /\ 100 * (list - final) <= task.asked.maxDiscount * list + 50
<1>1. HasOrder /\ Answered(task)
  BY DEF TaskInv, OrderFormed, HasOrder, Evaluating
<1>2. PICK list : list = ListPrice(task)
  OBVIOUS
<1>3. list \in Nat /\ task.wants.target \in Int
  BY <1>1, <1>2, OrderTyped DEF TaskInv
<1>4. CASE Refused(task) /\ ~ Accepted(task)
  <2>1. FinalPrice(task.offer, list) = list /\ ~ task.offer.eligible
    BY <1>4 DEF Refused, Refusal, FinalPrice
  <2>. QED
    BY <1>2, <1>3, <1>4, <2>1
<1>5. CASE Accepted(task)
  <2>1. PICK down : /\ task.offer = [eligible |-> TRUE, offered |->
                                       OfferedPrice(task.asked, list, task.wants.target, down)]
                    /\ OfferedPrice(task.asked, list, task.wants.target, down) <= task.asked.maxOrder
    BY <1>2, <1>5 DEF Accepted
  <2>2. PICK offered : offered = OfferedPrice(task.asked, list, task.wants.target, down)
    OBVIOUS
  <2>3. IsPolicy(task.asked)
    BY <1>5, FirewallAssumption DEF Accepted
  <2>4. /\ offered \in Int /\ offered <= list
        /\ offered < list =>
             /\ task.asked.discounts /\ task.wants.target <= offered
             /\ 100 * (list - offered) <= task.asked.maxDiscount * list + 50
    BY <1>3, <2>2, <2>3, OfferedBounds
  <2>5. /\ task.offer.eligible /\ task.offer.offered = offered
        /\ FinalPrice(task.offer, list) = IF offered # 0 THEN offered ELSE list
        /\ offered <= task.asked.maxOrder
    BY <2>1, <2>2 DEF FinalPrice
  <2>6. CASE offered = 0
    BY <1>2, <1>3, <2>4, <2>5, <2>6
  <2>7. CASE offered # 0
    BY <1>2, <1>3, <2>4, <2>5, <2>7
  <2>. QED
    BY <2>6, <2>7
<1>. QED
  BY <1>1, <1>4, <1>5 DEF Answered

(* The order of a decision, part by part.                                   *)
LEMMA OrderJudged ==
  ASSUME TaskInv, Decided
  PROVE  LET s == last.facts
             list == ListPrice(task)
             final == FinalPrice(task.offer, list)
         IN  /\ s.tx = task.tx /\ s.proposal = Proposal(task.tx)
             /\ s.policy = task.policy /\ s.product = task.product
             /\ \E down : /\ s.tx.subtotal = list /\ s.tx.fees = Fees(list, final, down)
                          /\ s.tx.total = Total(final, down)
             /\ s.tx.currency = "INR" /\ s.tx.recurring = FALSE
             /\ s.tx.qty = task.wants.qty /\ s.tx.category = task.wants.category
             /\ s.proposal.merchant = s.tx.merchant /\ s.proposal.sku = s.tx.sku
             /\ s.proposal.category = s.tx.category /\ s.proposal.qty = s.tx.qty
             /\ s.proposal.total = s.tx.total /\ s.proposal.pincode = s.tx.pincode
             /\ s.proposal.recurring = s.tx.recurring
             /\ last.decision = "ALLOW" =>
                  \A r \in DOMAIN EvaluateAll(s) : EvaluateAll(s)[r] \in {"PASS", "ABSENT"}
<1>1. HasOrder /\ RowOf(task) /\ Formulated(task)
  BY OrderTyped DEF TaskInv, OrderFormed, HasOrder, Decided
<1>2. PICK s : s = last.facts
  OBVIOUS
<1>3. /\ s = Facts(task.tx, Proposal(task.tx), s.contract, task.policy, task.product,
                   s.available, s.edge)
      /\ last.decision = "ALLOW" =>
           \A r \in DOMAIN EvaluateAll(s) : EvaluateAll(s)[r] \in {"PASS", "ABSENT"}
  BY <1>2 DEF TaskInv, Judged
<1>4. /\ s.tx = task.tx /\ s.proposal = Proposal(task.tx)
      /\ s.policy = task.policy /\ s.product = task.product
  BY <1>3 DEF Facts
<1>5. PICK down : task.tx = Transaction(task.wants, task.sku, task.row, task.offer, down)
  BY <1>1 DEF Formulated
<1>6. PICK tx : tx = task.tx
  OBVIOUS
<1>7. PICK list, final : list = ListPrice(task) /\ final = FinalPrice(task.offer, list)
  OBVIOUS
<1>8. tx = [merchant |-> task.row.merchant, sku |-> task.sku, category |-> task.row.category,
            qty |-> task.wants.qty, unit |-> task.row.price, subtotal |-> list,
            fees |-> Fees(list, final, "tax" \in down), total |-> Total(final, "tax" \in down),
            currency |-> "INR", pincode |-> task.wants.pincode, recurring |-> FALSE,
            version |-> None]
  BY <1>5, <1>6, <1>7 DEF Transaction, ListPrice
<1>9. task.row.category = task.wants.category
  BY <1>1 DEF RowOf
<1>10. /\ tx.subtotal = list /\ tx.fees = Fees(list, final, "tax" \in down)
       /\ tx.total = Total(final, "tax" \in down)
       /\ tx.currency = "INR" /\ tx.recurring = FALSE
       /\ tx.qty = task.wants.qty /\ tx.category = task.wants.category
  BY <1>8, <1>9
<1>11. /\ s.proposal.merchant = tx.merchant /\ s.proposal.sku = tx.sku
       /\ s.proposal.category = tx.category /\ s.proposal.qty = tx.qty
       /\ s.proposal.total = tx.total /\ s.proposal.pincode = tx.pincode
       /\ s.proposal.recurring = tx.recurring
  BY <1>4, <1>6, <1>8, <1>10 DEF Proposal
<1>. QED
  BY <1>2, <1>3, <1>4, <1>6, <1>7, <1>10, <1>11

(* An agent's own order is never refused for its form (OwnOrderIntact),     *)
(* whatever it costs and whatever was discounted.                           *)
THEOREM ShoppingOwnOrderIntact == ShopSpec => []OwnOrderIntact
<1>1. ShopInv => OwnOrderIntact
  <2>. SUFFICES ASSUME ShopInv, Decided PROVE
         /\ \A rule \in FormRules : OutcomeOf(rule) \in {"PASS", "ABSENT"}
         /\ ~ DetectMutations(last.facts.tx, last.facts.proposal)
    BY DEF OwnOrderIntact
  <2>1. PICK s, list, final :
          /\ s = last.facts /\ list = ListPrice(task) /\ final = FinalPrice(task.offer, list)
    OBVIOUS
  <2>2. list \in Nat /\ final \in Int /\ final <= list
    BY <2>1, FinalBounds DEF ShopInv, Decided
  <2>3. PICK down : /\ s.tx.subtotal = list /\ s.tx.fees = Fees(list, final, down)
                    /\ s.tx.total = Total(final, down)
    BY <2>1, OrderJudged DEF ShopInv
  <2>4. /\ s.tx.currency = "INR" /\ s.tx.recurring = FALSE
        /\ s.proposal.merchant = s.tx.merchant /\ s.proposal.sku = s.tx.sku
        /\ s.proposal.category = s.tx.category /\ s.proposal.qty = s.tx.qty
        /\ s.proposal.total = s.tx.total /\ s.proposal.pincode = s.tx.pincode
        /\ s.proposal.recurring = s.tx.recurring
    BY <2>1, OrderJudged DEF ShopInv
  <2>5. /\ s.tx.subtotal \in Int /\ s.tx.fees \in Int /\ s.tx.total \in Int
        /\ s.tx.subtotal + s.tx.fees - s.tx.total = 0
    <3>1. /\ Fees(list, final, down) \in Int /\ Total(final, down) \in Int
          /\ list + Fees(list, final, down) = Total(final, down)
      BY <2>2, PartsAddUp
    <3>. QED
      BY <2>2, <2>3, <3>1
  <2>6. FeeIntegrity(s) = "PASS"
    BY <2>5 DEF FeeIntegrity, Magnitude, Require
  <2>7. CurrencyMatch(s) = "PASS" /\ UserRecurringPermission(s) = "PASS"
    BY <2>4 DEF CurrencyMatch, UserRecurringPermission, Require
  <2>8. /\ MerchantSubstitutions(s) \in {"PASS", "ABSENT"}
        /\ MutationMerchant(s) \in {"PASS", "ABSENT"} /\ MutationSku(s) \in {"PASS", "ABSENT"}
        /\ MutationQuantity(s) \in {"PASS", "ABSENT"}
        /\ MutationRecurring(s) \in {"PASS", "ABSENT"}
    BY <2>4 DEF MerchantSubstitutions, MutationMerchant, MutationSku, MutationQuantity,
       MutationRecurring, IfPresent, Require, RequireOr
  <2>9. MutationPriceDrift(s) \in {"PASS", "ABSENT"}
    BY <2>4, <2>5 DEF MutationPriceDrift, IfPresent, RequireOr, Larger
  <2>10. ~ DetectMutations(s.tx, s.proposal)
    BY <2>4, <2>5 DEF DetectMutations, MaterialDrift, Magnitude
  <2>11. \A rule \in FormRules : EvaluateAll(s)[rule] \in {"PASS", "ABSENT"}
    BY <2>6, <2>7, <2>8, <2>9 DEF FormRules, EvaluateAll
  <2>. QED
    BY <2>1, <2>10, <2>11 DEF OutcomeOf
<1>. QED
  BY <1>1, AlwaysShopping, PTL

(* Negotiation and firewall agree when both found the same policy and       *)
(* product, whatever the stock did in between (NegotiationAgrees), for any  *)
(* policy and any catalog.                                                  *)
THEOREM ShoppingNegotiationAgrees == ShopSpec => []NegotiationAgrees
<1>1. ShopInv => NegotiationAgrees
  <2>. SUFFICES ASSUME ShopInv, Decided, last.facts.policy = task.asked,
                       task.seen # None => last.facts.product = task.seen
                PROVE  NegotiationAgrees
    BY DEF NegotiationAgrees
  <2>1. PICK s, list, final :
          /\ s = last.facts /\ list = ListPrice(task) /\ final = FinalPrice(task.offer, list)
    OBVIOUS
  <2>2. /\ list \in Nat /\ final \in Int /\ final <= list
        /\ ~ task.offer.eligible => final = list
        /\ Accepted(task) =>
             /\ task.offer.eligible /\ task.offer.offered <= task.asked.maxOrder
             /\ final = task.offer.offered \/ task.offer.offered = 0
             /\ final < list =>
                  /\ task.asked.discounts /\ task.wants.target <= final
                  /\ 100 * (list - final) <= task.asked.maxDiscount * list + 50
    BY <2>1, FinalBounds DEF ShopInv, Decided
  <2>3. /\ s.tx = task.tx /\ s.tx.subtotal = list
        /\ s.tx.qty = task.wants.qty /\ s.tx.category = task.wants.category
        /\ last.decision = "ALLOW" =>
             \A r \in DOMAIN EvaluateAll(s) : EvaluateAll(s)[r] \in {"PASS", "ABSENT"}
        /\ s.policy = task.asked /\ (task.seen # None => s.product = task.seen)
    BY <2>1, OrderJudged DEF ShopInv
  <2>4. PICK down : s.tx.total = Total(final, down)
    BY <2>1, OrderJudged DEF ShopInv
  <2>5. HasOrder /\ Answered(task)
    BY DEF ShopInv, TaskInv, OrderFormed, HasOrder, Decided
  <2>6. task.wants.qty \in Nat
    BY <2>5, OrderTyped DEF ShopInv, TaskInv
  <2>7. CASE Refused(task) /\ ~ Accepted(task)
    <3>1. ~ task.offer.eligible /\ final = list
      BY <2>2, <2>7 DEF Refused, Refusal
    <3>2. last.decision # "ALLOW"
      <4>. SUFFICES ASSUME last.decision = "ALLOW" PROVE FALSE
        OBVIOUS
      <4>1. /\ MerchantPolicyPresent(s) \in {"PASS", "ABSENT"}
            /\ MerchantAiEnabled(s) \in {"PASS", "ABSENT"}
            /\ MerchantCategory(s) \in {"PASS", "ABSENT"}
            /\ ProductInventory(s) \in {"PASS", "ABSENT"}
            /\ MerchantOrderCap(s) \in {"PASS", "ABSENT"}
        <5>1. \A r \in DOMAIN EvaluateAll(s) : EvaluateAll(s)[r] \in {"PASS", "ABSENT"}
          BY <2>3
        <5>. QED
          BY <5>1 DEF EvaluateAll
      <4>2. s.policy # None
        BY <4>1 DEF MerchantPolicyPresent
      <4>3. s.policy.aiSales /\ Listed(s.tx.category, s.policy.categories)
        BY <4>1, <4>2 DEF MerchantAiEnabled, MerchantCategory, IfPresent, Require
      <4>4. ~ PolicyRefuses(task.asked, task.wants.category)
        BY <2>3, <4>2, <4>3 DEF PolicyRefuses
      <4>5. task.seen # None /\ task.seen.inventory \in Nat =>
              ~ (task.seen.inventory < task.wants.qty)
        BY <2>3, <2>6, <4>1 DEF ProductInventory, IfPresent, Require
      <4>6. s.tx.total <= s.policy.maxOrder
        BY <4>1, <4>2 DEF MerchantOrderCap, IfPresent, RequireOr
      <4>7. list <= s.tx.total /\ s.tx.total \in Int
        BY <2>2, <2>4, <3>1, PartsAddUp
      <4>8. task.asked \in Contents => ~ (list > task.asked.maxOrder)
        BY <2>2, <2>3, <4>6, <4>7, FirewallAssumption DEF IsPolicy
      <4>. QED
        BY <2>1, <2>7, <4>4, <4>5, <4>8 DEF Refused
    <3>. QED
      BY <3>1, <3>2, <2>1, <2>3, <2>2 DEF NegotiationAgrees
  <2>8. CASE Accepted(task)
    <3>1. /\ task.asked \in Contents /\ task.asked # None
          /\ task.asked.aiSales /\ Listed(task.wants.category, task.asked.categories)
          /\ s.product # None /\ s.product.aiEnabled
          /\ s.product.inventory \in Nat /\ task.wants.qty <= s.product.inventory
      BY <2>3, <2>8 DEF Accepted, PolicyRefuses
    <3>2. MerchantAiEnabled(s) = "PASS" /\ MerchantCategory(s) = "PASS"
      BY <2>3, <3>1 DEF MerchantAiEnabled, MerchantCategory, IfPresent, Require
    <3>3. ProductInventory(s) = "PASS" /\ ProductAiEnabled(s) = "PASS"
      BY <2>3, <2>6, <3>1 DEF ProductInventory, ProductAiEnabled, IfPresent, Require
    <3>4. \A rule \in {"RULE_MERCHANT_AI_COMMERCE_ENABLED", "RULE_MERCHANT_CATEGORY_RESTRICTION",
                       "RULE_PRODUCT_INVENTORY_AVAILABLE", "RULE_PRODUCT_AI_ELIGIBILITY"} :
            EvaluateAll(s)[rule] = "PASS"
      BY <3>2, <3>3 DEF EvaluateAll
    <3>5. final <= task.asked.maxOrder \/ task.offer.offered = 0
      BY <2>2, <2>8
    <3>. QED
      BY <2>1, <2>2, <2>3, <2>8, <3>4, <3>5 DEF NegotiationAgrees, OutcomeOf
  <2>. QED
    BY <2>5, <2>7, <2>8 DEF Answered
<1>. QED
  BY <1>1, AlwaysShopping, PTL

-------------------------------------------------------------------------------
(* What the world around a task keeps                                       *)

(* The steps that write policies are those of the firewall's world.         *)
LEMMA ShopPolicySteps ==
  ASSUME [ShopNext]_shopVars
  PROVE  Policies!Publish \/ Policies!SeedAgain \/ UNCHANGED <<policies, active, written>>
BY FirewallOrTask, ActivitySteps DEF EvaluateOrder, PayOrder, World

(* A version, once written, is immutable (VersionsImmutable), also while    *)
(* tasks are under way.                                                     *)
THEOREM ShoppingVersionsImmutable == ShopSpec => VersionsImmutable
<1>1. SeedsKept /\ [ShopNext]_shopVars =>
        /\ SeedsKept'
        /\ [\A v \in Versions : policies[v] # None => policies'[v] = policies[v]]_(Policies!policyVars)
  BY SeedsStay, ShopPolicySteps
<1>2. ShopInit => SeedsKept
  BY InitSeeds DEF ShopInit
<1>. QED
  BY <1>1, <1>2, PTL DEF ShopSpec, VersionsImmutable, Policies!VersionsImmutable

(* The policy in force changes only by publishing                           *)
(* (ForceChangesByPublishing): no task and no restart moves it.             *)
THEOREM ShoppingForceChangesByPublishing == ShopSpec => ForceChangesByPublishing
<1>1. ShopInv /\ [ShopNext]_shopVars =>
        [Policies!ActiveVersion' # Policies!ActiveVersion =>
           Len(written') > Len(written)
           /\ Policies!ActiveVersion' = written'[Len(written')]]_(Policies!policyVars)
  BY ForceMoves, ShopPolicySteps DEF ShopInv, WorldTyped
<1>. QED
  BY <1>1, AlwaysShopping, PTL
     DEF ShopSpec, ForceChangesByPublishing, Policies!ForceChangesByPublishing

(* The total of an order about to be decided is a number.                   *)
LEMMA OrderTotal ==
  ASSUME TaskInv, task # None, task.pc = "evaluate"
  PROVE  task.tx.total \in Int
<1>1. PICK list, final : list = ListPrice(task) /\ final = FinalPrice(task.offer, list)
  OBVIOUS
<1>2. list \in Nat /\ final \in Int /\ final <= list
  BY <1>1, FinalBounds
<1>3. Formulated(task)
  BY DEF TaskInv, OrderFormed, HasOrder, Evaluating
<1>4. PICK down : task.tx = Transaction(task.wants, task.sku, task.row, task.offer, down)
  BY <1>3 DEF Formulated
<1>5. task.tx.total = Total(final, "tax" \in down)
  BY <1>1, <1>4 DEF Transaction, ListPrice
<1>. QED
  BY <1>2, <1>5, PartsAddUp

(* The decision on a task's order is recorded like any other, and replayed  *)
(* the same.                                                                *)
LEMMA OrderRecorded ==
  ASSUME ShopInv, RecordKnown, ReplayKnown, EvaluateOrder
  PROVE  RecordedFacts' /\ RecordKnown' /\ ReplayKnown'
<1>1. PICK available \in Budgets, edge \in Edges, reserved \in BOOLEAN :
        LET s == Facts(task.tx, Proposal(task.tx),
                       [task.contract EXCEPT !.expired = contract.expired],
                       task.policy, task.product, available, edge)
        IN  /\ available <= task.contract.aggregate
            /\ last' = Recorded(Outcome(s, task.version), reserved)
  BY DEF EvaluateOrder, Facts
<1>2. PICK s, c : /\ c = [task.contract EXCEPT !.expired = contract.expired]
                  /\ s = Facts(task.tx, Proposal(task.tx), c,
                               task.policy, task.product, available, edge)
  OBVIOUS
<1>3. /\ last' = Recorded(Outcome(s, task.version), reserved) /\ last'.facts = s
      /\ available <= task.contract.aggregate /\ available \in Int
  BY <1>1, <1>2, OutcomeShape, FirewallAssumption
<1>4. /\ task # None /\ task.pc = "evaluate" /\ replay' = replay
      /\ IsContract(task.contract) /\ IsContract(contract) /\ last = None
  BY DEF EvaluateOrder, At, World, ShopInv, WorldTyped, Snapshot, TaskInv, TaskShaped, Ahead,
    Evaluating
<1>5. IsContract(c) /\ c.aggregate = task.contract.aggregate
  BY <1>2, <1>4 DEF IsContract
<1>6. task.tx.total \in Int
  BY <1>4, OrderTotal DEF ShopInv
<1>7. /\ s = Facts(s.tx, s.proposal, s.contract, s.policy, s.product, s.available, s.edge)
      /\ s.tx = task.tx /\ s.contract = c /\ s.available = available
  BY <1>2 DEF Facts
<1>8. RecordedFacts'
  BY <1>3, <1>5, <1>6, <1>7 DEF RecordedFacts, Facts, IsContract
<1>9. RecordKnown'
  BY <1>3, <1>5, <1>7 DEF RecordKnown
<1>10. ReplayKnown'
  BY <1>4 DEF ReplayKnown
<1>. QED
  BY <1>8, <1>9, <1>10

(* So every step keeps the record of the decision and its replay.           *)
LEMMA NextRecorded ==
  ShopInv /\ RecordedFacts /\ RecordKnown /\ ReplayKnown /\ [ShopNext]_shopVars =>
    RecordedFacts' /\ RecordKnown' /\ ReplayKnown'
<1>. SUFFICES ASSUME ShopInv, RecordedFacts, RecordKnown, ReplayKnown, [ShopNext]_shopVars
              PROVE  RecordedFacts' /\ RecordKnown' /\ ReplayKnown'
  OBVIOUS
<1>1. CASE EvaluateOrder
  BY <1>1, OrderRecorded
<1>2. CASE PayOrder
  BY <1>2 DEF PayOrder, RecordedFacts, RecordKnown, ReplayKnown, Facts, IsContract
<1>3. CASE [Next]_vars
  <2>1. RecordKnown' /\ ReplayKnown'
    BY <1>3, NextReplayed
  <2>2. ASSUME NEW tx \in Txs, NEW proposal, NEW available, NEW edge, NEW reserved,
               Evaluate(tx, proposal, available, edge, reserved)
        PROVE  RecordedFacts'
    <3>1. PICK s : s = Situation(tx, proposal, None, available, edge)
      OBVIOUS
    <3>2. last'.facts = s
      BY <2>2, <3>1, OutcomeShape DEF Evaluate
    <3>3. /\ s = Facts(s.tx, s.proposal, s.contract, s.policy, s.product, s.available, s.edge)
          /\ s.tx = tx /\ s.contract = contract
      BY <3>1 DEF Situation, Facts
    <3>4. tx.total \in Int /\ IsContract(contract)
      BY FirewallAssumption DEF ShopInv, WorldTyped
    <3>. QED
      BY <3>2, <3>3, <3>4 DEF RecordedFacts, Facts, IsContract
  <2>3. CASE last' = last
    BY <2>1, <2>3 DEF RecordedFacts
  <2>. QED
    BY <1>3, <2>1, <2>2, <2>3 DEF Next, vars, ReplayDecision, Change
<1>. QED
  BY <1>1, <1>2, <1>3, FirewallOrTask

(* Replay determinism (ReplayReproduces), for the orders of the buyer agent *)
(* as well.                                                                 *)
THEOREM ShoppingReplayReproduces == ShopSpec => []ReplayReproduces
<1>1. ShopInit => RecordedFacts /\ RecordKnown /\ ReplayKnown
  BY DEF ShopInit, Init, RecordedFacts, RecordKnown, ReplayKnown
<1>. QED
  BY <1>1, AlwaysShopping, NextRecorded, SameFactsSameOutcome, PTL DEF ShopSpec

===============================================================================
