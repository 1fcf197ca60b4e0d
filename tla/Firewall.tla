------------------------------- MODULE Firewall -------------------------------
(***************************************************************************)
(* The authorization firewall in the world it reads: one delegation, one   *)
(* merchant with its versioned policies, the catalog. The user revokes,    *)
(* the merchant publishes, the clock runs out, others pay for units or put *)
(* some back, the server restarts; the agent submits transactions; and the *)
(* forensic replay (audit/replay.py) evaluates a recorded decision again in*)
(* the world as it is by then.                                             *)
(*                                                                         *)
(* The budget is that of Reservations: an evaluation is given any amount   *)
(* the ledger may answer, and its reservation may be refused. The          *)
(* interleaving of concurrent evaluations is that of Gateway: here an      *)
(* evaluation is one step. A transaction that names no known contract is   *)
(* denied before any rule and is modelled there as well.                   *)
(***************************************************************************)
EXTENDS FirewallRules, Sequences

CONSTANTS
  Merchant,        (* the merchant with policies                           *)
  ContractsMade,   (* the delegations a user may create                    *)
  SeedCatalog,     (* the seeded products: a function on skus              *)
  Quantities,      (* what others pay for; nothing keeps it above zero     *)
  Txs, Proposals,  (* what agents may submit                               *)
  Budgets,         (* amounts the ledger may answer                        *)
  Versions, SeedPolicies, SeedOrder, SeedActive, Drafts,
  Edges,           (* the ties of floats that are looked at (bound)        *)
  Targets,         (* the policy versions replays are asked for            *)
  MaxChanges       (* bound: changes of the world                          *)

VARIABLES
  policies, active, written,   (* the policies, see MerchantPolicies       *)
  contract,    (* the delegation                                           *)
  catalog,     (* catalog[sku]: the product                                *)
  last,        (* the decision recorded last, with what it was based on    *)
  replay,      (* the last replay of it                                    *)
  changes      (* changes of the world so far                              *)

Policies == INSTANCE MerchantPolicies

vars == <<policies, active, written, contract, catalog, last, replay, changes>>

(* A delegation, a policy and a product have the fields that are read, with *)
(* the bounds their models put on the numbers.                              *)
IsContract(c) ==
  /\ c = [merchants |-> c.merchants, categories |-> c.categories,
          pincodes |-> c.pincodes, maxOrder |-> c.maxOrder,
          aggregate |-> c.aggregate, recurring |-> c.recurring,
          conditions |-> c.conditions, revoked |-> c.revoked, expired |-> c.expired]
  /\ c.maxOrder \in Int /\ c.aggregate \in Int
  /\ c.revoked \in BOOLEAN /\ c.expired \in BOOLEAN
IsPolicy(p) ==
  /\ p = [aiSales |-> p.aiSales, maxOrder |-> p.maxOrder, categories |-> p.categories,
          substitutions |-> p.substitutions, stepUp |-> p.stepUp,
          discounts |-> p.discounts, maxDiscount |-> p.maxDiscount]
  /\ p.maxOrder \in Nat /\ p.maxDiscount \in 0 .. 100
IsProduct(p) ==
  /\ p = [merchant |-> p.merchant, category |-> p.category, price |-> p.price,
          inventory |-> p.inventory, aiEnabled |-> p.aiEnabled,
          installation |-> p.installation]
  /\ p.price \in Nat /\ p.inventory \in Nat

(* The contents a version may have.                                         *)
Contents == Drafts \cup {SeedPolicies[v] : v \in DOMAIN SeedPolicies}

ApprovalConditions == {"new_merchant", "price_increase_over_10_percent",
                       "substituted_sku", "unapproved_pincode"}
StepUpRules == {"high_value_order", "product_substitution"}

ASSUME FirewallAssumption ==
  /\ Policies!PoliciesAssumption
  /\ \A p \in Contents : IsPolicy(p)
  /\ \A p \in Contents, rules \in SUBSET StepUpRules :
       [p EXCEPT !.stepUp = rules] # None
  /\ \A c \in ContractsMade : IsContract(c)
  /\ \A sku \in DOMAIN SeedCatalog : IsProduct(SeedCatalog[sku])
  /\ Quantities \subseteq Int
  /\ None \notin Txs
  /\ \A tx \in Txs : tx.total \in Int /\ tx.version \in Versions \cup {None}
  /\ \A proposal \in Proposals : proposal.total \in Int
  /\ Budgets \subseteq Int
  /\ Edges \subseteq SUBSET {"fee", "drift"}
  /\ Targets \subseteq Versions \cup {None}
  /\ MaxChanges \in Nat

-------------------------------------------------------------------------------
(* The policy an evaluation goes by: the version it is told to use, else the*)
(* version the transaction names, else the one in force.                    *)
VersionFor(tx, override) ==
  IF override # None THEN override
  ELSE IF tx.version # None THEN tx.version
  ELSE Policies!ActiveVersion
PolicyFor(tx, override) ==
  LET v == VersionFor(tx, override) IN
  IF tx.merchant # Merchant \/ v = None THEN None ELSE policies[v]

GetProduct(sku) == IF sku \in DOMAIN catalog THEN catalog[sku] ELSE None

Situation(tx, proposal, override, available, edge) ==
  [tx |-> tx, proposal |-> proposal, contract |-> contract,
   policy |-> PolicyFor(tx, override), product |-> GetProduct(tx.sku),
   available |-> available, edge |-> edge]

Outcome(s, version) ==
  [facts |-> s, decision |-> Decide(s),
   version |-> IF s.policy = None THEN None ELSE version,
   matched |-> RulesWith(EvaluateAll(s), "PASS"),
   failed |-> RulesWith(EvaluateAll(s), "DENY")]

(* What is persisted: an order that may be allowed is denied when its budget*)
(* cannot be reserved.                                                      *)
Recorded(o, reserved) ==
  IF o.decision = "ALLOW" /\ ~ reserved
    THEN [o EXCEPT !.decision = "DENY", !.failed = {"RULE_USER_AGGREGATE_BUDGET"}]
    ELSE o

(* evaluate and _persist_decision, for a request. One decision is followed  *)
(* (bound): the others change nothing that these variables show.            *)
Evaluate(tx, proposal, available, edge, reserved) ==
  /\ last = None
  /\ last' = Recorded(Outcome(Situation(tx, proposal, None, available, edge),
                              VersionFor(tx, None)), reserved)
  /\ UNCHANGED <<policies, active, written, contract, catalog, replay, changes>>

(* Mutant: the replay is given the budget that is left.                     *)
ReplayLiveBudget(target) ==
  /\ last # None
  /\ \E available \in Budgets :
       replay' = Outcome(Situation(last.facts.tx, last.facts.proposal, target,
                                   available, last.facts.edge),
                         VersionFor(last.facts.tx, target))
  /\ UNCHANGED <<policies, active, written, contract, catalog, last, changes>>

(* replay_decision: the recorded transaction and proposal are evaluated in  *)
(* simulation, as if nothing of the budget had been spent; nothing is       *)
(* reserved or recorded. The floats are the same, and compare the same way. *)
ReplayDecision(target) ==
  /\ last # None
  /\ replay' = Outcome(Situation(last.facts.tx, last.facts.proposal, target,
                                 contract.aggregate, last.facts.edge),
                       VersionFor(last.facts.tx, target))
  /\ UNCHANGED <<policies, active, written, contract, catalog, last, changes>>

(* What happens to the world before the decision and between it and its     *)
(* replay, at most MaxChanges times.                                        *)
Change(world) ==
  /\ changes < MaxChanges /\ replay = None
  /\ changes' = changes + 1
  /\ world
  /\ UNCHANGED <<last, replay>>

RevokeContract ==
  /\ contract' = [contract EXCEPT !.revoked = TRUE]
  /\ UNCHANGED <<policies, active, written, catalog>>
ContractExpires ==
  /\ contract' = [contract EXCEPT !.expired = TRUE]
  /\ UNCHANGED <<policies, active, written, catalog>>
PublishPolicy ==
  /\ Policies!Publish
  /\ UNCHANGED <<contract, catalog>>
(* A payment deducts its quantity from the stock, and not below zero; a      *)
(* negative quantity adds to it.                                            *)
DeductUnits(sku, qty) ==
  catalog' = [catalog EXCEPT ![sku].inventory = Larger(0, @ - qty)]
SellUnits ==
  /\ \E sku \in DOMAIN catalog, qty \in Quantities : DeductUnits(sku, qty)
  /\ UNCHANGED <<policies, active, written, contract>>
(* seed_catalog: every seeded row is written again, its inventory included. *)
SeedCatalogAgain == catalog' = SeedCatalog
Restart ==
  /\ Policies!SeedAgain
  /\ SeedCatalogAgain
  /\ UNCHANGED contract

Init ==
  /\ Policies!Init
  /\ contract \in ContractsMade
  /\ catalog = SeedCatalog
  /\ last = None /\ replay = None
  /\ changes = 0

Next ==
  \/ \E tx \in Txs, proposal \in Proposals \cup {None}, available \in Budgets,
        edge \in Edges, reserved \in BOOLEAN :
       available <= contract.aggregate /\ Evaluate(tx, proposal, available, edge, reserved)
  \/ \E target \in Targets : ReplayDecision(target)
  \/ Change(RevokeContract) \/ Change(ContractExpires) \/ Change(PublishPolicy)
  \/ Change(SellUnits) \/ Change(Restart)

Spec == Init /\ [][Next]_vars

-------------------------------------------------------------------------------
(* Type invariant: of a product only the stock ever changes, and it is      *)
(* never below zero; a record of an evaluation carries a decision, the rules*)
(* it reports are rules, and it failed one exactly when it is a DENY; a     *)
(* replay is of the recorded transaction and proposal.                      *)
IsOutcome(o) ==
  /\ o.decision \in {"ALLOW", "CHALLENGE", "DENY"}
  /\ LET outcomes == EvaluateAll(o.facts) IN
     /\ \A r \in DOMAIN outcomes : outcomes[r] \in Impacts
     /\ o.matched \cup o.failed \subseteq DOMAIN outcomes
  /\ o.failed # {} <=> o.decision = "DENY"
TypeOK ==
  /\ Policies!TypeOK
  /\ DOMAIN catalog = DOMAIN SeedCatalog
  /\ \A sku \in DOMAIN SeedCatalog :
       /\ catalog[sku].inventory \in Nat
       /\ catalog[sku] = [SeedCatalog[sku] EXCEPT !.inventory = catalog[sku].inventory]
  /\ last # None => IsOutcome(last)
  /\ replay # None =>
       /\ last # None /\ IsOutcome(replay)
       /\ replay.facts.tx = last.facts.tx
       /\ replay.facts.proposal = last.facts.proposal

WithConditions(s, conditions) == [s EXCEPT !.contract.conditions = conditions]
WithStepUp(s, rules) ==
  IF s.policy = None THEN s ELSE [s EXCEPT !.policy.stepUp = rules]

(* Asking for approval instead of denying never lets money through: whatever*)
(* approval conditions the contract or the policy lists, the same orders are*)
(* allowed, and with fewer conditions no decision is more permissive.       *)
ConditionsNeverAllow ==
  last # None =>
    LET s == last.facts IN
    /\ \A conditions \in SUBSET ApprovalConditions :
         LET d == Decide(WithConditions(s, conditions)) IN
         /\ d = "ALLOW" <=> Decide(s) = "ALLOW"
         /\ conditions \subseteq s.contract.conditions => Rank(Decide(s)) <= Rank(d)
    /\ s.policy # None => \A rules \in SUBSET StepUpRules :
         LET d == Decide(WithStepUp(s, rules)) IN
         /\ d = "ALLOW" <=> Decide(s) = "ALLOW"
         /\ rules \subseteq s.policy.stepUp => Rank(Decide(s)) <= Rank(d)

(* An agent gains nothing by sending a proposal, whatever it says: without  *)
(* it the decision is at least as permissive.                               *)
ProposalNeverRelaxes ==
  last # None =>
    Rank(Decide([last.facts EXCEPT !.proposal = None])) <= Rank(Decide(last.facts))

(* A contract that grants no more than another: an empty list grants all.   *)
GrantsNoMore(list, than) == than = {} \/ (list # {} /\ list \subseteq than)
Tighter(c, d) ==
  /\ GrantsNoMore(c.merchants, d.merchants)
  /\ GrantsNoMore(c.categories, d.categories)
  /\ GrantsNoMore(c.pincodes, d.pincodes)
  /\ c.maxOrder <= d.maxOrder /\ c.aggregate <= d.aggregate
  /\ c.recurring => d.recurring
  /\ c.conditions \subseteq d.conditions
  /\ d.revoked => c.revoked
  /\ d.expired => c.expired

(* Delegating less never permits more: under a tighter contract no decision *)
(* is more permissive.                                                      *)
TighterNeverRelaxes ==
  last # None =>
    \A c \in ContractsMade :
      Tighter(c, last.facts.contract) =>
        Rank(Decide(last.facts)) <= Rank(Decide([last.facts EXCEPT !.contract = c]))

(* The firewall and the mutation detector, which do not use each other and  *)
(* measure a drift differently, agree one way: a transaction that is refused*)
(* because of its proposal differs materially from it.                      *)
RefusedMutationIsMaterial ==
  last # None =>
    LET s == last.facts IN
    Decide(s) # "ALLOW" /\ Decide([s EXCEPT !.proposal = None]) = "ALLOW" =>
      DetectMutations(s.tx, s.proposal)

Unbudgeted(s) == [s EXCEPT !.available = 0]

(* Replay determinism: a replay that finds the same transaction, contract,  *)
(* policy and product reproduces the decision and the rules it passed,      *)
(* unless the budget was what denied it.                                    *)
ReplayReproduces ==
  replay # None /\ Unbudgeted(replay.facts) = Unbudgeted(last.facts) =>
    \/ replay.decision = last.decision /\ replay.matched = last.matched
    \/ "RULE_USER_AGGREGATE_BUDGET" \in last.failed

(* A version is immutable once written: publishing never touches a version  *)
(* that exists, and a restart writes back what is there, also when a        *)
(* merchant published other versions in between.                            *)
VersionsImmutable == Policies!VersionsImmutable

(* The policy in force changes only by publishing: a restart makes seeded   *)
(* versions active again that were superseded, and still the newest         *)
(* published active version stays in force.                                 *)
ForceChangesByPublishing == Policies!ForceChangesByPublishing

===============================================================================
