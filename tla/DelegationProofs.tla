---------------------------- MODULE DelegationProofs ----------------------------
(***************************************************************************)
(* Proofs that the firewall allows, under a compiled delegation, only what *)
(* its user said, and decides under it as under any other; for any prompts,*)
(* confirmations, transactions, policies and changes of the world.         *)
(***************************************************************************)
EXTENDS Delegation, ReplayProofs, FiniteSetTheorems

(* A contract has the fields of one, and grants what was compiled; whether  *)
(* it is revoked or expired is another matter.                              *)
HasFields(c) ==
  c = [merchants |-> c.merchants, categories |-> c.categories,
       pincodes |-> c.pincodes, maxOrder |-> c.maxOrder,
       aggregate |-> c.aggregate, recurring |-> c.recurring,
       conditions |-> c.conditions, revoked |-> c.revoked, expired |-> c.expired]
GrantsAsCompiled(c) ==
  LET candidate == Compile(said.prompt, said.confirmed) IN
  /\ c.merchants = candidate.merchants /\ c.categories = candidate.categories
  /\ c.pincodes = candidate.pincodes /\ c.maxOrder = candidate.maxOrder
  /\ c.aggregate = candidate.aggregate /\ c.recurring = candidate.recurring

(* The inductive invariant: once a delegation was compiled, the contract and*)
(* the one a decision was based on grant what was compiled; no more budget  *)
(* is available than that contract has; and an order is only allowed by all *)
(* the rules.                                                               *)
SaidKnown ==
  /\ HasFields(contract)
  /\ said # None =>
       /\ said.prompt \in Prompts /\ said.confirmed \in Answers
       /\ GrantsAsCompiled(contract)
       /\ last # None => GrantsAsCompiled(last.facts.contract)
  /\ last # None =>
       /\ last.facts.tx \in Txs
       /\ last.facts.available \in Int
       /\ last.facts.available <= last.facts.contract.aggregate
       /\ last.decision = "ALLOW" => Decide(last.facts) = "ALLOW"

(* It holds before anything was said.                                       *)
LEMMA InitSaid == DelegationInit => SaidKnown
BY FirewallAssumption DEF DelegationInit, Init, SaidKnown, IsContract, HasFields

(* Creating the candidate makes it the contract.                            *)
LEMMA CreateSaid ==
  ASSUME NEW p \in Prompts, NEW confirmed \in Answers, SaidKnown,
         Change(CreateDelegation(p, confirmed))
  PROVE  SaidKnown'
<1>1. /\ last = None /\ last' = None
      /\ contract' = Compile(p, confirmed)
      /\ said' = [prompt |-> p, confirmed |-> confirmed]
  BY DEF Change, CreateDelegation
<1>2. HasFields(contract')
  BY <1>1 DEF Compile, HasFields
<1>3. said'.prompt = p /\ said'.confirmed = confirmed
  BY <1>1
<1>4. GrantsAsCompiled(contract)'
  BY <1>1, <1>3 DEF GrantsAsCompiled
<1>. QED
  BY <1>1, <1>2, <1>3, <1>4 DEF SaidKnown, HasFields

(* The steps of the firewall and of its world leave what is granted alone.  *)
LEMMA NextSaid ==
  ASSUME SaidKnown, [Next]_vars, UNCHANGED said
  PROVE  SaidKnown'
<1>1. /\ HasFields(contract)'
      /\ said # None => GrantsAsCompiled(contract)'
  <2>1. CASE RevokeContract
    BY <2>1 DEF RevokeContract, SaidKnown, HasFields, GrantsAsCompiled
  <2>2. CASE ContractExpires
    BY <2>2 DEF ContractExpires, SaidKnown, HasFields, GrantsAsCompiled
  <2>3. CASE UNCHANGED contract
    BY <2>3 DEF SaidKnown, HasFields, GrantsAsCompiled
  <2>. QED
    BY <2>1, <2>2, <2>3
       DEF Next, vars, Evaluate, ReplayDecision, Change, PublishPolicy, SellUnits, Restart
<1>2. \/ UNCHANGED last
      \/ \E tx \in Txs, proposal \in Proposals \cup {None}, available \in Budgets,
            edge \in Edges, reserved \in BOOLEAN :
           available <= contract.aggregate /\ Evaluate(tx, proposal, available, edge, reserved)
  BY DEF Next, vars, ReplayDecision, Change
<1>3. CASE UNCHANGED last
  BY <1>1, <1>3 DEF SaidKnown, GrantsAsCompiled
<1>4. ASSUME NEW tx \in Txs, NEW proposal \in Proposals \cup {None},
             NEW available \in Budgets, NEW edge \in Edges, NEW reserved \in BOOLEAN,
             available <= contract.aggregate, Evaluate(tx, proposal, available, edge, reserved)
      PROVE  SaidKnown'
  <2>. DEFINE s == Situation(tx, proposal, None, available, edge)
              o == Outcome(s, VersionFor(tx, None))
  <2>1. last' = Recorded(o, reserved) /\ UNCHANGED contract
    BY <1>4 DEF Evaluate
  <2>2. o.facts = s /\ o.decision = Decide(s)
    BY DEF Outcome
  <2>3. s.contract = contract /\ s.tx = tx /\ s.available = available
    BY DEF Situation
  <2>4. Recorded(o, reserved).facts = s
        /\ (Recorded(o, reserved).decision = "ALLOW" => o.decision = "ALLOW")
    BY DEF Recorded, Outcome
  <2>. HIDE DEF s, o
  <2>5. /\ last'.facts.tx \in Txs
        /\ last'.facts.available \in Int
        /\ last'.facts.available <= last'.facts.contract.aggregate
        /\ last'.decision = "ALLOW" => Decide(last'.facts) = "ALLOW"
    BY <1>4, <2>1, <2>2, <2>3, <2>4, FirewallAssumption
  <2>6. said # None => GrantsAsCompiled(last.facts.contract)'
    BY <2>1, <2>3, <2>4 DEF SaidKnown, GrantsAsCompiled
  <2>. QED
    BY <1>1, <2>5, <2>6 DEF SaidKnown
<1>. QED
  BY <1>2, <1>3, <1>4

(* The least of some amounts is one of them, and no larger than any.        *)
LEMMA LeastAmount ==
  ASSUME NEW S \in SUBSET Nat, S # {}
  PROVE  Least(S) \in S /\ \A y \in S : Least(S) <= y
<1>1. PICK x \in S : \A y \in S : ~ (<<y, x>> \in OpToRel(<, Nat))
  BY NatLessThanWellFounded, WFMin, Zenon
<1>2. OpToRel(<, Nat) = {pair \in Nat \X Nat : pair[1] < pair[2]}
  BY Zenon DEF OpToRel
<1>3. ASSUME NEW y \in S
      PROVE  x <= y
  <2>1. x \in Nat /\ y \in Nat
    OBVIOUS
  <2>2. <<y, x>> \notin {pair \in Nat \X Nat : pair[1] < pair[2]}
    BY <1>1, <1>2, Zenon
  <2>3. ~ (y < x)
    BY <2>1, <2>2
  <2>. QED
    BY <2>1, <2>3
<1>. QED
  BY <1>3 DEF Least

(* What is read of a prompt are numbers.                                    *)
LEMMA ReadNumbers ==
  ASSUME NEW p, IsPrompt(p)
  PROVE  AmountsRead(p) \in SUBSET Nat
<1>1. \A code \in DOMAIN PincodeAmount : PincodeAmount[code] \in Nat
  BY DEF PincodeAmount
<1>2. \A n \in p.thousands \cup p.numbers : AsRupees(n) \in Nat
  BY DEF IsPrompt, AsRupees
<1>3. /\ {PincodeAmount[code] : code \in p.pincodes} \subseteq Nat
      /\ {AsRupees(n) : n \in {m \in p.thousands \cup p.numbers : m > 50}} \subseteq Nat
  BY <1>1, <1>2 DEF IsPrompt
<1>. QED
  BY <1>3 DEF IsPrompt, AmountsRead

(* The limit of an order is the least amount, half of it or the default.    *)
LEMMA OrderCapCases ==
  ASSUME NEW p, NEW amounts
  PROVE  /\ amounts = {} => OrderCap(p, amounts) = 250000
         /\ amounts # {} => \/ OrderCap(p, amounts) = Least(amounts)
                           \/ OrderCap(p, amounts) = Least(amounts) \div 2
BY DEF OrderCap

(* No order is given a larger limit than any of some amounts.               *)
LEMMA OrderCapNamed ==
  ASSUME NEW p, NEW amounts \in SUBSET Nat
  PROVE  /\ OrderCap(p, amounts) \in Int
         /\ \A amount \in amounts : amount \in Int /\ OrderCap(p, amounts) <= amount
<1>1. PICK cap, least : cap = OrderCap(p, amounts) /\ least = Least(amounts)
  OBVIOUS
<1>2. CASE amounts = {}
  <2>1. cap = 250000
    BY <1>1, <1>2, OrderCapCases
  <2>. QED
    BY <1>1, <1>2, <2>1
<1>3. CASE amounts # {}
  <2>1. least \in Nat /\ \A amount \in amounts : least <= amount
    BY <1>1, <1>3, LeastAmount
  <2>2. cap = least \/ cap = least \div 2
    BY <1>1, <1>3, OrderCapCases
  <2>3. cap \in Int /\ cap <= least
    BY <2>1, <2>2
  <2>4. \A amount \in amounts : amount \in Int /\ cap <= amount
    BY <2>1, <2>3
  <2>. QED
    BY <1>1, <2>3, <2>4
<1>. QED
  BY <1>2, <1>3

(* What an allowed order passes.                                            *)
LEMMA AllowedPasses ==
  ASSUME NEW s, Decide(s) = "ALLOW"
  PROVE  /\ Listed(s.tx.merchant, s.contract.merchants)
         /\ Listed(s.tx.category, s.contract.categories)
         /\ s.tx.pincode = None \/ Listed(s.tx.pincode, s.contract.pincodes)
         /\ s.tx.total <= s.contract.maxOrder /\ s.tx.total <= s.available
         /\ s.tx.recurring => s.contract.recurring
<1>1. /\ RulesWith(EvaluateAll(s), "DENY") = {}
      /\ RulesWith(EvaluateAll(s), "CHALLENGE") = {}
  BY DEF Decide, Resolve
<1>2. \A r \in DOMAIN EvaluateAll(s) : EvaluateAll(s)[r] \notin {"DENY", "CHALLENGE"}
  BY <1>1 DEF RulesWith
<1>3. /\ UserMerchantAllowlist(s) \notin {"DENY", "CHALLENGE"}
      /\ UserCategoryAllowlist(s) \notin {"DENY", "CHALLENGE"}
      /\ UserPincode(s) \notin {"DENY", "CHALLENGE"}
      /\ UserSingleOrderCap(s) \notin {"DENY", "CHALLENGE"}
      /\ UserAggregateBudget(s) \notin {"DENY", "CHALLENGE"}
      /\ UserRecurringPermission(s) \notin {"DENY", "CHALLENGE"}
  BY <1>2 DEF EvaluateAll
<1>. QED
  BY <1>3 DEF UserMerchantAllowlist, UserCategoryAllowlist, UserPincode, UserSingleOrderCap,
       UserAggregateBudget, UserRecurringPermission, Require, RequireOr

(* AllowedAsSaid, in every reachable state.                                 *)
THEOREM DelegationAllowedAsSaid == DelegationSpec => []AllowedAsSaid
<1>1. SaidKnown => AllowedAsSaid
  <2>. SUFFICES ASSUME SaidKnown, said # None, last # None, last.decision = "ALLOW"
                PROVE  AllowedAsSaid
    BY DEF AllowedAsSaid
  <2>. DEFINE s == last.facts
              tx == s.tx
              c == s.contract
              p == said.prompt
              confirmed == said.confirmed
              parsed == ParseDelegation(p)
  <2>1. /\ p \in Prompts /\ GrantsAsCompiled(c) /\ tx \in Txs /\ Decide(s) = "ALLOW"
        /\ s.available \in Int /\ s.available <= c.aggregate
    BY DEF SaidKnown
  <2>2. /\ c.merchants = Confirmed(confirmed, "merchants_allowlist", parsed)
        /\ c.categories = Confirmed(confirmed, "categories_allowlist", parsed)
        /\ c.pincodes = Confirmed(confirmed, "delivery_pincodes", parsed)
        /\ c.maxOrder = Confirmed(confirmed, "max_order_value_inr", parsed)
        /\ c.aggregate = Confirmed(confirmed, "max_aggregate_value_inr", parsed)
        /\ c.recurring = Confirmed(confirmed, "recurring_allowed", parsed)
    BY <2>1 DEF GrantsAsCompiled, Compile
  <2>3. /\ Listed(tx.merchant, c.merchants)
        /\ Listed(tx.category, c.categories)
        /\ tx.pincode = None \/ Listed(tx.pincode, c.pincodes)
        /\ tx.total <= c.maxOrder /\ tx.total <= s.available
        /\ tx.recurring => c.recurring
    BY <2>1, AllowedPasses
  <2>4. tx.total \in Int /\ IsPrompt(p) /\ confirmed \in Answers
    BY <2>1, FirewallAssumption, DelegationAssumption DEF SaidKnown
  <2>5. /\ parsed.merchants_allowlist = OrDefault(p.words \cap Merchants, Merchants)
        /\ parsed.categories_allowlist = OrDefault(p.words \cap Categories,
                                           {"groceries", "personal_care", "electronics"})
        /\ parsed.delivery_pincodes = OrDefault(p.pincodes, DOMAIN PincodeAmount)
        /\ parsed.max_order_value_inr = OrderCap(p, AmountsRead(p))
        /\ parsed.recurring_allowed = (Says(p, RepeatWords) /\ ~ Says(p, Refusals))
    BY DEF ParseDelegation
  <2>. HIDE DEF s, tx, c, p, confirmed, parsed
  <2>6. Meant("merchants_allowlist", tx.merchant, p.words \cap Merchants, Merchants)
    BY <2>2, <2>3, <2>5
       DEF Meant, Answered, Confirmed, Listed, OrDefault, Merchants, p, confirmed
  <2>7. Meant("categories_allowlist", tx.category, p.words \cap Categories,
              Categories \ {"home_appliances"})
    BY <2>2, <2>3, <2>5
       DEF Meant, Answered, Confirmed, Listed, OrDefault, Categories, p, confirmed
  <2>8. tx.pincode = None \/ Meant("delivery_pincodes", tx.pincode, p.pincodes, DOMAIN PincodeAmount)
    <3>1. DOMAIN PincodeAmount # {}
      BY SMT DEF PincodeAmount
    <3>. QED
      BY <2>2, <2>3, <2>5, <3>1 DEF Meant, Answered, Confirmed, Listed, OrDefault, p, confirmed
  <2>9. IF Answered("max_order_value_inr") THEN tx.total <= confirmed["max_order_value_inr"]
        ELSE /\ \A amount \in p.amounts : tx.total <= amount
             /\ AmountsRead(p) = {} => tx.total <= 250000
    <3>1. CASE Answered("max_order_value_inr")
      BY <2>2, <2>3, <3>1 DEF Confirmed, Answered, confirmed
    <3>2. CASE ~ Answered("max_order_value_inr")
      <4>1. tx.total <= OrderCap(p, AmountsRead(p))
        BY <2>2, <2>3, <2>5, <3>2 DEF Confirmed, Answered, confirmed
      <4>2. p.amounts \subseteq AmountsRead(p)
        BY DEF AmountsRead
      <4>. QED
        BY <2>4, <3>2, <4>1, <4>2, ReadNumbers, OrderCapCases, OrderCapNamed
    <3>. QED
      BY <3>1, <3>2
  <2>10. Answered("max_aggregate_value_inr") => tx.total <= confirmed["max_aggregate_value_inr"]
    <3>. SUFFICES ASSUME Answered("max_aggregate_value_inr")
                  PROVE  tx.total <= confirmed["max_aggregate_value_inr"]
      OBVIOUS
    <3>1. c.aggregate = confirmed["max_aggregate_value_inr"]
      BY <2>2 DEF Confirmed, Answered, confirmed
    <3>2. confirmed["max_aggregate_value_inr"] \in Int
      BY <2>4, DelegationAssumption DEF Answered, confirmed
    <3>. QED
      BY <2>1, <2>3, <2>4, <3>1, <3>2
  <2>11. tx.recurring =>
           IF Answered("recurring_allowed") THEN confirmed["recurring_allowed"] \notin Falsy
           ELSE Says(p, RepeatWords) /\ ~ Says(p, Refusals)
    BY <2>2, <2>3, <2>5 DEF Confirmed, Answered, confirmed
  <2>. QED
    BY <2>6, <2>7, <2>8, <2>9, <2>10, <2>11 DEF AllowedAsSaid, s, tx, p, confirmed
<1>2. SaidKnown /\ [DelegationNext]_delegationVars => SaidKnown'
  <2>. SUFFICES ASSUME SaidKnown, [DelegationNext]_delegationVars
                PROVE  SaidKnown'
    OBVIOUS
  <2>1. ASSUME NEW p \in Prompts, NEW confirmed \in Answers,
               Change(CreateDelegation(p, confirmed))
        PROVE  SaidKnown'
    BY <2>1, CreateSaid
  <2>2. CASE Next /\ UNCHANGED said
    BY <2>2, NextSaid
  <2>3. CASE UNCHANGED delegationVars
    BY <2>3, NextSaid DEF delegationVars
  <2>. QED
    BY <2>1, <2>2, <2>3 DEF DelegationNext
<1>. QED
  BY <1>1, <1>2, InitSaid, PTL DEF DelegationSpec

-------------------------------------------------------------------------------
(* The firewall under compiled delegations                                  *)

(* The greatest of finitely many amounts is one of them: one above which    *)
(* there are the fewest has none above it.                                  *)
LEMMA GreatestAmount ==
  ASSUME NEW S \in SUBSET Nat, IsFiniteSet(S), S # {}
  PROVE  Greatest(S) \in S
<1>. DEFINE above(x) == {y \in S : y > x}
            count(x) == Cardinality(above(x))
            counts == {count(x) : x \in S}
<1>1. \A x \in S : IsFiniteSet(above(x)) /\ count(x) \in Nat
  BY FS_Subset, FS_CardinalityType
<1>2. counts \subseteq Nat /\ counts # {}
  BY <1>1
<1>. HIDE DEF counts
<1>3. PICK n \in counts : \A m \in counts : ~ (<<m, n>> \in OpToRel(<, Nat))
  BY <1>2, NatLessThanWellFounded, WFMin, Zenon
<1>4. PICK x \in S : n = count(x)
  BY <1>3 DEF counts
<1>5. ASSUME NEW y \in S, y > x
      PROVE  FALSE
  <2>1. above(y) \subseteq above(x) /\ y \in above(x) /\ y \notin above(y)
    <3>1. x \in Nat /\ y \in Nat /\ ~ (y > y) /\ \A z \in S : z > y => z > x
      BY <1>4, <1>5
    <3>. QED
      BY <1>5, <3>1
  <2>. HIDE DEF above
  <2>2. count(y) <= count(x) /\ (count(y) = count(x) => above(y) = above(x))
    BY <1>1, <2>1, FS_Subset
  <2>3. count(y) < count(x) /\ count(y) \in counts /\ count(y) \in Nat /\ count(x) \in Nat
    BY <1>1, <2>1, <2>2 DEF counts
  <2>4. OpToRel(<, Nat) = {pair \in Nat \X Nat : pair[1] < pair[2]}
    BY Zenon DEF OpToRel
  <2>. HIDE DEF count
  <2>5. <<count(y), count(x)>> \in OpToRel(<, Nat)
    BY <2>3, <2>4
  <2>. QED
    BY <1>3, <1>4, <2>3, <2>5
<1>6. \A y \in S : y <= x
  BY <1>5
<1>. QED
  BY <1>6 DEF Greatest

(* What is read of a prompt is finite.                                      *)
LEMMA ReadFinite ==
  ASSUME NEW p, IsPrompt(p)
  PROVE  IsFiniteSet(AmountsRead(p))
<1>. DEFINE codes == {PincodeAmount[code] : code \in p.pincodes}
            large == {m \in p.thousands \cup p.numbers : m > 50}
            rupees == {AsRupees(n) : n \in large}
<1>1. IsFiniteSet(codes)
  <2>1. PICK a, b, c, d :
          /\ a = PincodeAmount["560001"] /\ b = PincodeAmount["560002"]
          /\ c = PincodeAmount["560034"] /\ d = PincodeAmount["560095"]
    OBVIOUS
  <2>2. DOMAIN PincodeAmount = {"560001", "560002", "560034", "560095"}
    BY SMT DEF PincodeAmount
  <2>3. codes \subseteq {a, b, c, d}
    BY <2>1, <2>2 DEF IsPrompt
  <2>4. IsFiniteSet({a, b, c, d})
    <3>1. /\ IsFiniteSet({}) /\ IsFiniteSet({} \cup {a})
          /\ IsFiniteSet(({} \cup {a}) \cup {b})
          /\ IsFiniteSet((({} \cup {a}) \cup {b}) \cup {c})
          /\ IsFiniteSet(((({} \cup {a}) \cup {b}) \cup {c}) \cup {d})
      BY FS_EmptySet, FS_AddElement
    <3>2. ((({} \cup {a}) \cup {b}) \cup {c}) \cup {d} = {a, b, c, d}
      OBVIOUS
    <3>. QED
      BY <3>1, <3>2
  <2>. QED
    BY <2>3, <2>4, FS_Subset
<1>2. IsFiniteSet(rupees)
  <2>1. IsFiniteSet(large)
    BY FS_Subset DEF IsPrompt
  <2>. DEFINE f == [n \in large |-> AsRupees(n)]
  <2>2. f \in Surjection(large, rupees)
    BY DEF Surjection
  <2>. QED
    BY <2>1, <2>2, FS_Surjection
<1>3. AmountsRead(p) = p.amounts \cup rupees \cup codes /\ IsFiniteSet(p.amounts)
  BY DEF AmountsRead, IsPrompt
<1>. HIDE DEF codes, rupees
<1>. QED
  BY <1>1, <1>2, <1>3, FS_Union

(* The largest of them, or the default: a number.                           *)
LEMMA AggregateCapNamed ==
  ASSUME NEW p, IsPrompt(p)
  PROVE  AggregateCap(AmountsRead(p)) \in Int
<1>1. AmountsRead(p) # {} => Greatest(AmountsRead(p)) \in Nat
  BY ReadNumbers, ReadFinite, GreatestAmount
<1>. QED
  BY <1>1 DEF AggregateCap

(* What is compiled is a delegation like any other.                         *)
LEMMA CompiledContract ==
  ASSUME NEW p \in Prompts, NEW confirmed \in Answers
  PROVE  IsContract(Compile(p, confirmed))
<1>. DEFINE parsed == ParseDelegation(p)
            c == Compile(p, confirmed)
<1>1. IsPrompt(p)
  BY DelegationAssumption
<1>2. parsed.max_order_value_inr \in Int /\ parsed.max_aggregate_value_inr \in Int
  BY <1>1, ReadNumbers, OrderCapNamed, AggregateCapNamed DEF ParseDelegation
<1>3. /\ c.maxOrder = Confirmed(confirmed, "max_order_value_inr", parsed)
      /\ c.aggregate = Confirmed(confirmed, "max_aggregate_value_inr", parsed)
      /\ c.revoked = FALSE /\ c.expired = FALSE
      /\ HasFields(c)
  BY DEF Compile, HasFields
<1>. HIDE DEF parsed, c
<1>4. c.maxOrder \in Int /\ c.aggregate \in Int
  BY <1>2, <1>3, DelegationAssumption DEF Confirmed
<1>5. IsContract(c)
  BY <1>3, <1>4 DEF IsContract, HasFields
<1>. QED
  BY <1>5 DEF c

(* The firewall's invariant, and the parts of its type invariant, hold      *)
(* under compiled delegations too.                                          *)
DelegationKnown == WorldKnown /\ RowsNumbered /\ CatalogKnown /\ RecordsTyped

(* They do from the start, and creating a delegation keeps them.            *)
LEMMA AlwaysDelegated == DelegationSpec => []DelegationKnown
<1>1. DelegationInit => DelegationKnown
  BY InitKnown, InitNumbered, SeedCatalogKnown
     DEF DelegationInit, DelegationKnown, Init, RecordsTyped
<1>2. DelegationKnown /\ [DelegationNext]_delegationVars => DelegationKnown'
  <2>. SUFFICES ASSUME DelegationKnown, [DelegationNext]_delegationVars
                PROVE  DelegationKnown'
    OBVIOUS
  <2>1. ASSUME NEW p \in Prompts, NEW confirmed \in Answers,
               Change(CreateDelegation(p, confirmed))
        PROVE  DelegationKnown'
    <3>1. /\ last = None /\ contract' = Compile(p, confirmed)
          /\ UNCHANGED <<policies, active, written, catalog, last, replay>>
      BY <2>1 DEF Change, CreateDelegation
    <3>2. IsContract(contract')
      BY <3>1, CompiledContract
    <3>3. WorldKnown'
      BY <3>1, <3>2
         DEF DelegationKnown, WorldKnown, PoliciesWritten, FactsKnown, IsContract
    <3>4. RowsNumbered' /\ CatalogKnown' /\ RecordsTyped'
      BY <3>1 DEF DelegationKnown, RowsNumbered, CatalogKnown, RecordsTyped, IsOutcome
    <3>. QED
      BY <3>3, <3>4 DEF DelegationKnown
  <2>2. CASE [Next]_vars
    BY <2>2, NextKnown, NextNumbered, NextCatalog, NextRecords DEF DelegationKnown
  <2>. QED
    BY <2>1, <2>2 DEF DelegationNext, delegationVars, vars
<1>. QED
  BY <1>1, <1>2, PTL DEF DelegationSpec

(* Type correctness under compiled delegations (TypeOK).                    *)
THEOREM DelegationTypeOK == DelegationSpec => []TypeOK
<1>1. DelegationKnown => TypeOK
  BY PartsTyped DEF DelegationKnown
<1>. QED
  BY <1>1, AlwaysDelegated, PTL

(* Approval conditions and step-up rules never let an order through         *)
(* (ConditionsNeverAllow), those of a compiled delegation included.         *)
THEOREM DelegationConditionsNeverAllow == DelegationSpec => []ConditionsNeverAllow
<1>1. DelegationKnown => ConditionsNeverAllow
  BY KnownConditions DEF DelegationKnown
<1>. QED
  BY <1>1, AlwaysDelegated, PTL

(* An agent gains nothing by sending a proposal (ProposalNeverRelaxes), in  *)
(* a decision under a compiled delegation either.                           *)
THEOREM DelegationProposalNeverRelaxes == DelegationSpec => []ProposalNeverRelaxes
<1>1. DelegationKnown => ProposalNeverRelaxes
  BY KnownNeverRelaxes DEF DelegationKnown
<1>. QED
  BY <1>1, AlwaysDelegated, PTL

(* Delegating less than what was compiled never permits more                *)
(* (TighterNeverRelaxes).                                                   *)
THEOREM DelegationTighterNeverRelaxes == DelegationSpec => []TighterNeverRelaxes
<1>1. DelegationKnown => TighterNeverRelaxes
  BY KnownTighter DEF DelegationKnown
<1>. QED
  BY <1>1, AlwaysDelegated, PTL

(* What is refused because of its proposal differs materially from it       *)
(* (RefusedMutationIsMaterial), also for orders under compiled delegations. *)
THEOREM DelegationRefusedMutationIsMaterial == DelegationSpec => []RefusedMutationIsMaterial
<1>1. DelegationKnown => RefusedMutationIsMaterial
  BY KnownMaterial DEF DelegationKnown
<1>. QED
  BY <1>1, AlwaysDelegated, PTL

===============================================================================
