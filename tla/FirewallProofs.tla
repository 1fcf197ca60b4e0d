---------------------------- MODULE FirewallProofs ----------------------------
(***************************************************************************)
(* Proofs about the firewall, for every set of contracts, transactions,    *)
(* proposals and policies, and any number of changes of the world.         *)
(***************************************************************************)
EXTENDS Firewall, WellFoundedInduction, TLAPS

-------------------------------------------------------------------------------
(* Comparing decisions rule by rule                                         *)

(* What an evaluation reads, field by field.                                *)
Facts(tx, proposal, c, policy, p, available, edge) ==
  [tx |-> tx, proposal |-> proposal, contract |-> c, policy |-> policy,
   product |-> p, available |-> available, edge |-> edge]

(* Outcome x of a rule is no more severe than outcome y, or is another way  *)
(* of failing.                                                              *)
Milder(x, y) == x = y \/ x \in {"PASS", "ABSENT"} \/ y = "DENY"
SameButSoftened(x, y) ==
  x = y \/ (x \in {"CHALLENGE", "DENY"} /\ y \in {"CHALLENGE", "DENY"})

MilderRules(s, t) ==
  \A r \in DOMAIN EvaluateAll(s) : Milder(EvaluateAll(s)[r], EvaluateAll(t)[r])
SoftenedRules(s, t) ==
  \A r \in DOMAIN EvaluateAll(s) :
    SameButSoftened(EvaluateAll(s)[r], EvaluateAll(t)[r])

(* The same rules are looked at in every situation.                         *)
LEMMA SameRules ==
  ASSUME NEW s, NEW t
  PROVE  DOMAIN EvaluateAll(s) = DOMAIN EvaluateAll(t)
BY DEF EvaluateAll

(* If no rule is more severe, neither is the decision.                      *)
LEMMA MilderDecision ==
  ASSUME NEW s, NEW t, MilderRules(s, t)
  PROVE  Rank(Decide(s)) <= Rank(Decide(t))
<1>. DEFINE f == EvaluateAll(s)
            g == EvaluateAll(t)
<1>1. DOMAIN f = DOMAIN g
  BY SameRules
<1>2. \A r \in DOMAIN f : Milder(f[r], g[r])
  BY DEF MilderRules
<1>. HIDE DEF f, g
<1>3. /\ RulesWith(f, "DENY") \subseteq RulesWith(g, "DENY")
      /\ RulesWith(f, "CHALLENGE") \subseteq RulesWith(g, "CHALLENGE") \cup RulesWith(g, "DENY")
  BY <1>1, <1>2 DEF RulesWith, Milder
<1>4. Rank(Resolve(f)) <= Rank(Resolve(g))
  BY <1>3 DEF Resolve, Rank
<1>. QED
  BY <1>4 DEF Decide, f, g

(* If rules only fail in another way, the same orders are allowed.          *)
LEMMA SoftenedDecision ==
  ASSUME NEW s, NEW t, SoftenedRules(s, t)
  PROVE  Decide(s) = "ALLOW" <=> Decide(t) = "ALLOW"
<1>. DEFINE f == EvaluateAll(s)
            g == EvaluateAll(t)
<1>1. DOMAIN f = DOMAIN g
  BY SameRules
<1>2. \A r \in DOMAIN f : SameButSoftened(f[r], g[r])
  BY DEF SoftenedRules
<1>. HIDE DEF f, g
<1>3. RulesWith(f, "DENY") \cup RulesWith(f, "CHALLENGE")
        = RulesWith(g, "DENY") \cup RulesWith(g, "CHALLENGE")
  BY <1>1, <1>2 DEF RulesWith, SameButSoftened
<1>4. Resolve(f) = "ALLOW" <=> Resolve(g) = "ALLOW"
  BY <1>3 DEF Resolve
<1>. QED
  BY <1>4 DEF Decide, f, g

-------------------------------------------------------------------------------
(* Leaving the proposal out                                                 *)

(* The rules that do not look at the proposal.                              *)
SameOutsideProposal(s, t) ==
  /\ ContractExpiry(s) = ContractExpiry(t)
  /\ ContractRevocation(s) = ContractRevocation(t)
  /\ UserMerchantAllowlist(s) = UserMerchantAllowlist(t)
  /\ UserCategoryAllowlist(s) = UserCategoryAllowlist(t)
  /\ UserSingleOrderCap(s) = UserSingleOrderCap(t)
  /\ UserAggregateBudget(s) = UserAggregateBudget(t)
  /\ UserRecurringPermission(s) = UserRecurringPermission(t)
  /\ UserPincode(s) = UserPincode(t)
  /\ CurrencyMatch(s) = CurrencyMatch(t)
  /\ FeeIntegrity(s) = FeeIntegrity(t)
  /\ MerchantPolicyPresent(s) = MerchantPolicyPresent(t)
  /\ MerchantAiEnabled(s) = MerchantAiEnabled(t)
  /\ MerchantOrderCap(s) = MerchantOrderCap(t)
  /\ MerchantCategory(s) = MerchantCategory(t)
  /\ ProductInventory(s) = ProductInventory(t)
  /\ ProductAiEnabled(s) = ProductAiEnabled(t)

(* They say the same whatever the proposal.                                 *)
LEMMA ProposalOnlyChanged ==
  ASSUME NEW tx, NEW proposal, NEW c, NEW policy, NEW p, NEW available, NEW edge
  PROVE  SameOutsideProposal(Facts(tx, None, c, policy, p, available, edge),
                             Facts(tx, proposal, c, policy, p, available, edge))
BY DEF SameOutsideProposal, Facts, ContractExpiry, ContractRevocation,
       UserMerchantAllowlist, UserCategoryAllowlist, UserSingleOrderCap,
       UserAggregateBudget, UserRecurringPermission, UserPincode, CurrencyMatch,
       FeeIntegrity, MerchantPolicyPresent, MerchantAiEnabled, MerchantOrderCap,
       MerchantCategory, ProductInventory, ProductAiEnabled

(* Without the proposal every rule has the outcome it had with it, or it    *)
(* passes or is not evaluated.                                              *)
LEMMA RulesWithoutProposal ==
  ASSUME NEW tx, NEW proposal, NEW c, NEW policy, NEW p, NEW available, NEW edge
  PROVE  MilderRules(Facts(tx, None, c, policy, p, available, edge),
                     Facts(tx, proposal, c, policy, p, available, edge))
<1>. DEFINE s0 == Facts(tx, None, c, policy, p, available, edge)
            s == Facts(tx, proposal, c, policy, p, available, edge)
<1>1. SameOutsideProposal(s0, s)
  BY ProposalOnlyChanged
<1>2. MerchantSubstitutions(s0) \in {"PASS", "ABSENT"}
  BY DEF Facts, MerchantSubstitutions, IfPresent, RequireOr
<1>3. /\ MutationMerchant(s0) = "ABSENT"
      /\ MutationSku(s0) = "ABSENT"
      /\ MutationPriceDrift(s0) = "ABSENT"
      /\ MutationQuantity(s0) = "ABSENT"
      /\ MutationRecurring(s0) = "ABSENT"
  BY DEF Facts, MutationMerchant, MutationSku, MutationPriceDrift,
         MutationQuantity, MutationRecurring, IfPresent
<1>. HIDE DEF s0, s
<1>4. MilderRules(s0, s)
  BY <1>1, <1>2, <1>3 DEF SameOutsideProposal, MilderRules, Milder, EvaluateAll
<1>. QED
  BY <1>4 DEF s0, s

(* If every rule passes without the proposal and one fails with it, the     *)
(* transaction differs materially from the proposal.                        *)
LEMMA FailedByProposal ==
  ASSUME NEW tx, tx.total \in Int, NEW proposal, proposal # None => proposal.total \in Int,
         NEW c, NEW policy, NEW p, NEW available, NEW edge,
         Decide(Facts(tx, None, c, policy, p, available, edge)) = "ALLOW",
         Decide(Facts(tx, proposal, c, policy, p, available, edge)) # "ALLOW"
  PROVE  DetectMutations(tx, proposal)
<1>. DEFINE s0 == Facts(tx, None, c, policy, p, available, edge)
            s == Facts(tx, proposal, c, policy, p, available, edge)
<1>1. proposal # None
  OBVIOUS
<1>2. SUFFICES ASSUME tx.merchant = proposal.merchant, tx.sku = proposal.sku,
                      tx.qty = proposal.qty, tx.recurring = proposal.recurring,
                      ~ MaterialDrift(tx, proposal)
               PROVE  FALSE
  BY <1>1 DEF DetectMutations
<1>3. /\ MutationMerchant(s) = "PASS"
      /\ MutationSku(s) = "PASS"
      /\ MutationQuantity(s) = "PASS"
      /\ MutationRecurring(s) = "PASS"
  BY <1>1, <1>2 DEF Facts, MutationMerchant, MutationSku, MutationQuantity,
                    MutationRecurring, IfPresent, Require, RequireOr
<1>4. MutationPriceDrift(s) = "PASS"
  <2>1. 10 * (tx.total - proposal.total) < Larger(proposal.total, 100)
    BY <1>1, <1>2 DEF MaterialDrift, Larger, Magnitude
  <2>. QED
    BY <1>1, <2>1 DEF Facts, MutationPriceDrift, IfPresent, RequireOr
<1>5. MerchantSubstitutions(s) = MerchantSubstitutions(s0)
  BY <1>1, <1>2 DEF Facts, MerchantSubstitutions, IfPresent, RequireOr
<1>6. SameOutsideProposal(s0, s)
  BY ProposalOnlyChanged
<1>. HIDE DEF s0, s
<1>7. \A r \in DOMAIN EvaluateAll(s) :
        EvaluateAll(s)[r] = EvaluateAll(s0)[r] \/ EvaluateAll(s)[r] = "PASS"
  BY <1>3, <1>4, <1>5, <1>6 DEF SameOutsideProposal, EvaluateAll
<1>8. MilderRules(s, s0)
  BY <1>7 DEF MilderRules, Milder
<1>9. Rank(Decide(s)) <= Rank(Decide(s0))
  BY <1>8, MilderDecision
<1>10. Decide(s) \in {"ALLOW", "CHALLENGE", "DENY"}
  BY DEF Decide, Resolve
<1>. QED
  BY <1>9, <1>10 DEF Rank, s, s0

-------------------------------------------------------------------------------
(* Delegating less                                                          *)

(* Under a tighter contract every rule is at least as severe.               *)
LEMMA RulesUnderTighter ==
  ASSUME NEW tx, tx.total \in Int, NEW proposal, NEW policy, NEW p, NEW available,
         NEW edge, NEW c, IsContract(c), NEW d, IsContract(d), Tighter(c, d)
  PROVE  MilderRules(Facts(tx, proposal, d, policy, p, available, edge),
                     Facts(tx, proposal, c, policy, p, available, edge))
<1>. DEFINE s == Facts(tx, proposal, d, policy, p, available, edge)
            t == Facts(tx, proposal, c, policy, p, available, edge)
<1>1. /\ UserAggregateBudget(s) = UserAggregateBudget(t)
      /\ CurrencyMatch(s) = CurrencyMatch(t)
      /\ FeeIntegrity(s) = FeeIntegrity(t)
      /\ MerchantPolicyPresent(s) = MerchantPolicyPresent(t)
      /\ MerchantAiEnabled(s) = MerchantAiEnabled(t)
      /\ MerchantOrderCap(s) = MerchantOrderCap(t)
      /\ MerchantCategory(s) = MerchantCategory(t)
      /\ MerchantSubstitutions(s) = MerchantSubstitutions(t)
      /\ ProductInventory(s) = ProductInventory(t)
      /\ ProductAiEnabled(s) = ProductAiEnabled(t)
  BY DEF Facts, UserAggregateBudget, CurrencyMatch, FeeIntegrity,
         MerchantPolicyPresent, MerchantAiEnabled, MerchantOrderCap,
         MerchantCategory, MerchantSubstitutions, ProductInventory, ProductAiEnabled
<1>2. /\ MutationMerchant(s) = MutationMerchant(t)
      /\ MutationQuantity(s) = MutationQuantity(t)
      /\ MutationRecurring(s) = MutationRecurring(t)
  BY DEF Facts, MutationMerchant, MutationQuantity, MutationRecurring
<1>3. /\ Milder(ContractExpiry(s), ContractExpiry(t))
      /\ Milder(ContractRevocation(s), ContractRevocation(t))
      /\ Milder(UserRecurringPermission(s), UserRecurringPermission(t))
  BY DEF Facts, Tighter, ContractExpiry, ContractRevocation,
         UserRecurringPermission, Require, Milder
<1>4. Milder(UserSingleOrderCap(s), UserSingleOrderCap(t))
  BY DEF Facts, Tighter, IsContract, UserSingleOrderCap, Require, Milder
<1>5. Milder(UserCategoryAllowlist(s), UserCategoryAllowlist(t))
  BY DEF Facts, Tighter, GrantsNoMore, UserCategoryAllowlist, Listed, Require, Milder
<1>6. Milder(UserMerchantAllowlist(s), UserMerchantAllowlist(t))
  BY DEF Facts, Tighter, GrantsNoMore, UserMerchantAllowlist, Listed, RequireOr, Milder
<1>7. Milder(UserPincode(s), UserPincode(t))
  BY DEF Facts, Tighter, GrantsNoMore, UserPincode, Listed, RequireOr, Milder
<1>8. Milder(MutationSku(s), MutationSku(t))
  BY DEF Facts, Tighter, MutationSku, IfPresent, RequireOr, Milder
<1>9. Milder(MutationPriceDrift(s), MutationPriceDrift(t))
  <2>1. "price_increase_over_10_percent" \in c.conditions =>
          "price_increase_over_10_percent" \in d.conditions
    BY DEF Tighter
  <2>. QED
    BY <2>1 DEF Facts, MutationPriceDrift, IfPresent, RequireOr, Milder
<1>. HIDE DEF s, t
<1>10. MilderRules(s, t)
  BY <1>1, <1>2, <1>3, <1>4, <1>5, <1>6, <1>7, <1>8, <1>9
     DEF MilderRules, Milder, EvaluateAll
<1>. QED
  BY <1>10 DEF s, t

-------------------------------------------------------------------------------
(* Asking for approval                                                      *)

(* Other approval conditions in the contract change only how rules fail.    *)
LEMMA RulesOtherConditions ==
  ASSUME NEW tx, NEW proposal, NEW c, NEW policy, NEW p, NEW available, NEW edge,
         NEW d, d.merchants = c.merchants, d.categories = c.categories,
         d.pincodes = c.pincodes, d.maxOrder = c.maxOrder,
         d.recurring = c.recurring, d.revoked = c.revoked, d.expired = c.expired
  PROVE  LET s == Facts(tx, proposal, c, policy, p, available, edge)
             t == Facts(tx, proposal, d, policy, p, available, edge)
         IN  /\ SoftenedRules(t, s)
             /\ d.conditions \subseteq c.conditions => MilderRules(s, t)
<1>. DEFINE s == Facts(tx, proposal, c, policy, p, available, edge)
            t == Facts(tx, proposal, d, policy, p, available, edge)
<1>1. /\ ContractExpiry(s) = ContractExpiry(t)
      /\ ContractRevocation(s) = ContractRevocation(t)
      /\ UserCategoryAllowlist(s) = UserCategoryAllowlist(t)
      /\ UserSingleOrderCap(s) = UserSingleOrderCap(t)
      /\ UserAggregateBudget(s) = UserAggregateBudget(t)
      /\ UserRecurringPermission(s) = UserRecurringPermission(t)
      /\ CurrencyMatch(s) = CurrencyMatch(t)
      /\ FeeIntegrity(s) = FeeIntegrity(t)
  BY DEF Facts, ContractExpiry, ContractRevocation, UserCategoryAllowlist,
         UserSingleOrderCap, UserAggregateBudget, UserRecurringPermission,
         CurrencyMatch, FeeIntegrity
<1>2. /\ MerchantPolicyPresent(s) = MerchantPolicyPresent(t)
      /\ MerchantAiEnabled(s) = MerchantAiEnabled(t)
      /\ MerchantOrderCap(s) = MerchantOrderCap(t)
      /\ MerchantCategory(s) = MerchantCategory(t)
      /\ MerchantSubstitutions(s) = MerchantSubstitutions(t)
      /\ ProductInventory(s) = ProductInventory(t)
      /\ ProductAiEnabled(s) = ProductAiEnabled(t)
      /\ MutationMerchant(s) = MutationMerchant(t)
      /\ MutationQuantity(s) = MutationQuantity(t)
      /\ MutationRecurring(s) = MutationRecurring(t)
  BY DEF Facts, MerchantPolicyPresent, MerchantAiEnabled, MerchantOrderCap,
         MerchantCategory, MerchantSubstitutions, ProductInventory,
         ProductAiEnabled, MutationMerchant, MutationQuantity, MutationRecurring
<1>3. /\ SameButSoftened(UserMerchantAllowlist(t), UserMerchantAllowlist(s))
      /\ SameButSoftened(UserPincode(t), UserPincode(s))
      /\ SameButSoftened(MutationSku(t), MutationSku(s))
      /\ SameButSoftened(MutationPriceDrift(t), MutationPriceDrift(s))
  BY DEF Facts, UserMerchantAllowlist, UserPincode, MutationSku, MutationPriceDrift,
         IfPresent, RequireOr, SameButSoftened
<1>4. d.conditions \subseteq c.conditions =>
        /\ Milder(UserMerchantAllowlist(s), UserMerchantAllowlist(t))
        /\ Milder(UserPincode(s), UserPincode(t))
        /\ Milder(MutationSku(s), MutationSku(t))
        /\ Milder(MutationPriceDrift(s), MutationPriceDrift(t))
  BY DEF Facts, UserMerchantAllowlist, UserPincode, MutationSku, MutationPriceDrift,
         IfPresent, RequireOr, Milder
<1>. HIDE DEF s, t
<1>5. SoftenedRules(t, s)
  BY <1>1, <1>2, <1>3 DEF SoftenedRules, SameButSoftened, EvaluateAll
<1>6. d.conditions \subseteq c.conditions => MilderRules(s, t)
  BY <1>1, <1>2, <1>4 DEF MilderRules, Milder, EvaluateAll
<1>. QED
  BY <1>5, <1>6 DEF s, t

(* And so do other step-up rules in the policy.                             *)
LEMMA RulesOtherStepUp ==
  ASSUME NEW tx, NEW proposal, NEW c, NEW policy, NEW p, NEW available, NEW edge,
         policy # None, NEW other, other # None, other.aiSales = policy.aiSales,
         other.maxOrder = policy.maxOrder, other.categories = policy.categories,
         other.substitutions = policy.substitutions
  PROVE  LET s == Facts(tx, proposal, c, policy, p, available, edge)
             t == Facts(tx, proposal, c, other, p, available, edge)
         IN  /\ SoftenedRules(t, s)
             /\ other.stepUp \subseteq policy.stepUp => MilderRules(s, t)
<1>. DEFINE s == Facts(tx, proposal, c, policy, p, available, edge)
            t == Facts(tx, proposal, c, other, p, available, edge)
<1>1. /\ ContractExpiry(s) = ContractExpiry(t)
      /\ ContractRevocation(s) = ContractRevocation(t)
      /\ UserMerchantAllowlist(s) = UserMerchantAllowlist(t)
      /\ UserCategoryAllowlist(s) = UserCategoryAllowlist(t)
      /\ UserSingleOrderCap(s) = UserSingleOrderCap(t)
      /\ UserAggregateBudget(s) = UserAggregateBudget(t)
      /\ UserRecurringPermission(s) = UserRecurringPermission(t)
      /\ UserPincode(s) = UserPincode(t)
      /\ CurrencyMatch(s) = CurrencyMatch(t)
      /\ FeeIntegrity(s) = FeeIntegrity(t)
  BY DEF Facts, ContractExpiry, ContractRevocation, UserMerchantAllowlist,
         UserCategoryAllowlist, UserSingleOrderCap, UserAggregateBudget,
         UserRecurringPermission, UserPincode, CurrencyMatch, FeeIntegrity
<1>2. /\ MerchantPolicyPresent(s) = MerchantPolicyPresent(t)
      /\ MerchantAiEnabled(s) = MerchantAiEnabled(t)
      /\ MerchantCategory(s) = MerchantCategory(t)
      /\ ProductInventory(s) = ProductInventory(t)
      /\ ProductAiEnabled(s) = ProductAiEnabled(t)
      /\ MutationMerchant(s) = MutationMerchant(t)
      /\ MutationSku(s) = MutationSku(t)
      /\ MutationPriceDrift(s) = MutationPriceDrift(t)
      /\ MutationQuantity(s) = MutationQuantity(t)
      /\ MutationRecurring(s) = MutationRecurring(t)
  BY DEF Facts, MerchantPolicyPresent, MerchantAiEnabled, MerchantCategory, IfPresent,
         ProductInventory, ProductAiEnabled, MutationMerchant, MutationSku,
         MutationPriceDrift, MutationQuantity, MutationRecurring
<1>3. /\ SameButSoftened(MerchantOrderCap(t), MerchantOrderCap(s))
      /\ SameButSoftened(MerchantSubstitutions(t), MerchantSubstitutions(s))
  BY DEF Facts, MerchantOrderCap, MerchantSubstitutions, IfPresent, RequireOr,
         SameButSoftened
<1>4. other.stepUp \subseteq policy.stepUp =>
        /\ Milder(MerchantOrderCap(s), MerchantOrderCap(t))
        /\ Milder(MerchantSubstitutions(s), MerchantSubstitutions(t))
  BY DEF Facts, MerchantOrderCap, MerchantSubstitutions, IfPresent, RequireOr, Milder
<1>. HIDE DEF s, t
<1>5. SoftenedRules(t, s)
  BY <1>1, <1>2, <1>3 DEF SoftenedRules, SameButSoftened, EvaluateAll
<1>6. other.stepUp \subseteq policy.stepUp => MilderRules(s, t)
  BY <1>1, <1>2, <1>4 DEF MilderRules, Milder, EvaluateAll
<1>. QED
  BY <1>5, <1>6 DEF s, t

-------------------------------------------------------------------------------
(* The policies                                                             *)

(* A seeded version has the contents it was seeded with.                    *)
SeedsKept ==
  /\ DOMAIN policies = Versions
  /\ \A v \in DOMAIN SeedPolicies : policies[v] = SeedPolicies[v]

(* A step of the firewall publishes a version, seeds again or leaves the    *)
(* policies alone.                                                          *)
LEMMA PolicySteps ==
  ASSUME [Next]_vars
  PROVE  Policies!Publish \/ Policies!SeedAgain \/ UNCHANGED <<policies, written>>
BY DEF Next, vars, Evaluate, ReplayDecision, Change, RevokeContract,
       ContractExpires, PublishPolicy, SellUnits, Restart

(* Writing rows keeps the seeded contents, and changes no contents.         *)
LEMMA SeedsStay ==
  ASSUME SeedsKept,
         Policies!Publish \/ Policies!SeedAgain \/ UNCHANGED <<policies, written>>
  PROVE  /\ SeedsKept'
         /\ \A v \in Versions : policies[v] # None => policies'[v] = policies[v]
<1>1. CASE Policies!Publish
  BY <1>1, FirewallAssumption
     DEF SeedsKept, Policies!Publish, Policies!CreatePolicyVersion,
         Policies!PoliciesAssumption
<1>2. CASE Policies!SeedAgain
  BY <1>2, FirewallAssumption
     DEF SeedsKept, Policies!SeedAgain, Policies!Seeded, Policies!PoliciesAssumption
<1>3. CASE UNCHANGED policies
  BY <1>3 DEF SeedsKept
<1>. QED
  BY <1>1, <1>2, <1>3

(* They are there from the start.                                           *)
LEMMA InitSeeds == Init => SeedsKept
BY FirewallAssumption
   DEF Init, SeedsKept, Policies!Init, Policies!Seeded, Policies!PoliciesAssumption

(* A version, once written, is immutable (VersionsImmutable), with any      *)
(* number of publications and restarts.                                     *)
THEOREM FirewallVersionsImmutable == Spec => VersionsImmutable
<1>1. SeedsKept /\ [Next]_vars =>
        /\ SeedsKept'
        /\ [\A v \in Versions : policies[v] # None => policies'[v] = policies[v]]_(Policies!policyVars)
  BY SeedsStay, PolicySteps
<1>. QED
  BY <1>1, InitSeeds, PTL DEF Spec, VersionsImmutable, Policies!VersionsImmutable

-------------------------------------------------------------------------------
(* What the recorded decision is based on                                   *)

(* The rows of a version are contents that were published or seeded.        *)
PoliciesWritten ==
  /\ DOMAIN policies = Versions
  /\ \A v \in Versions : policies[v] \in Contents \cup {None}
  /\ written \in Seq(Versions)

(* Whoever evaluated the decision that is followed had read a transaction,  *)
(* a delegation and, if there is one, a policy.                             *)
FactsKnown ==
  last # None =>
    LET s == last.facts IN
    /\ s = Facts(s.tx, s.proposal, s.contract, s.policy, s.product, s.available, s.edge)
    /\ s.tx \in Txs
    /\ s.proposal \in Proposals \cup {None}
    /\ IsContract(s.contract)
    /\ s.policy \in Contents \cup {None}

(* The inductive invariant.                                                 *)
WorldKnown == PoliciesWritten /\ IsContract(contract) /\ FactsKnown

(* Of some rows of a table one is the last.                                 *)
LEMMA LastRow ==
  ASSUME NEW w \in Seq(Versions), NEW A \in SUBSET (DOMAIN w), A # {}
  PROVE  \E i \in A : \A j \in A : j <= i
<1>. DEFINE T == {Len(w) - i : i \in A}
<1>1. A \subseteq 1 .. Len(w) /\ Len(w) \in Nat
  OBVIOUS
<1>2. T \subseteq Nat /\ T # {}
  BY <1>1
<1>3. PICK x \in T : \A y \in T : ~ (<<y, x>> \in OpToRel(<, Nat))
  BY <1>2, NatLessThanWellFounded, WFMin
<1>4. \A y \in T : x <= y
  <2>1. OpToRel(<, Nat) = {pair \in Nat \X Nat : pair[1] < pair[2]}
    BY Zenon DEF OpToRel
  <2>. SUFFICES ASSUME NEW y \in T PROVE x <= y
    OBVIOUS
  <2>. HIDE DEF T
  <2>2. x \in Nat /\ y \in Nat
    BY <1>2, <1>3
  <2>3. ~ (y < x)
    BY <1>3, <2>1, <2>2
  <2>. QED
    BY <2>2, <2>3
<1>5. PICK i \in A : x = Len(w) - i
  BY <1>3
<1>6. ASSUME NEW j \in A
      PROVE  j <= i
  <2>1. Len(w) - i <= Len(w) - j
    BY <1>4, <1>5
  <2>. QED
    BY <1>1, <2>1
<1>. QED
  BY <1>6

(* The policy in force is one of the versions, or there is none.            *)
LEMMA ActiveIsVersion ==
  ASSUME written \in Seq(Versions)
  PROVE  Policies!ActiveVersion \in Versions \cup {None}
<1>. DEFINE A == Policies!ActiveRows
<1>1. A \in SUBSET (DOMAIN written)
  BY DEF Policies!ActiveRows
<1>2. CASE A = {}
  BY <1>2 DEF Policies!ActiveVersion
<1>3. CASE A # {}
  <2>1. (CHOOSE k \in A : \A j \in A : j <= k) \in A
    BY <1>1, <1>3, LastRow
  <2>2. \A k \in A : written[k] \in Versions
    BY <1>1
  <2>. QED
    BY <1>3, <2>1, <2>2 DEF Policies!ActiveVersion
<1>. QED
  BY <1>2, <1>3

(* What evaluate reads of the policies is the contents of a version.        *)
LEMMA PolicyRead ==
  ASSUME PoliciesWritten, NEW tx \in Txs
  PROVE  PolicyFor(tx, None) \in Contents \cup {None}
<1>1. VersionFor(tx, None) \in Versions \cup {None}
  BY ActiveIsVersion, FirewallAssumption DEF PoliciesWritten, VersionFor
<1>. QED
  BY <1>1 DEF PoliciesWritten, PolicyFor

(* All of this holds of the initial states.                                 *)
LEMMA InitKnown == Init => WorldKnown
<1>. SUFFICES ASSUME Init PROVE WorldKnown
  OBVIOUS
<1>1. PoliciesWritten
  <2>1. DOMAIN policies = Versions
    BY DEF Init, Policies!Init
  <2>2. \A v \in Versions : policies[v] \in Contents \cup {None}
    BY DEF Init, Policies!Init, Policies!Seeded, Contents
  <2>3. SeedOrder \in Seq(Versions)
    BY FirewallAssumption DEF Policies!PoliciesAssumption
  <2>. QED
    BY <2>1, <2>2, <2>3 DEF Init, Policies!Init, PoliciesWritten
<1>2. IsContract(contract)
  BY FirewallAssumption DEF Init
<1>3. FactsKnown
  BY DEF Init, FactsKnown
<1>. QED
  BY <1>1, <1>2, <1>3 DEF WorldKnown

(* Whatever happens, policies stay such rows and delegations keep their form.*)
LEMMA NextWorld ==
  ASSUME PoliciesWritten, IsContract(contract), [Next]_vars
  PROVE  PoliciesWritten' /\ IsContract(contract)'
<1>1. PoliciesWritten'
  <2>1. CASE Policies!Publish
    <3>. PICK v \in Versions, contents \in Drafts, activate \in BOOLEAN :
           Policies!CreatePolicyVersion(v, contents, activate)
      BY <2>1 DEF Policies!Publish
    <3>1. written' \in Seq(Versions)
      BY DEF PoliciesWritten, Policies!CreatePolicyVersion
    <3>. QED
      BY <3>1 DEF PoliciesWritten, Contents, Policies!CreatePolicyVersion
  <2>2. CASE Policies!SeedAgain
    BY <2>2 DEF PoliciesWritten, Contents, Policies!SeedAgain, Policies!Seeded
  <2>3. CASE UNCHANGED <<policies, written>>
    BY <2>3 DEF PoliciesWritten
  <2>. QED
    BY <2>1, <2>2, <2>3, PolicySteps
<1>2. IsContract(contract)'
  <2>1. CASE RevokeContract
    BY <2>1 DEF RevokeContract, IsContract
  <2>2. CASE ContractExpires
    BY <2>2 DEF ContractExpires, IsContract
  <2>3. CASE UNCHANGED contract
    BY <2>3 DEF IsContract
  <2>. QED
    BY <2>1, <2>2, <2>3
       DEF Next, vars, Evaluate, ReplayDecision, Change, PublishPolicy, SellUnits, Restart
<1>. QED
  BY <1>1, <1>2

(* And every step of the firewall and of the world keeps the invariant.     *)
LEMMA NextKnown == WorldKnown /\ [Next]_vars => WorldKnown'
<1>. SUFFICES ASSUME WorldKnown, [Next]_vars PROVE WorldKnown'
  OBVIOUS
<1>1. PoliciesWritten' /\ IsContract(contract)'
  BY NextWorld DEF WorldKnown
<1>2. FactsKnown'
  <2>1. ASSUME NEW tx \in Txs, NEW proposal \in Proposals \cup {None},
               NEW available, NEW edge, NEW reserved,
               Evaluate(tx, proposal, available, edge, reserved)
        PROVE  FactsKnown'
    <3>. DEFINE s == Situation(tx, proposal, None, available, edge)
    <3>1. last'.facts = s
      BY <2>1 DEF Evaluate, Outcome, Recorded
    <3>2. /\ s = Facts(s.tx, s.proposal, s.contract, s.policy, s.product, s.available, s.edge)
          /\ s.tx = tx /\ s.proposal = proposal
          /\ s.contract = contract /\ s.policy = PolicyFor(tx, None)
      BY DEF Situation, Facts
    <3>3. PolicyFor(tx, None) \in Contents \cup {None}
      BY PolicyRead DEF WorldKnown
    <3>4. IsContract(s.contract)
      BY <3>2 DEF WorldKnown
    <3>. HIDE DEF s
    <3>. QED
      BY <3>1, <3>2, <3>3, <3>4 DEF FactsKnown
  <2>2. CASE last' = last
    BY <2>2 DEF FactsKnown, WorldKnown
  <2>3. \/ last' = last
        \/ \E tx \in Txs, proposal \in Proposals \cup {None} : \E available, edge, reserved :
             Evaluate(tx, proposal, available, edge, reserved)
    BY DEF Next, vars, ReplayDecision, Change
  <2>. QED
    BY <2>1, <2>2, <2>3
<1>. QED
  BY <1>1, <1>2 DEF WorldKnown

(* The strengthening that the theorems below rest on.                       *)
LEMMA AlwaysKnown == Spec => []WorldKnown
BY InitKnown, NextKnown, PTL DEF Spec

-------------------------------------------------------------------------------
(* The theorems                                                             *)

(* The facts of the last decision, by name.                                 *)
LEMMA FactsRead ==
  ASSUME WorldKnown, last # None
  PROVE  \E tx, proposal, c, policy, p, available, edge :
           /\ tx \in Txs /\ proposal \in Proposals \cup {None}
           /\ IsContract(c) /\ policy \in Contents \cup {None}
           /\ last.facts = Facts(tx, proposal, c, policy, p, available, edge)
<1>. DEFINE s == last.facts
<1>. WITNESS s.tx, s.proposal, s.contract, s.policy, s.product, s.available, s.edge
<1>. QED
  BY DEF WorldKnown, FactsKnown

(* Without its proposal the rules judge an order no worse.                  *)
LEMMA KnownNeverRelaxes == WorldKnown => ProposalNeverRelaxes
<1>. SUFFICES ASSUME WorldKnown, last # None
              PROVE  Rank(Decide([last.facts EXCEPT !.proposal = None]))
                       <= Rank(Decide(last.facts))
  BY DEF ProposalNeverRelaxes
<1>1. PICK tx, proposal, c, policy, p, available, edge :
        /\ tx \in Txs /\ proposal \in Proposals \cup {None}
        /\ IsContract(c) /\ policy \in Contents \cup {None}
        /\ last.facts = Facts(tx, proposal, c, policy, p, available, edge)
  BY FactsRead
<1>2. [last.facts EXCEPT !.proposal = None]
        = Facts(tx, None, c, policy, p, available, edge)
  BY <1>1 DEF Facts
<1>. QED
  BY <1>1, <1>2, RulesWithoutProposal, MilderDecision

(* An agent gains nothing by sending a proposal (ProposalNeverRelaxes), in  *)
(* every reachable state and whatever the sets of inputs.                   *)
THEOREM FirewallProposalNeverRelaxes == Spec => []ProposalNeverRelaxes
BY KnownNeverRelaxes, AlwaysKnown, PTL

(* A rule that only the proposal fails is about a material difference.      *)
LEMMA KnownMaterial == WorldKnown => RefusedMutationIsMaterial
<1>. SUFFICES ASSUME WorldKnown, last # None, Decide(last.facts) # "ALLOW",
                     Decide([last.facts EXCEPT !.proposal = None]) = "ALLOW"
              PROVE  DetectMutations(last.facts.tx, last.facts.proposal)
  BY DEF RefusedMutationIsMaterial
<1>1. PICK tx, proposal, c, policy, p, available, edge :
        /\ tx \in Txs /\ proposal \in Proposals \cup {None}
        /\ IsContract(c) /\ policy \in Contents \cup {None}
        /\ last.facts = Facts(tx, proposal, c, policy, p, available, edge)
  BY FactsRead
<1>2. /\ [last.facts EXCEPT !.proposal = None]
           = Facts(tx, None, c, policy, p, available, edge)
      /\ last.facts.tx = tx /\ last.facts.proposal = proposal
  BY <1>1 DEF Facts
<1>3. tx.total \in Int /\ (proposal # None => proposal.total \in Int)
  BY <1>1, FirewallAssumption
<1>. QED
  BY <1>1, <1>2, <1>3, FailedByProposal

(* A transaction refused because of its proposal differs materially from it *)
(* (RefusedMutationIsMaterial), whatever the amounts.                       *)
THEOREM FirewallRefusedMutationIsMaterial == Spec => []RefusedMutationIsMaterial
BY KnownMaterial, AlwaysKnown, PTL

(* Every rule judges an order no better under a tighter contract.           *)
LEMMA KnownTighter == WorldKnown => TighterNeverRelaxes
<1>. SUFFICES ASSUME WorldKnown, last # None, NEW c \in ContractsMade,
                     Tighter(c, last.facts.contract)
              PROVE  Rank(Decide(last.facts))
                       <= Rank(Decide([last.facts EXCEPT !.contract = c]))
  BY DEF TighterNeverRelaxes
<1>1. PICK tx, proposal, d, policy, p, available, edge :
        /\ tx \in Txs /\ proposal \in Proposals \cup {None}
        /\ IsContract(d) /\ policy \in Contents \cup {None}
        /\ last.facts = Facts(tx, proposal, d, policy, p, available, edge)
  BY FactsRead
<1>2. [last.facts EXCEPT !.contract = c]
        = Facts(tx, proposal, c, policy, p, available, edge)
  BY <1>1 DEF Facts
<1>3. Tighter(c, d)
  BY <1>1 DEF Facts
<1>4. IsContract(c) /\ tx.total \in Int
  BY <1>1, FirewallAssumption
<1>. QED
  BY <1>1, <1>2, <1>3, <1>4, RulesUnderTighter, MilderDecision

(* Delegating less never permits more (TighterNeverRelaxes), for any        *)
(* delegations a user may create.                                           *)
THEOREM FirewallTighterNeverRelaxes == Spec => []TighterNeverRelaxes
BY KnownTighter, AlwaysKnown, PTL

(* The conditions turn a DENY into a CHALLENGE and nothing else.            *)
LEMMA KnownConditions == WorldKnown => ConditionsNeverAllow
<1>. SUFFICES ASSUME WorldKnown, last # None
              PROVE  ConditionsNeverAllow
  BY DEF ConditionsNeverAllow
<1>1. PICK tx, proposal, c, policy, p, available, edge :
        /\ tx \in Txs /\ proposal \in Proposals \cup {None}
        /\ IsContract(c) /\ policy \in Contents \cup {None}
        /\ last.facts = Facts(tx, proposal, c, policy, p, available, edge)
  BY FactsRead
<1>2. ASSUME NEW conditions \in SUBSET ApprovalConditions
      PROVE  LET d == Decide(WithConditions(last.facts, conditions)) IN
             /\ d = "ALLOW" <=> Decide(last.facts) = "ALLOW"
             /\ conditions \subseteq last.facts.contract.conditions
                  => Rank(Decide(last.facts)) <= Rank(d)
  <2>. DEFINE d == [c EXCEPT !.conditions = conditions]
  <2>1. WithConditions(last.facts, conditions)
          = Facts(tx, proposal, d, policy, p, available, edge)
    BY <1>1 DEF WithConditions, Facts
  <2>2. /\ d.conditions = conditions
        /\ d.merchants = c.merchants /\ d.categories = c.categories
        /\ d.pincodes = c.pincodes /\ d.maxOrder = c.maxOrder
        /\ d.recurring = c.recurring
        /\ d.revoked = c.revoked /\ d.expired = c.expired
    BY <1>1 DEF IsContract
  <2>3. last.facts.contract = c
    BY <1>1 DEF Facts
  <2>. HIDE DEF d
  <2>4. /\ SoftenedRules(WithConditions(last.facts, conditions), last.facts)
        /\ conditions \subseteq c.conditions =>
             MilderRules(last.facts, WithConditions(last.facts, conditions))
    BY <1>1, <2>1, <2>2, RulesOtherConditions
  <2>. QED
    BY <2>3, <2>4, SoftenedDecision, MilderDecision
<1>3. ASSUME last.facts.policy # None, NEW rules \in SUBSET StepUpRules
      PROVE  LET d == Decide(WithStepUp(last.facts, rules)) IN
             /\ d = "ALLOW" <=> Decide(last.facts) = "ALLOW"
             /\ rules \subseteq last.facts.policy.stepUp
                  => Rank(Decide(last.facts)) <= Rank(d)
  <2>. DEFINE other == [policy EXCEPT !.stepUp = rules]
  <2>1. last.facts.policy = policy /\ policy # None
    BY <1>1, <1>3 DEF Facts
  <2>2. IsPolicy(policy) /\ other # None
    BY <1>1, <2>1, FirewallAssumption
  <2>3. WithStepUp(last.facts, rules)
          = Facts(tx, proposal, c, other, p, available, edge)
    BY <1>1, <2>1 DEF WithStepUp, Facts
  <2>4. /\ other.stepUp = rules
        /\ other.aiSales = policy.aiSales /\ other.maxOrder = policy.maxOrder
        /\ other.categories = policy.categories
        /\ other.substitutions = policy.substitutions
    BY <2>2 DEF IsPolicy
  <2>. HIDE DEF other
  <2>5. /\ SoftenedRules(WithStepUp(last.facts, rules), last.facts)
        /\ rules \subseteq policy.stepUp =>
             MilderRules(last.facts, WithStepUp(last.facts, rules))
    BY <1>1, <2>1, <2>2, <2>3, <2>4, RulesOtherStepUp
  <2>. QED
    BY <2>1, <2>5, SoftenedDecision, MilderDecision
<1>. QED
  BY <1>2, <1>3 DEF ConditionsNeverAllow

(* Asking for approval instead of denying never lets money through          *)
(* (ConditionsNeverAllow), for any delegations and policies.                *)
THEOREM FirewallConditionsNeverAllow == Spec => []ConditionsNeverAllow
BY KnownConditions, AlwaysKnown, PTL

===============================================================================
