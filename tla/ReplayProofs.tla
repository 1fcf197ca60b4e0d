----------------------------- MODULE ReplayProofs -----------------------------
(***************************************************************************)
(* Proofs about what a forensic replay relies on: the policy in force is   *)
(* moved by nobody but the merchant, and an evaluation is a function of    *)
(* what it reads.                                                          *)
(***************************************************************************)
EXTENDS FirewallProofs

-------------------------------------------------------------------------------
(* The policy in force                                                      *)

(* The rows are numbered: the seeded ones first, no version twice; only     *)
(* versions with a row are active, and as long as no published one is, those*)
(* are that were seeded so.                                                 *)
RowsNumbered ==
  /\ DOMAIN policies = Versions
  /\ written \in Seq(Versions)
  /\ \A v \in Versions : policies[v] # None <=> \E i \in DOMAIN written : written[i] = v
  /\ \A i, j \in DOMAIN written : written[i] = written[j] => i = j
  /\ Len(SeedOrder) <= Len(written)
  /\ \A i \in DOMAIN SeedOrder : written[i] = SeedOrder[i]
  /\ active \subseteq {written[i] : i \in DOMAIN written}
  /\ active \subseteq DOMAIN SeedPolicies => active = SeedActive

(* The seeded rows are the first ones, and no other row is of a seeded      *)
(* version.                                                                 *)
LEMMA SeededRows ==
  ASSUME RowsNumbered, NEW i \in DOMAIN written
  PROVE  written[i] \in DOMAIN SeedPolicies <=> i <= Len(SeedOrder)
<1>1. /\ SeedOrder \in Seq(DOMAIN SeedPolicies)
      /\ {SeedOrder[j] : j \in DOMAIN SeedOrder} = DOMAIN SeedPolicies
  BY FirewallAssumption DEF Policies!PoliciesAssumption
<1>2. DOMAIN written = 1 .. Len(written) /\ DOMAIN SeedOrder = 1 .. Len(SeedOrder)
      /\ Len(SeedOrder) \in Nat /\ Len(written) \in Nat
  BY <1>1 DEF RowsNumbered
<1>3. ASSUME i <= Len(SeedOrder)
      PROVE  written[i] \in DOMAIN SeedPolicies
  BY <1>1, <1>2, <1>3 DEF RowsNumbered
<1>4. ASSUME written[i] \in DOMAIN SeedPolicies
      PROVE  i <= Len(SeedOrder)
  <2>1. PICK j \in DOMAIN SeedOrder : SeedOrder[j] = written[i]
    BY <1>1, <1>4
  <2>2. j \in DOMAIN written /\ written[j] = written[i]
    BY <1>2, <2>1 DEF RowsNumbered
  <2>3. i = j
    BY <2>2 DEF RowsNumbered
  <2>. QED
    BY <1>2, <2>1, <2>3
<1>. QED
  BY <1>3, <1>4

(* A step publishes, seeds again or leaves the policies alone, activity     *)
(* included.                                                                *)
LEMMA ActivitySteps ==
  ASSUME [Next]_vars
  PROVE  Policies!Publish \/ Policies!SeedAgain \/ UNCHANGED <<policies, active, written>>
BY DEF Next, vars, Evaluate, ReplayDecision, Change, RevokeContract,
       ContractExpires, PublishPolicy, SellUnits, Restart

(* The numbering of the rows is an invariant.                               *)
LEMMA InitNumbered == Init => RowsNumbered
<1>. SUFFICES ASSUME Init PROVE RowsNumbered
  OBVIOUS
<1>1. /\ SeedOrder \in Seq(DOMAIN SeedPolicies)
      /\ {SeedOrder[j] : j \in DOMAIN SeedOrder} = DOMAIN SeedPolicies
      /\ \A i, j \in DOMAIN SeedOrder : SeedOrder[i] = SeedOrder[j] => i = j
      /\ DOMAIN SeedPolicies \subseteq Versions
      /\ SeedActive \subseteq DOMAIN SeedPolicies
      /\ \A v \in DOMAIN SeedPolicies : SeedPolicies[v] # None
  BY FirewallAssumption DEF Policies!PoliciesAssumption
<1>2. /\ written = SeedOrder /\ active = SeedActive
      /\ policies = [v \in Versions |->
                      IF v \in DOMAIN SeedPolicies THEN SeedPolicies[v] ELSE None]
  BY DEF Init, Policies!Init, Policies!Seeded
<1>3. SeedOrder \in Seq(Versions) /\ Len(SeedOrder) \in Nat
  BY <1>1
<1>4. \A v \in Versions : policies[v] # None <=> v \in DOMAIN SeedPolicies
  BY <1>1, <1>2
<1>5. \A v \in Versions : policies[v] # None <=> \E i \in DOMAIN written : written[i] = v
  BY <1>1, <1>2, <1>4
<1>. QED
  BY <1>1, <1>2, <1>3, <1>5 DEF RowsNumbered

(* A version that is published is given the next number,                    *)
LEMMA PublishNumbered ==
  ASSUME RowsNumbered, NEW v \in Versions, NEW contents \in Drafts, NEW activate \in BOOLEAN,
         Policies!CreatePolicyVersion(v, contents, activate)
  PROVE  RowsNumbered'
<1>1. /\ policies[v] = None /\ policies' = [policies EXCEPT ![v] = contents]
      /\ active' = IF activate THEN {v} ELSE active
      /\ written' = Append(written, v)
  BY DEF Policies!CreatePolicyVersion
<1>2. /\ written \in Seq(Versions) /\ Len(written) \in Nat
      /\ DOMAIN written = 1 .. Len(written)
  BY DEF RowsNumbered
<1>3. /\ written' \in Seq(Versions)
      /\ DOMAIN written' = 1 .. Len(written) + 1
      /\ written'[Len(written) + 1] = v
      /\ \A i \in 1 .. Len(written) : written'[i] = written[i]
      /\ Len(written') = Len(written) + 1
  BY <1>1, <1>2
<1>4. \A i \in 1 .. Len(written) : written[i] # v
  BY <1>1, <1>2 DEF RowsNumbered
<1>5. contents # None /\ v \notin DOMAIN SeedPolicies
  <2>1. v \in DOMAIN SeedPolicies => \E j \in DOMAIN SeedOrder : SeedOrder[j] = v
    BY FirewallAssumption DEF Policies!PoliciesAssumption
  <2>2. SeedOrder \in Seq(DOMAIN SeedPolicies)
    BY FirewallAssumption DEF Policies!PoliciesAssumption
  <2>3. \A j \in DOMAIN SeedOrder : j \in 1 .. Len(written) /\ written[j] = SeedOrder[j]
    BY <1>2, <2>2 DEF RowsNumbered
  <2>4. contents # None
    BY FirewallAssumption DEF Policies!PoliciesAssumption
  <2>. QED
    BY <1>4, <2>1, <2>3, <2>4
<1>6. DOMAIN policies' = Versions
  BY <1>1 DEF RowsNumbered
<1>7. \A u \in Versions :
        policies'[u] # None <=> \E i \in DOMAIN written' : written'[i] = u
  BY <1>1, <1>2, <1>3, <1>5 DEF RowsNumbered
<1>8. \A i, j \in DOMAIN written' : written'[i] = written'[j] => i = j
  BY <1>2, <1>3, <1>4 DEF RowsNumbered
<1>9. /\ Len(SeedOrder) <= Len(written')
      /\ \A i \in DOMAIN SeedOrder : written'[i] = SeedOrder[i]
  <2>1. SeedOrder \in Seq(DOMAIN SeedPolicies)
    BY FirewallAssumption DEF Policies!PoliciesAssumption
  <2>. QED
    BY <1>2, <1>3, <2>1 DEF RowsNumbered
<1>10. active' \subseteq {written'[i] : i \in DOMAIN written'}
  BY <1>1, <1>2, <1>3 DEF RowsNumbered
<1>11. active' \subseteq DOMAIN SeedPolicies => active' = SeedActive
  BY <1>1, <1>5 DEF RowsNumbered
<1>. QED
  BY <1>3, <1>6, <1>7, <1>8, <1>9, <1>10, <1>11 DEF RowsNumbered

(* seeding again numbers nothing anew,                                      *)
LEMMA SeedNumbered ==
  ASSUME RowsNumbered, Policies!SeedAgain
  PROVE  RowsNumbered'
<1>1. /\ SeedOrder \in Seq(DOMAIN SeedPolicies)
      /\ {SeedOrder[j] : j \in DOMAIN SeedOrder} = DOMAIN SeedPolicies
      /\ DOMAIN SeedPolicies \subseteq Versions
      /\ SeedActive \subseteq DOMAIN SeedPolicies
      /\ \A v \in DOMAIN SeedPolicies : SeedPolicies[v] # None
  BY FirewallAssumption DEF Policies!PoliciesAssumption
<1>2. /\ policies' = [v \in Versions |->
                       IF v \in DOMAIN SeedPolicies THEN SeedPolicies[v] ELSE policies[v]]
      /\ active' = (active \ DOMAIN SeedPolicies) \cup SeedActive
      /\ written' = written
  BY DEF Policies!SeedAgain, Policies!Seeded
<1>3. \A v \in DOMAIN SeedPolicies : \E i \in DOMAIN written : written[i] = v
  <2>1. \A j \in DOMAIN SeedOrder : j \in DOMAIN written /\ written[j] = SeedOrder[j]
    BY <1>1 DEF RowsNumbered
  <2>. QED
    BY <1>1, <2>1
<1>4. \A v \in Versions :
        policies'[v] # None <=> \E i \in DOMAIN written' : written'[i] = v
  BY <1>1, <1>2, <1>3 DEF RowsNumbered
<1>5. active' \subseteq {written'[i] : i \in DOMAIN written'}
  BY <1>1, <1>2, <1>3 DEF RowsNumbered
<1>6. active' \subseteq DOMAIN SeedPolicies => active' = SeedActive
  BY <1>2
<1>. QED
  BY <1>2, <1>4, <1>5, <1>6 DEF RowsNumbered

(* and no other step writes rows.                                           *)
LEMMA NextNumbered == RowsNumbered /\ [Next]_vars => RowsNumbered'
<1>. SUFFICES ASSUME RowsNumbered, [Next]_vars PROVE RowsNumbered'
  OBVIOUS
<1>1. CASE Policies!Publish
  BY <1>1, PublishNumbered DEF Policies!Publish
<1>2. CASE Policies!SeedAgain
  BY <1>2, SeedNumbered
<1>3. CASE UNCHANGED <<policies, active, written>>
  BY <1>3 DEF RowsNumbered
<1>. QED
  BY <1>1, <1>2, <1>3, ActivitySteps

(* The version in force is that of the last active row.                     *)
LEMMA InForce ==
  ASSUME NEW w \in Seq(Versions), NEW A \in SUBSET (DOMAIN w), NEW i \in A,
         \A j \in A : j <= i
  PROVE  w[CHOOSE k \in A : \A j \in A : j <= k] = w[i]
<1>1. A \subseteq Nat
  OBVIOUS
<1>2. \A k \in A : (\A j \in A : j <= k) => k = i
  BY <1>1
<1>. QED
  BY <1>2

(* Published with is_active, a version is in force; without, nothing moves. *)
LEMMA PublishMoves ==
  ASSUME RowsNumbered, NEW v \in Versions, NEW contents \in Drafts, NEW activate \in BOOLEAN,
         Policies!CreatePolicyVersion(v, contents, activate),
         Policies!ActiveVersion' # Policies!ActiveVersion
  PROVE  Len(written') > Len(written) /\ Policies!ActiveVersion' = written'[Len(written')]
<1>1. /\ written \in Seq(Versions) /\ Len(written) \in Nat
      /\ DOMAIN written = 1 .. Len(written)
      /\ written' = Append(written, v)
      /\ active' = IF activate THEN {v} ELSE active
      /\ policies[v] = None
  BY DEF Policies!CreatePolicyVersion, RowsNumbered
<1>2. /\ written' \in Seq(Versions) /\ Len(written') = Len(written) + 1
      /\ DOMAIN written' = 1 .. Len(written) + 1
      /\ written'[Len(written) + 1] = v
      /\ \A i \in 1 .. Len(written) : written'[i] = written[i]
  BY <1>1
<1>3. \A i \in 1 .. Len(written) : written[i] # v
  BY <1>1 DEF RowsNumbered
<1>4. CASE activate
  <2>1. Policies!ActiveRows' = {Len(written) + 1}
    BY <1>1, <1>2, <1>3, <1>4 DEF Policies!ActiveRows
  <2>2. (CHOOSE k \in {Len(written) + 1} : \A j \in {Len(written) + 1} : j <= k)
          = Len(written) + 1
    BY <1>1
  <2>3. Policies!ActiveVersion' = written'[Len(written) + 1]
    BY <2>1, <2>2 DEF Policies!ActiveVersion
  <2>. QED
    BY <1>1, <1>2, <2>3
<1>5. CASE ~ activate
  <2>1. v \notin active
    BY <1>1, <1>3 DEF RowsNumbered
  <2>2. Policies!ActiveRows' = Policies!ActiveRows
    BY <1>1, <1>2, <1>5, <2>1 DEF Policies!ActiveRows
  <2>. DEFINE A == Policies!ActiveRows
              B == Policies!ActiveRows'
  <2>3. A \in SUBSET (DOMAIN written) /\ B \in SUBSET (DOMAIN written')
    BY DEF Policies!ActiveRows
  <2>4. A # {}
    BY <2>2 DEF Policies!ActiveVersion
  <2>5. PICK i \in A : \A j \in A : j <= i
    BY <1>1, <2>3, <2>4, LastRow
  <2>6. Policies!ActiveVersion = written[i]
    <3>1. written[CHOOSE k \in A : \A j \in A : j <= k] = written[i]
      BY <1>1, <2>3, <2>5, InForce
    <3>. QED
      BY <2>5, <3>1 DEF Policies!ActiveVersion
  <2>7. Policies!ActiveVersion' = written'[i]
    <3>1. i \in B /\ \A j \in B : j <= i
      BY <2>2, <2>5
    <3>2. written'[CHOOSE k \in B : \A j \in B : j <= k] = written'[i]
      BY <1>2, <2>3, <3>1, InForce
    <3>. QED
      BY <3>1, <3>2 DEF Policies!ActiveVersion
  <2>. QED
    BY <1>1, <1>2, <2>3, <2>6, <2>7
<1>. QED
  BY <1>4, <1>5

(* Seeding again moves nothing: while no published version is active, the   *)
(* seeded ones are active as they were seeded; once one is, its row comes   *)
(* after all those.                                                         *)
LEMMA SeedKeepsForce ==
  ASSUME RowsNumbered, Policies!SeedAgain
  PROVE  Policies!ActiveVersion' = Policies!ActiveVersion
<1>. DEFINE A == Policies!ActiveRows
            B == Policies!ActiveRows'
<1>1. /\ written' = written
      /\ active' = (active \ DOMAIN SeedPolicies) \cup SeedActive
      /\ SeedActive \subseteq DOMAIN SeedPolicies
  BY FirewallAssumption DEF Policies!SeedAgain, Policies!Seeded, Policies!PoliciesAssumption
<1>2. CASE active \subseteq DOMAIN SeedPolicies
  <2>1. UNCHANGED <<active, written>>
    BY <1>1, <1>2 DEF RowsNumbered
  <2>. QED
    BY <2>1 DEF Policies!ActiveVersion, Policies!ActiveRows
<1>3. CASE ~ (active \subseteq DOMAIN SeedPolicies)
  <2>1. /\ written \in Seq(Versions) /\ Len(SeedOrder) \in Nat
        /\ A \in SUBSET (DOMAIN written) /\ B \in SUBSET (DOMAIN written)
    <3>1. Len(SeedOrder) \in Nat
      BY FirewallAssumption DEF Policies!PoliciesAssumption
    <3>. QED
      BY <1>1, <3>1 DEF Policies!ActiveRows, RowsNumbered
  <2>2. PICK p \in A : written[p] \notin DOMAIN SeedPolicies
    BY <1>3 DEF Policies!ActiveRows, RowsNumbered
  <2>3. PICK i \in A : \A j \in A : j <= i
    BY <2>1, <2>2, LastRow
  <2>4. /\ DOMAIN written \subseteq Nat
        /\ p \in DOMAIN written /\ i \in DOMAIN written
    BY <2>1
  <2>5. Len(SeedOrder) < i
    <3>1. ~ (p <= Len(SeedOrder))
      BY <2>2, <2>4, SeededRows
    <3>. QED
      BY <2>1, <2>3, <2>4, <3>1
  <2>6. i \in B
    <3>1. written[i] \notin DOMAIN SeedPolicies
      BY <2>1, <2>4, <2>5, SeededRows
    <3>. QED
      BY <1>1, <2>3, <3>1 DEF Policies!ActiveRows
  <2>7. ASSUME NEW j \in B
        PROVE  j <= i
    <3>1. j \in DOMAIN written /\ written[j] \in (active \ DOMAIN SeedPolicies) \cup SeedActive
      BY <1>1 DEF Policies!ActiveRows
    <3>2. CASE written[j] \in active
      BY <2>3, <3>1, <3>2 DEF Policies!ActiveRows
    <3>3. CASE written[j] \in DOMAIN SeedPolicies
      <4>1. j <= Len(SeedOrder)
        BY <3>1, <3>3, SeededRows
      <4>. QED
        BY <2>1, <2>4, <2>5, <3>1, <4>1
    <3>. QED
      BY <1>1, <3>1, <3>2, <3>3
  <2>8. Policies!ActiveVersion = written[i]
    <3>1. written[CHOOSE k \in A : \A j \in A : j <= k] = written[i]
      BY <2>1, <2>3, InForce
    <3>. QED
      BY <2>3, <3>1 DEF Policies!ActiveVersion
  <2>9. Policies!ActiveVersion' = written[i]
    <3>1. written[CHOOSE k \in B : \A j \in B : j <= k] = written[i]
      BY <2>1, <2>6, <2>7, InForce
    <3>. QED
      BY <1>1, <2>6, <3>1 DEF Policies!ActiveVersion
  <2>. QED
    BY <2>8, <2>9
<1>. QED
  BY <1>2, <1>3

(* So nothing else moves the policy in force.                               *)
LEMMA ForceMoves ==
  ASSUME RowsNumbered,
         Policies!Publish \/ Policies!SeedAgain \/ UNCHANGED <<policies, active, written>>,
         Policies!ActiveVersion' # Policies!ActiveVersion
  PROVE  /\ Len(written') > Len(written)
         /\ Policies!ActiveVersion' = written'[Len(written')]
<1>1. CASE Policies!Publish
  BY <1>1, PublishMoves DEF Policies!Publish
<1>2. CASE Policies!SeedAgain
  BY <1>2, SeedKeepsForce
<1>3. CASE UNCHANGED <<policies, active, written>>
  BY <1>3 DEF Policies!ActiveVersion, Policies!ActiveRows
<1>. QED
  BY <1>1, <1>2, <1>3

(* The policy in force changes only by publishing                           *)
(* (ForceChangesByPublishing), with any number of publications, active or   *)
(* not, and restarts.                                                       *)
THEOREM FirewallForceChangesByPublishing == Spec => ForceChangesByPublishing
<1>1. RowsNumbered /\ [Next]_vars =>
        [Policies!ActiveVersion' # Policies!ActiveVersion =>
           Len(written') > Len(written)
           /\ Policies!ActiveVersion' = written'[Len(written')]]_(Policies!policyVars)
  BY ForceMoves, ActivitySteps
<1>. QED
  BY <1>1, InitNumbered, NextNumbered, PTL
     DEF Spec, ForceChangesByPublishing, Policies!ForceChangesByPublishing

-------------------------------------------------------------------------------
(* Replays                                                                  *)

(* The decision that is followed is the outcome of its facts, or a refusal  *)
(* of its budget, and no more than the whole budget was left.               *)
RecordKnown ==
  last # None =>
    LET s == last.facts IN
    /\ \E version : \E reserved \in BOOLEAN : last = Recorded(Outcome(s, version), reserved)
    /\ s.available \in Int /\ s.available <= s.contract.aggregate

(* A replay is the outcome of its facts, with the whole budget left.        *)
ReplayKnown ==
  replay # None =>
    LET s == replay.facts IN
    /\ last # None
    /\ \E version : replay = Outcome(s, version)
    /\ s = Facts(s.tx, s.proposal, s.contract, s.policy, s.product, s.available, s.edge)
    /\ s.available = s.contract.aggregate

(* Decisions and replays stay such outcomes.                                *)
LEMMA NextReplayed ==
  RecordKnown /\ ReplayKnown /\ [Next]_vars => RecordKnown' /\ ReplayKnown'
<1>. SUFFICES ASSUME RecordKnown, ReplayKnown, [Next]_vars
              PROVE  RecordKnown' /\ ReplayKnown'
  OBVIOUS
<1>1. ASSUME NEW tx \in Txs, NEW proposal \in Proposals \cup {None},
             NEW available \in Budgets, NEW edge \in Edges, NEW reserved \in BOOLEAN,
             available <= contract.aggregate,
             Evaluate(tx, proposal, available, edge, reserved)
      PROVE  RecordKnown' /\ ReplayKnown'
  <2>. DEFINE s == Situation(tx, proposal, None, available, edge)
              version == VersionFor(tx, None)
  <2>1. /\ last = None /\ UNCHANGED <<replay, contract>>
        /\ last' = Recorded(Outcome(s, version), reserved)
    BY <1>1 DEF Evaluate
  <2>2. Recorded(Outcome(s, version), reserved).facts = s
    BY DEF Recorded, Outcome
  <2>3. s.available = available /\ s.contract = contract
    BY DEF Situation
  <2>4. available \in Int
    BY FirewallAssumption
  <2>. HIDE DEF s, version
  <2>5. RecordKnown'
    BY <1>1, <2>1, <2>2, <2>3, <2>4 DEF RecordKnown
  <2>. QED
    BY <2>1, <2>5 DEF ReplayKnown
<1>2. ASSUME NEW target \in Targets, ReplayDecision(target)
      PROVE  RecordKnown' /\ ReplayKnown'
  <2>. DEFINE s == Situation(last.facts.tx, last.facts.proposal, target,
                             contract.aggregate, last.facts.edge)
              version == VersionFor(last.facts.tx, target)
  <2>1. /\ last # None /\ UNCHANGED last
        /\ replay' = Outcome(s, version)
    BY <1>2 DEF ReplayDecision
  <2>2. Outcome(s, version).facts = s
    BY DEF Outcome
  <2>3. /\ s = Facts(s.tx, s.proposal, s.contract, s.policy, s.product, s.available, s.edge)
        /\ s.available = contract.aggregate /\ s.contract = contract
    BY DEF Situation, Facts
  <2>. HIDE DEF s, version
  <2>4. ReplayKnown'
    BY <2>1, <2>2, <2>3 DEF ReplayKnown
  <2>. QED
    BY <2>1, <2>4 DEF RecordKnown
<1>3. CASE UNCHANGED <<last, replay>>
  BY <1>3 DEF RecordKnown, ReplayKnown
<1>. QED
  BY <1>1, <1>2, <1>3 DEF Next, vars, Change

(* Two evaluations that find the same but for the budget have the same      *)
(* outcome for every other rule.                                            *)
LEMMA OnlyBudgetDiffers ==
  ASSUME NEW tx, NEW proposal, NEW c, NEW policy, NEW p, NEW edge, NEW x, NEW y,
         UserAggregateBudget(Facts(tx, proposal, c, policy, p, x, edge))
           = UserAggregateBudget(Facts(tx, proposal, c, policy, p, y, edge))
  PROVE  EvaluateAll(Facts(tx, proposal, c, policy, p, x, edge))
           = EvaluateAll(Facts(tx, proposal, c, policy, p, y, edge))
<1>. DEFINE s == Facts(tx, proposal, c, policy, p, x, edge)
            t == Facts(tx, proposal, c, policy, p, y, edge)
<1>1. /\ s.tx = t.tx /\ s.proposal = t.proposal /\ s.contract = t.contract
      /\ s.policy = t.policy /\ s.product = t.product /\ s.edge = t.edge
  BY DEF Facts
<1>. HIDE DEF s, t
<1>2. /\ ContractExpiry(s) = ContractExpiry(t)
      /\ ContractRevocation(s) = ContractRevocation(t)
      /\ UserMerchantAllowlist(s) = UserMerchantAllowlist(t)
      /\ UserCategoryAllowlist(s) = UserCategoryAllowlist(t)
      /\ UserSingleOrderCap(s) = UserSingleOrderCap(t)
      /\ UserRecurringPermission(s) = UserRecurringPermission(t)
      /\ UserPincode(s) = UserPincode(t)
      /\ CurrencyMatch(s) = CurrencyMatch(t)
      /\ FeeIntegrity(s) = FeeIntegrity(t)
  BY <1>1 DEF ContractExpiry, ContractRevocation, UserMerchantAllowlist,
       UserCategoryAllowlist, UserSingleOrderCap, UserRecurringPermission, UserPincode,
       CurrencyMatch, FeeIntegrity
<1>3. /\ MerchantPolicyPresent(s) = MerchantPolicyPresent(t)
      /\ MerchantAiEnabled(s) = MerchantAiEnabled(t)
      /\ MerchantOrderCap(s) = MerchantOrderCap(t)
      /\ MerchantCategory(s) = MerchantCategory(t)
      /\ MerchantSubstitutions(s) = MerchantSubstitutions(t)
      /\ ProductInventory(s) = ProductInventory(t)
      /\ ProductAiEnabled(s) = ProductAiEnabled(t)
  BY <1>1 DEF MerchantPolicyPresent, MerchantAiEnabled, MerchantOrderCap, MerchantCategory,
       MerchantSubstitutions, ProductInventory, ProductAiEnabled
<1>4. /\ MutationMerchant(s) = MutationMerchant(t)
      /\ MutationSku(s) = MutationSku(t)
      /\ MutationPriceDrift(s) = MutationPriceDrift(t)
      /\ MutationQuantity(s) = MutationQuantity(t)
      /\ MutationRecurring(s) = MutationRecurring(t)
  BY <1>1 DEF MutationMerchant, MutationSku, MutationPriceDrift, MutationQuantity,
       MutationRecurring
<1>5. UserAggregateBudget(s) = UserAggregateBudget(t)
  BY DEF s, t
<1>6. EvaluateAll(s) = EvaluateAll(t)
  BY <1>2, <1>3, <1>4, <1>5, Zenon DEF EvaluateAll
<1>. QED
  BY <1>6 DEF s, t

(* What a decision is based on has the form of what the rules look at.      *)
RecordedFacts ==
  last # None =>
    LET s == last.facts IN
    /\ s = Facts(s.tx, s.proposal, s.contract, s.policy, s.product, s.available, s.edge)
    /\ s.tx.total \in Int /\ IsContract(s.contract)

(* An outcome depends on nothing but the facts: the same facts, the same    *)
(* outcome, if the budget was not what denied.                              *)
LEMMA SameFactsSameOutcome ==
  RecordedFacts /\ RecordKnown /\ ReplayKnown => ReplayReproduces
<1>. SUFFICES ASSUME RecordedFacts, RecordKnown, ReplayKnown, replay # None,
                     Unbudgeted(replay.facts) = Unbudgeted(last.facts),
                     "RULE_USER_AGGREGATE_BUDGET" \notin last.failed
              PROVE  replay.decision = last.decision /\ replay.matched = last.matched
  BY DEF ReplayReproduces
<1>. DEFINE s == last.facts
            r == replay.facts
<1>1. /\ s = Facts(s.tx, s.proposal, s.contract, s.policy, s.product, s.available, s.edge)
      /\ s.tx.total \in Int /\ IsContract(s.contract)
      /\ s.available \in Int /\ s.available <= s.contract.aggregate
      /\ r = Facts(r.tx, r.proposal, r.contract, r.policy, r.product, r.available, r.edge)
      /\ r.available = r.contract.aggregate
  BY DEF RecordedFacts, RecordKnown, ReplayKnown
<1>2. PICK version : \E reserved \in BOOLEAN : last = Recorded(Outcome(s, version), reserved)
  BY DEF RecordKnown, ReplayKnown
<1>3. PICK other : replay = Outcome(r, other)
  BY DEF ReplayKnown
<1>4. Unbudgeted(r) = Unbudgeted(s)
  OBVIOUS
<1>. HIDE DEF s, r
<1>5. /\ r.tx = s.tx /\ r.proposal = s.proposal /\ r.contract = s.contract
      /\ r.policy = s.policy /\ r.product = s.product /\ r.edge = s.edge
  BY <1>1, <1>4 DEF Unbudgeted, Facts
<1>6. "RULE_USER_AGGREGATE_BUDGET" \in DOMAIN EvaluateAll(s)
  BY DEF EvaluateAll
<1>7. UserAggregateBudget(s) = "PASS"
  <2>1. EvaluateAll(s)["RULE_USER_AGGREGATE_BUDGET"] = UserAggregateBudget(s)
    BY DEF EvaluateAll
  <2>2. CASE UserAggregateBudget(s) = "DENY"
    <3>1. "RULE_USER_AGGREGATE_BUDGET" \in RulesWith(EvaluateAll(s), "DENY")
      BY <1>6, <2>1, <2>2 DEF RulesWith
    <3>2. "RULE_USER_AGGREGATE_BUDGET" \in Outcome(s, version).failed
      BY <3>1 DEF Outcome
    <3>3. "RULE_USER_AGGREGATE_BUDGET" \in last.failed
      BY <1>2, <3>2 DEF Recorded, Outcome
    <3>. QED
      BY <3>3
  <2>. QED
    BY <2>2 DEF UserAggregateBudget, Require
<1>8. UserAggregateBudget(r) = "PASS"
  <2>1. s.tx.total \in Int /\ s.contract.aggregate \in Int
    BY <1>1 DEF IsContract
  <2>2. s.tx.total <= s.available
    BY <1>7 DEF UserAggregateBudget, Require
  <2>. QED
    BY <1>1, <1>5, <2>1, <2>2 DEF UserAggregateBudget, Require
<1>9. EvaluateAll(r) = EvaluateAll(s)
  BY <1>1, <1>5, <1>7, <1>8, OnlyBudgetDiffers
<1>10. last = Outcome(s, version)
  <2>1. \A reserved \in BOOLEAN :
          Recorded(Outcome(s, version), reserved) # Outcome(s, version)
          => Recorded(Outcome(s, version), reserved).failed = {"RULE_USER_AGGREGATE_BUDGET"}
    BY DEF Recorded, Outcome
  <2>. QED
    BY <1>2, <2>1
<1>. QED
  BY <1>3, <1>9, <1>10 DEF Outcome, Decide

(* Replay determinism (ReplayReproduces): whatever happened to the world in *)
(* between, a replay that finds the facts of the decision reproduces it,    *)
(* unless the budget was what denied it.                                    *)
THEOREM FirewallReplayReproduces == Spec => []ReplayReproduces
<1>1. WorldKnown => RecordedFacts
  BY FirewallAssumption DEF WorldKnown, FactsKnown, RecordedFacts
<1>2. Init => RecordKnown /\ ReplayKnown
  BY DEF Init, RecordKnown, ReplayKnown
<1>. QED
  BY <1>1, <1>2, InitKnown, NextKnown, NextReplayed, SameFactsSameOutcome, PTL DEF Spec

-------------------------------------------------------------------------------
(* Types                                                                    *)

(* Of a product only the inventory changes, and never below zero.           *)
CatalogKnown ==
  /\ DOMAIN catalog = DOMAIN SeedCatalog
  /\ \A sku \in DOMAIN SeedCatalog :
       /\ catalog[sku] = [SeedCatalog[sku] EXCEPT !.inventory = catalog[sku].inventory]
       /\ catalog[sku].inventory \in Nat

(* The seeded catalog is one, and selling and seeding keep it one.          *)
LEMMA SeedCatalogKnown ==
  ASSUME catalog = SeedCatalog
  PROVE  CatalogKnown
BY FirewallAssumption DEF CatalogKnown, IsProduct

(* A payment, of whatever quantity, leaves it one.                          *)
LEMMA DeductKnown ==
  ASSUME CatalogKnown, NEW sku \in DOMAIN catalog, NEW qty \in Int, DeductUnits(sku, qty)
  PROVE  CatalogKnown'
<1>1. /\ catalog[sku] = [SeedCatalog[sku] EXCEPT !.inventory = catalog[sku].inventory]
      /\ catalog[sku].inventory \in Nat
      /\ sku \in DOMAIN SeedCatalog /\ IsProduct(SeedCatalog[sku])
  BY FirewallAssumption DEF CatalogKnown
<1>2. PICK n : n = Larger(0, catalog[sku].inventory - qty)
  OBVIOUS
<1>3. n \in Nat
  BY <1>1, <1>2 DEF Larger
<1>4. catalog' = [catalog EXCEPT ![sku].inventory = n]
  BY <1>2 DEF DeductUnits
<1>5. /\ DOMAIN catalog' = DOMAIN catalog
      /\ \A other \in DOMAIN catalog : other # sku => catalog'[other] = catalog[other]
      /\ catalog'[sku] = [catalog[sku] EXCEPT !.inventory = n]
  BY <1>4
<1>6. catalog'[sku] = [SeedCatalog[sku] EXCEPT !.inventory = n] /\ catalog'[sku].inventory = n
  BY <1>1, <1>5 DEF IsProduct
<1>. QED
  BY <1>3, <1>5, <1>6 DEF CatalogKnown

(* Others pay or the rows are seeded again; no step does more to it.        *)
LEMMA CatalogSteps ==
  ASSUME CatalogKnown, SellUnits \/ SeedCatalogAgain \/ UNCHANGED catalog
  PROVE  CatalogKnown'
<1>1. CASE SellUnits
  BY <1>1, DeductKnown, FirewallAssumption DEF SellUnits
<1>2. CASE SeedCatalogAgain
  BY <1>2, FirewallAssumption DEF SeedCatalogAgain, CatalogKnown, IsProduct
<1>3. CASE UNCHANGED catalog
  BY <1>3 DEF CatalogKnown
<1>. QED
  BY <1>1, <1>2, <1>3

(* Every rule has one of the four outcomes.                                 *)
LEMMA RuleImpacts ==
  ASSUME NEW s
  PROVE  \A r \in DOMAIN EvaluateAll(s) : EvaluateAll(s)[r] \in Impacts
<1>1. /\ ContractExpiry(s) \in Impacts /\ ContractRevocation(s) \in Impacts
      /\ UserMerchantAllowlist(s) \in Impacts /\ UserCategoryAllowlist(s) \in Impacts
      /\ UserSingleOrderCap(s) \in Impacts /\ UserAggregateBudget(s) \in Impacts
      /\ UserRecurringPermission(s) \in Impacts /\ UserPincode(s) \in Impacts
      /\ CurrencyMatch(s) \in Impacts /\ FeeIntegrity(s) \in Impacts
  BY DEF Impacts, Require, RequireOr, ContractExpiry, ContractRevocation,
    UserMerchantAllowlist, UserCategoryAllowlist, UserSingleOrderCap,
    UserAggregateBudget, UserRecurringPermission, UserPincode, CurrencyMatch, FeeIntegrity
<1>2. /\ MerchantPolicyPresent(s) \in Impacts /\ MerchantAiEnabled(s) \in Impacts
      /\ MerchantOrderCap(s) \in Impacts /\ MerchantCategory(s) \in Impacts
      /\ MerchantSubstitutions(s) \in Impacts
      /\ ProductInventory(s) \in Impacts /\ ProductAiEnabled(s) \in Impacts
  BY DEF Impacts, Require, RequireOr, IfPresent, MerchantPolicyPresent, MerchantAiEnabled,
    MerchantOrderCap, MerchantCategory, MerchantSubstitutions, ProductInventory,
    ProductAiEnabled
<1>3. /\ MutationMerchant(s) \in Impacts /\ MutationSku(s) \in Impacts
      /\ MutationPriceDrift(s) \in Impacts /\ MutationQuantity(s) \in Impacts
      /\ MutationRecurring(s) \in Impacts
  BY DEF Impacts, Require, RequireOr, IfPresent, MutationMerchant, MutationSku,
    MutationPriceDrift, MutationQuantity, MutationRecurring
<1>. QED
  BY <1>1, <1>2, <1>3 DEF EvaluateAll

(* An outcome of the rules, whatever it is based on, and whether its budget *)
(* could be reserved.                                                       *)
LEMMA OutcomeShape ==
  ASSUME NEW s, NEW version, NEW reserved
  PROVE  /\ IsOutcome(Outcome(s, version)) /\ Outcome(s, version).facts = s
         /\ IsOutcome(Recorded(Outcome(s, version), reserved))
         /\ Recorded(Outcome(s, version), reserved).facts = s
<1>. DEFINE o == Outcome(s, version)
            rec == Recorded(o, reserved)
            denied == [o EXCEPT !.decision = "DENY", !.failed = {"RULE_USER_AGGREGATE_BUDGET"}]
<1>1. /\ o.facts = s /\ o.decision = Resolve(EvaluateAll(s))
      /\ o.matched = RulesWith(EvaluateAll(s), "PASS")
      /\ o.failed = RulesWith(EvaluateAll(s), "DENY")
  BY DEF Outcome, Decide
<1>2. IsOutcome(o)
  BY <1>1, RuleImpacts DEF IsOutcome, Resolve, RulesWith
<1>3. /\ denied.facts = s /\ denied.decision = "DENY" /\ denied.matched = o.matched
      /\ denied.failed = {"RULE_USER_AGGREGATE_BUDGET"}
  BY DEF Outcome
<1>4. "RULE_USER_AGGREGATE_BUDGET" \in DOMAIN EvaluateAll(s)
  BY DEF EvaluateAll
<1>5. IsOutcome(denied)
  BY <1>1, <1>2, <1>3, <1>4 DEF IsOutcome
<1>6. rec = o \/ rec = denied
  BY DEF Recorded
<1>. QED
  BY <1>1, <1>2, <1>3, <1>5, <1>6

(* What is recorded and replayed are outcomes, of one transaction and       *)
(* proposal.                                                                *)
RecordsTyped ==
  /\ last # None => IsOutcome(last)
  /\ replay # None =>
       /\ last # None /\ IsOutcome(replay)
       /\ replay.facts.tx = last.facts.tx
       /\ replay.facts.proposal = last.facts.proposal

(* A replay is an outcome.                                                  *)
LEMMA ReplayTyped ==
  ASSUME RecordsTyped, NEW target, ReplayDecision(target)
  PROVE  RecordsTyped'
<1>. DEFINE s == Situation(last.facts.tx, last.facts.proposal, target,
                           contract.aggregate, last.facts.edge)
            version == VersionFor(last.facts.tx, target)
<1>1. last # None /\ last' = last /\ replay' = Outcome(s, version)
  BY DEF ReplayDecision
<1>2. IsOutcome(replay') /\ replay'.facts = s
  BY <1>1, OutcomeShape
<1>3. s.tx = last.facts.tx /\ s.proposal = last.facts.proposal
  BY DEF Situation
<1>. HIDE DEF s, version
<1>. QED
  BY <1>1, <1>2, <1>3 DEF RecordsTyped, IsOutcome

(* Whatever happens, the catalog stays the seeded one but for its stock,    *)
LEMMA NextCatalog == CatalogKnown /\ [Next]_vars => CatalogKnown'
<1>1. [Next]_vars => SellUnits \/ SeedCatalogAgain \/ UNCHANGED catalog
  BY DEF Next, vars, Evaluate, ReplayDecision, Change, RevokeContract, ContractExpires,
    PublishPolicy, Restart
<1>. QED
  BY <1>1, CatalogSteps

(* records stay records,                                                    *)
LEMMA NextRecords == RecordsTyped /\ [Next]_vars => RecordsTyped'
<1>. SUFFICES ASSUME RecordsTyped, [Next]_vars PROVE RecordsTyped'
  OBVIOUS
<1>1. ASSUME NEW tx, NEW proposal, NEW available, NEW edge, NEW reserved,
             Evaluate(tx, proposal, available, edge, reserved)
      PROVE  RecordsTyped'
  <2>1. last = None /\ replay' = replay /\ IsOutcome(last')
    BY <1>1, OutcomeShape DEF Evaluate
  <2>. QED
    BY <2>1 DEF RecordsTyped, IsOutcome
<1>2. CASE UNCHANGED <<last, replay>>
  BY <1>2 DEF RecordsTyped, IsOutcome
<1>. QED
  BY <1>1, <1>2, ReplayTyped DEF Next, vars, Change

(* and that is all the type invariant asks for.                             *)
LEMMA PartsTyped == RowsNumbered /\ CatalogKnown /\ RecordsTyped => TypeOK
BY DEF RowsNumbered, CatalogKnown, RecordsTyped, TypeOK, Policies!TypeOK

(* Type correctness of the firewall, for any policies, products and orders. *)
THEOREM FirewallTypeOK == Spec => []TypeOK
<1>1. Init => CatalogKnown /\ RecordsTyped
  BY SeedCatalogKnown DEF Init, RecordsTyped
<1>. QED
  BY <1>1, InitNumbered, NextNumbered, NextCatalog, NextRecords, PartsTyped, PTL DEF Spec

===============================================================================
