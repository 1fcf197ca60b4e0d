--------------------------- MODULE MerchantPolicies ---------------------------
(***************************************************************************)
(* The versioned AI policies of one merchant (commerce/merchant_policy.py):*)
(* the rows of merchant_policies, written by the seeding of the demo data  *)
(* at every start of the server and by POST /merchants/{id}/policies.      *)
(***************************************************************************)
EXTENDS Naturals, Sequences

CONSTANTS
  Versions,       (* version strings                                       *)
  SeedPolicies,   (* the seeded versions and their contents: a function    *)
  SeedOrder,      (* the seeded versions, in the order of SEED_POLICIES    *)
  SeedActive,     (* those seeded with is_active                           *)
  Drafts,         (* the contents a merchant may publish                   *)
  None            (* no row                                                *)

VARIABLES
  policies,   (* policies[v]: the contents of version v                    *)
  active,     (* the versions whose row has is_active = 1                  *)
  written     (* the versions in the order of their row ids                *)

policyVars == <<policies, active, written>>

(* What the modules that use this one assume of the constants.              *)
PoliciesAssumption ==
  /\ DOMAIN SeedPolicies \subseteq Versions
  /\ SeedOrder \in Seq(DOMAIN SeedPolicies)
  /\ {SeedOrder[i] : i \in DOMAIN SeedOrder} = DOMAIN SeedPolicies
  /\ \A i, j \in DOMAIN SeedOrder : SeedOrder[i] = SeedOrder[j] => i = j
  /\ SeedActive \subseteq DOMAIN SeedPolicies
  /\ None \notin Versions /\ None \notin Drafts
  /\ \A v \in DOMAIN SeedPolicies : SeedPolicies[v] # None

Seeded == DOMAIN SeedPolicies

(* get_active_policy: the active row with the highest id.                   *)
ActiveRows == {i \in DOMAIN written : written[i] \in active}
(* Mutant: ORDER BY id without DESC.                                        *)
ActiveVersionOldest ==
  IF ActiveRows = {} THEN None
  ELSE written[CHOOSE i \in ActiveRows : \A j \in ActiveRows : i <= j]
ActiveVersion ==
  IF ActiveRows = {} THEN None
  ELSE written[CHOOSE i \in ActiveRows : \A j \in ActiveRows : j <= i]

(* Mutant: an upsert, as in the seeding.                                    *)
UpsertPolicyVersion(v, contents, activate) ==
  /\ policies' = [policies EXCEPT ![v] = contents]
  /\ active' = IF activate THEN {v} ELSE active
  /\ written' = IF policies[v] = None THEN Append(written, v) ELSE written

(* create_policy_version: one transaction, which fails on a version that    *)
(* exists (UNIQUE(merchant_id, version)); an active version deactivates all *)
(* others, an inactive one deactivates none.                                *)
CreatePolicyVersion(v, contents, activate) ==
  /\ policies[v] = None
  /\ policies' = [policies EXCEPT ![v] = contents]
  /\ active' = IF activate THEN {v} ELSE active
  /\ written' = Append(written, v)

(* seed_policies over existing rows: contents and is_active are those of    *)
(* the demo data again, the ids and the other versions stay.                *)
SeedAgain ==
  /\ policies' = [v \in Versions |->
                    IF v \in Seeded THEN SeedPolicies[v] ELSE policies[v]]
  /\ active' = (active \ Seeded) \cup SeedActive
  /\ UNCHANGED written

Init ==
  /\ policies = [v \in Versions |-> IF v \in Seeded THEN SeedPolicies[v] ELSE None]
  /\ active = SeedActive
  /\ written = SeedOrder

Publish ==
  \E v \in Versions, contents \in Drafts, activate \in BOOLEAN :
    CreatePolicyVersion(v, contents, activate)

Next == Publish \/ SeedAgain

Spec == Init /\ [][Next]_policyVars

-------------------------------------------------------------------------------
(* Every row is of one version, and every version with contents has one.    *)
TypeOK ==
  /\ \A v \in Versions :
       policies[v] # None <=> \E i \in DOMAIN written : written[i] = v
  /\ \A i, j \in DOMAIN written : written[i] = written[j] => i = j
  /\ active \subseteq {written[i] : i \in DOMAIN written}

(* A version is immutable once written: publishing never touches a version  *)
(* that exists, and seeding writes back what is there, also when a merchant *)
(* published other versions in between.                                     *)
VersionsImmutable ==
  [][\A v \in Versions : policies[v] # None => policies'[v] = policies[v]]_policyVars

(* The policy in force changes only by publishing: a restart makes seeded   *)
(* versions active again that were superseded, and still the newest         *)
(* published active version stays in force.                                 *)
ForceChangesByPublishing ==
  [][ActiveVersion' # ActiveVersion =>
       Len(written') > Len(written)
       /\ ActiveVersion' = written'[Len(written')]]_policyVars

===============================================================================
