SPECIFICATION DelegationSpec
CONSTANTS
  None = None
  Merchant = "freshmart"
  SeedPolicies <- MCSeedPolicies
  SeedOrder <- MCSeedOrder
  SeedActive = {"v15"}
  Drafts <- MCDrafts
  ContractsMade <- MCContracts
  Txs <- MCTxs
  Proposals <- MCProposals
  Budgets = {10000, 30000}
  SeedCatalog <- OatsOnly
  Versions = {"v14", "v15", "v16"}
  Edges = {{}, {"fee", "drift"}}
  Targets = {None}
  Prompts <- MCPrompts
  Answers <- MCAnswers
  Quantities <- MCQuantities
  MaxChanges = 1
INVARIANTS
  AllowedAsSaid
  TypeOK
  ConditionsNeverAllow
  ProposalNeverRelaxes
  TighterNeverRelaxes
  RefusedMutationIsMaterial
