\* One prompt, one answer to it and one order.
SPECIFICATION DelegationSpec
CONSTANTS
  None = None
  Merchant = "freshmart"
  SeedPolicies <- MCSeedPolicies
  SeedOrder <- MCSeedOrder
  SeedActive = {"v15"}
  Drafts <- MCDrafts
  ContractsMade <- MCContracts
  Txs <- RepeatedOnly
  Proposals <- MCProposals
  Budgets = {10000, 30000}
  SeedCatalog <- OatsOnly
  Versions = {"v14", "v15", "v16"}
  Edges = {{}, {"fee", "drift"}}
  Targets = {None}
  Prompts <- ScreenOnly
  Answers <- OneTimeAnswered
  Quantities <- MCQuantities
  MaxChanges = 1
INVARIANT RepeatedAsConfirmed
