SPECIFICATION ShopSpec
CHECK_DEADLOCK FALSE
CONSTANTS
  None = None
  Merchant = "freshmart"
  SeedCatalog <- MCCatalog
  SeedPolicies <- ShopSeedPolicies
  SeedOrder <- MCSeedOrder
  SeedActive = {"v15"}
  Drafts <- ShopDrafts
  ContractsMade <- ShopContracts
  Txs <- DirectTxs
  Proposals <- DirectProposals
  Budgets = {100000, 7500000}
  Requests <- MCRequests
  Versions = {"v14", "v15", "v16"}
  Edges = {{}}
  Targets = {None, "v16"}
  Quantities <- MCQuantities
  MaxChanges = 3
INVARIANTS
  ShopTypeOK
  OwnOrderIntact
  NegotiationAgrees
  EvaluationIsSnapshot
  ReplayReproduces
PROPERTIES
  VersionsImmutable
  ForceChangesByPublishing
