SPECIFICATION Spec
CONSTANTS
  Entities = {"A", "B", "G"}
  Accounts = {"Profit", "Sales", "Tax"}
  ICAccounts = {"Sales"}
  AccountWeight <- MCWeight
  OwnershipPct <- MCPct
  AccountType <- MCType
  Currency <- MCCurrency
  GroupCurrency = "USD"
  Largest = 15
  Slices <- MCSlices
  Writes <- MCWrites
  MaxBatch = 2
  Rows <- MCRows
  MaxRows = 2
  Exprs = {}
  RateLists = {}
  InitEnt <- MCEnt
  InitAcc <- MCAcc
  InitExpr <- MCExpr
  InitRates <- MCRates
  EditEntities = {}
  EditAccounts = {}
  EditScenarios = {}
  FormulaTargets = {}
  FlowEntities = {"A", "B"}
INVARIANTS ProcessedAfterImport SnapshotSavable
PROPERTY CertifiedFrozen
CHECK_DEADLOCK FALSE
