SPECIFICATION Spec
CONSTANTS
  Entities = {"A", "B"}
  Accounts = {"Profit", "Sales", "Tax"}
  ICAccounts = {"Sales"}
  AccountWeight <- MCWeight
  OwnershipPct <- MCPct
  AccountType <- MCType
  Currency <- MCCurrency
  GroupCurrency = "USD"
  Largest = 1000000
  Slices <- MCSlices
  Writes <- MCWrites
  MaxBatch = 1
  Rows = {}
  MaxRows = 1
  Exprs <- MCExprs
  RateLists = {}
  InitEnt <- MCEnt
  InitAcc <- MCAcc
  InitExpr <- NoFormulas
  InitRates <- NoRates
  EditEntities = {"A", "B"}
  EditAccounts = {"Sales", "Tax"}
  EditScenarios = {"Actual"}
  FormulaTargets = {"Tax"}
  FlowEntities = {"A"}
INVARIANTS TypeOK NoDanglingRefs StoredFormulasAtLeaves
PROPERTY UserDataSurvivesEdits
CHECK_DEADLOCK FALSE
