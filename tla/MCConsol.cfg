SPECIFICATION Spec
CONSTANTS
  Entities = {"G", "S", "A", "B", "C"}
  Accounts = {"Bonus", "Net", "Sales", "Tax"}
  ICAccounts = {"Sales"}
  AccountWeight <- MCWeight
  OwnershipPct <- MCPct
  AccountType <- MCType
  Currency <- MCCurrency
  GroupCurrency = "USD"
  Largest = 1000000
  Slices <- MCSlices
  Writes <- MCWrites
  MaxBatch = 1
  Rows = {}
  MaxRows = 1
  Exprs = {}
  RateLists = {}
  InitEnt <- MCEnt
  InitAcc <- MCAcc
  InitExpr <- MCExpr
  InitRates <- MCRates
  EditEntities = {"C"}
  EditAccounts = {}
  EditScenarios = {}
  FormulaTargets = {}
  FlowEntities = {}
INVARIANTS HistoryIndependent CalcConsistent EliminationNets OwnershipWeighted
CHECK_DEADLOCK FALSE
