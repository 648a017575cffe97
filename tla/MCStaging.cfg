SPECIFICATION StagingSpec
CONSTANTS
  Entities = {"GolfTrickle Inc", "US Operations", "Canada"}
  Accounts = {"Sales", "COGS", "GrossProfit"}
  ICAccounts = {}
  AccountWeight <- DemoWeight
  OwnershipPct <- DemoPct
  AccountType <- DemoType
  Currency <- DemoCurrency
  GroupCurrency = "USD"
  Largest = 1000000
  Slices <- MCSlices
  Writes <- MCWrites
  MaxBatch = 1
  Rows = {}
  MaxRows = 1
  Exprs <- MCExprs
  RateLists = {}
  InitEnt <- MCEnt
  InitAcc <- MCAcc
  InitExpr <- DemoFormulas
  InitRates <- NoRates
  EditEntities = {}
  EditAccounts = {}
  EditScenarios = {}
  FormulaTargets = {"COGS"}
  FlowEntities = {}
  ProfileNames = {"GolfTrickle CSV"}
  ProfileTexts <- MCProfiles
  RuleLists <- MCRuleLists
  Files <- MCFiles
  RowLimit = 7
  Stem <- MCStem
  HasPrefix <- MCHasPrefix
  Length <- MCLength
  Amounts <- MCAmounts
INVARIANTS RulePrecedence ImportMirrorsLastCommit
CHECK_DEADLOCK FALSE
