SPECIFICATION Spec
CONSTANTS
  Accounts = {a, b, c}
  NoTest = NoTest
  FormulaSets <- MCFormulaSets
  Limits = {2, 3}
  MaxCells = 2
INVARIANTS TypeOK AcyclicIsExact CyclesYieldZero SilentIsExact
CHECK_DEADLOCK FALSE
