SPECIFICATION CompileSpec
CONSTANTS
  Compiled <- MCCompiledForward
  Fuel = 12
INVARIANTS
  OrderOfFunctionsIrrelevant
