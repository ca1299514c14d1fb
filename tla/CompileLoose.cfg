SPECIFICATION CompileSpec
CONSTANTS
  Compiled <- MCCompiledLoose
  Fuel = 12
INVARIANTS
  KindsAgree
