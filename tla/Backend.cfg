SPECIFICATION BackendSpec
CONSTANTS
  Compiled <- MCCompiled
  Fuel = 12
  N = 4
  MaxLen = 6
  Temps <- MCTemps
  Allocatable <- MCAllocatable
  Codes <- MCCodes
  WordBits = 3
  ByteBits = 1
  Ops <- MCOps
  RegPlaces = {"rbx", "r12"}
  SpillPlaces = {"slot0", "slot1"}
  Functions <- MCFunctions
  Params <- MCParams
  Locals <- MCLocals
  Spills <- MCSpills
  UsedRegs <- MCUsedRegs
  CalleeSaved <- MCCalleeSaved
  StackTop = 18
  MaxDepth = 2
  RingFunctions <- MCRingFunctions
  RingSize <- MCRingSize
  Texts = {x, y}
  NoText = NoText
  Regexps <- MCRegexps
  Subjects <- MCSubjects
  WordCharacters = {"a"}
  Infinity = 100
INVARIANTS
  PrintsAsSource
  RunsSound
  AllocationRight
  InstructionsRight
  FramesSound
  RecentStringsIntact
  MatchesAsSpecified
  BacktrackRestores
PROPERTIES
  ReturnsToCaller
  Ends
  MatchEnds
