SPECIFICATION EngineSpec
CONSTANTS
  Agents = {g1, g2, g3}
  Cells = {a1, a2}
  Width = 1
  NoAgent = NoAgent
  Watched = {g1}
  MaxCalls = 4
  Objects = {a, b, w}
  Holders = {w}
  NoObject = NoObject
  MaxFields = 3
  Modules <- MCModules
  Graphs <- MCGraphs
  MaxRequests = 4
  Holes = {o1, o2}
  Atoms = {1, 2}
  InitialSize = 1
  InitialHashSize = 1
  CompactAt = 2
  Keys = {0, 2}
  Cursors = {c1, c2}
  FirstThreshold = 2
  MaxRecords = 3
INVARIANTS
  WaitersSound
  SettledOnce
  ReactionsRight
  CollectorSound
  NoCycleLeft
  ModulesSound
  GeneratorSound
  ShapesSound
  MapSound
PROPERTIES
  WakeupsRight
  BehavesAsOwn
  WalksRight
CHECK_DEADLOCK FALSE
