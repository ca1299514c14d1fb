SPECIFICATION HostSpec
CONSTANTS
  WorkerIds = {w1}
  Main = main
  Sabs = {b1}
  NoSab = NoSab
  MaxPosts = 2
  Programs = {{"timer", "fd"}, {"signal", "fd"}, {"job", "reject"}}
  MaxTimers = 2
  MaxTimerId = 2
  MaxDelay = 3
  MaxSleep = 2
  Fds = {f1}
  Signals = {s1}
  Rejected = {p1}
  MaxJobs = 2
  MaxSignals = 2
  Sizes = {1, 3}
  Scales = {1, 2}
  Clicks <- MCClicks
  MaxOpens = 2
  ReopensAfterQuit = FALSE
  Dirs = {"/a", "/b", "/c"}
  Paths = {"here.ptjs", "../b/other.ptjs", "/c/missing.ptjs"}
  Join <- MCJoin
  Missing = {"/c"}
  WorkingDir = "/a"
  NoBase = NoBase
  MaxNesting = 4
  item1 = item1
  item2 = item2
  Values <- MCValues
  undefined = undefined
  ringCap = 4
  Initial <- MCInitial
  Threshold = 2
  MaxItems = 5
  poolCap = 3
  Services = {v1, v2}
  Pids = {n1, n2}
  Codes = {c0, c1}
  null = null
  LimbBits = 2
  UdivThreshold = 2
  Operands <- MCOperands
  MaxExponent = 3
  MaxShift = 5
  MaxLimbs = 3
INVARIANTS
  PortsSound
  InOrder
  LoopSound
  TerminalSound
  WindowSound
  IncluirSound
  RingSound
  FilaSound
  PoolSound
  ServiceSound
  BigIntExact
PROPERTIES
  Arrives
  TimersFire
  RingImplements
  FilaImplements
  GrantsAreExclusive
CHECK_DEADLOCK FALSE
