SPECIFICATION InputsSpec
CONSTANTS
  g1 = g1
  g2 = g2
  a1 = a1
  a2 = a2
  p1 = p1
  p2 = p2
  Group = {g1, g2}
  Blank = Blank
  Content <- MCContent
  Republisher = {"admin"}
  NoList = NoList
  MaxFileWrites = 2
  MaxRequests = 1
  NPairs = 2
  Missing = Missing
  ServerName = {"www", "api", "shop"}
  NoName = "none"
  Covers <- MCCovers
  MaxGen = 2
  MaxActs = 3
  IP = {p1, p2}
  NoIP = NoIP
  Unset = Unset
  Instance = {1, 2}
  IPConfigs <- MCIPConfigs
  ConfigWeight = {0, 2}
  FakeGroup = {g1, g2}
  InitialCount <- MCCount
  MinPerGroup = 1
  MaxPerGroup = 2
  MaxEvents = 4
INVARIANTS
  
  HandshakeServed
  ReportsDistinct
PROPERTIES
  FileEditsReach
  RenewalsReach
CHECK_DEADLOCK FALSE
