SPECIFICATION ControlSpec
SYMMETRY MCSymmetry
CONSTANTS
  a = a
  b = b
  Rules <- MCRules
  SelectorOf <- SelectorElsewhere
  Covers <- CoversElsewhere
  OperatorRules = {"wide"}
  InitialRules <- RulesElsewhere
  OperatorRows = {"deny"}
  StagedRules = {"staged"}
  SafetyRules = {"safety"}
  Requests = {q}
  Workers = {w}
  Calls = {k}
  WorkerOf <- MCWorker
  Commands = {c}
  MaxStale = 0
  Lead = 0
  WorkerTtl = 0
  ProjectionTtl = 1
  MaxAudit = 2
  MaxNow = 1
  Platforms = {"p1", "p2"}
  Publications = {"c1", "c2"}
  KindOf <- PublicationKind
  PlatformOf <- PublicationPlatform
  Established = {"p2"}
  Servers = {"w"}
  PolicyBound <- PolicyBounds
  Pages = {"home", "tips"}
  Home = "home"
  Required = {"home"}
  ContentCommands = {a, b}
  AttemptLimit = 1
  PageBound <- PageBounds
  SnapshotBound = 2
  Catalogued = "stable"
  PlatformPages = {a, b}
  Promotions = {"c"}
  PresentationBound = 2
INVARIANTS
  PublishesWhatWasSeen
  SnapshotsAreSound
  ListedWasReady
  RankingIsAsPlanned
PROPERTIES
  UsedNeverRegresses
  KeptNeverRegresses
  DenialIsEffective
CHECK_DEADLOCK FALSE
