CONSTANTS
  Slugs = {sa, sb}
  FlagKeys = {f1, f2}
  PlatformFlags = {f1}
  SiteConfigs = {c1, c2}
  Equipment = {q1, q2}
  MaxSites = 2
  MaxTopologyVersion = 3
  CapabilityNames = {n1}
  Versions = {v1, v2}
  MaxInstalls = 2
  MaxEnables = 2
  TwinAssets = {a1, a2}
  Readings = {p1, p2}
  HistoryLimit = 2
  MaxTwins = 2
  MaxTwinCalls = 4
  Identities = {i1, i2}
  ServiceIds = {x1, x2}
  Details = {d1, d2}
  MaxEvents = 2
  MaxEdits = 4
  Contracts <- MCContracts
  Catalogue <- MCCatalogue
  TierPolicies <- MCTierPolicies
  AclRuleLists <- MCAclRuleLists
  BrokerAccesses <- MCBrokerAccesses
  BrokerServices = {"svc.wms"}
  MaxContracts = 3
SPECIFICATION Spec
CHECK_DEADLOCK FALSE
SYMMETRY Symmetry
INVARIANTS TypeOK VersionCovers OverridesKept HistoryAccounts ReportHonest CompatibleWithOrigin AccessAgrees
PROPERTIES UninstallHolds
