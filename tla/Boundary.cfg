SPECIFICATION BoundarySpec
CONSTANTS
  SomeAddresses <- Edges
  FewAnswers <- FewAddresses
  MaxAnswers = 3
  SomeRows <- Rows
  SomeClients <- Clients
  MaxRows = 2
  Installable <- InstalledMaps
  Listed <- ListedMaps
  MaxMaps = 2
  NoId = "none"
  Numeric = {"1"}
  Header = 2
  MinSize = 2
  MaxSize = 4
  Sizes = {1, 2, 3, 5}
  MaxPackets = 3
  Deployments <- SomeDeployments
  HostedRequests <- SomeRequests
  SomeHosts <- Hosts
  Tables <- SomeTables
  PageSizes = {1, 2, 3}
  Place <- Places
CHECK_DEADLOCK FALSE
INVARIANTS
  AddressesJudgedAlike
  EveryRequestNeedsSecret
  SteamIdsAreTheirOwn
  EveryMapCanBeLoaded
  DecodesTheStream
