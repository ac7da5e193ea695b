SPECIFICATION Spec
CONSTANTS
  Endpoints = 2
  Cookie = "cookie"
  Peers <- MCPeers
INVARIANTS
  Authenticated
  VersionsAgree
  GoodPeerAccepted
  AssertedSizes
PROPERTIES
  Establishes
  ImplementsConnection
