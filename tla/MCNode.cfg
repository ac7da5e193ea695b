SPECIFICATION Spec
CONSTANTS
  app = app
  p1 = p1
  Apps <- MCApps
  Mailboxes <- MCMailboxes
  Names <- MCNames
  Peers <- MCPeers
  MaxConns = 2
INVARIANTS
  RegistryConsistent
  FoundIffOpen
  ReadAsWritten
