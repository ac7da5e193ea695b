-------------------------------- MODULE MCNode --------------------------------
\* One name and three mailboxes: a name can pass from a mailbox to another twice.
EXTENDS Node

CONSTANTS app, p1

MCApps == {app}
MCMailboxes == 1..3
MCNames == {"a"}
MCPeers == {p1}
=============================================================================
