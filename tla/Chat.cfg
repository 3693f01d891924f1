CONSTANTS
  Clients <- TwoClients
  Backlog = 1
  BufferSize = 3
  MaxSaid <- TalkativeAndShy
  ServerFaults = {"thread"}
  ClientFaults = {"kill"}
  Junk = Junk
SPECIFICATION FairSpec
INVARIANTS TypeOK SocketsOwned
PROPERTIES ImplementsEcho EchoArrives DisconnectHandled
\* everybody may have left, or the server may be gone
CHECK_DEADLOCK FALSE
