CONSTANTS
  Clients <- TwoClients
  Backlog = 1
  BufferSize = 3
  MaxSaid <- TalkativeAndShy
  ServerFaults = {}
  ClientFaults = {"kill"}
  Junk = Junk
SPECIFICATION Spec
INVARIANTS ServerSurvives
CHECK_DEADLOCK FALSE
