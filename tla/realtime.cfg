SPECIFICATION FairSpec
CONSTANTS
  Parts = {"sse", "hub"}
  c1 = c1
  c2 = c2
  a1 = a1
  a2 = a2
  news = news
  None = None
  Clients = {c1, c2}
  App = {a1, a2}
  Names = {news}
  MaxGroups = 2
  BufferSize = 1
  SSEScenarios <- BrokerScenarios
  HubScenarios <- RoomScenarios
CHECK_DEADLOCK FALSE
INVARIANTS MembershipAgrees NothingClosedIsUsed
PROPERTIES ConnectionsEnd
