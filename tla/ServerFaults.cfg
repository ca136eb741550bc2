SPECIFICATION FairSpec
CONSTANTS
  p1 = p1
  p2 = p2
  Proc = {p1, p2}
  Name = {"ranking-1"}
  NameOf <- SameName
  Registry = {r1}
  Faults = {"term", "kill", "lose", "restart", "bind"}
  Nobody = Nobody
  Missing = Missing
  Unreadable = Unreadable
CHECK_DEADLOCK FALSE
INVARIANTS RecordsLeadToServers StopFindsDeregistered
PROPERTY ShutdownCompletes
