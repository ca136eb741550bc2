SPECIFICATION Spec
CONSTANTS
  p1 = p1
  p2 = p2
  Proc = {p1, p2}
  Name = {"ranking-1"}
  NameOf <- SameName
  Registry = {r1, r2}
  Faults = {"lose", "edit", "kill"}
  Nobody = Nobody
  Missing = Missing
  Unreadable = Unreadable
SYMMETRY Interchangeable
CHECK_DEADLOCK FALSE
INVARIANTS TypeOK RecordsLeadToServers RegisteredIsListed
