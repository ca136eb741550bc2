SPECIFICATION Spec
CONSTANTS
  p2 = p2
  p1 = p1
  Proc = {p1}
  Name = {"ranking-1"}
  NameOf <- OneName
  Registry = {r1, r2}
  Faults = {"edit"}
  Nobody = Nobody
  Missing = Missing
  Unreadable = Unreadable
CHECK_DEADLOCK FALSE
INVARIANT ExitLeavesNoRecord
