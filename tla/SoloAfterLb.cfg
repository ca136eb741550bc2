CONSTANTS
  p1 = p1
  p2 = p2
  p3 = p3
  p4 = p4
  a1 = a1
  a2 = a2
  a3 = a3
  a4 = a4
  Proc = {p1, p2, p3, p4}
  Port = {a1, a2, a3, a4}
  Services <- ServicesAre
  Names <- NamesAre
  ServiceOf <- ServiceOfIs
  NameOf <- NameOfIs
  None = None
SPECIFICATION Spec
SYMMETRY Ports
INVARIANT
  SoloResolvesInstances
CHECK_DEADLOCK FALSE
