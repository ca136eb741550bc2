SPECIFICATION Spec
CONSTANTS
  Id = {i1, i2, i3}
  Service <- Services
  Key <- Keys
  Kind = {"instance", "entry", "other"}
  Address = {a1, a2}
  IndexModulus = 5
SYMMETRY Symmetric
INVARIANT TypeOK
PROPERTIES FairTurns ImplementsNameService
