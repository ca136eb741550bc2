SPECIFICATION Spec
CONSTANTS
  c1 = c1
  Call <- Calls
  Text <- Texts
  IdModulus = 32
  Item <- Items
  Setting <- Settings
  Unusable = Unusable
  NonDigit = NonDigit
INVARIANTS TypeOK OkIsComplete CountOfOneSnapshot RefusesOnlyNonUsers
