SPECIFICATION Spec
CONSTANTS
  Names = {"ann", "bob"}
  Passwords = {p, q}
  Threads = {t1, t2}
  TopKeys = {"ann"}
  MaxFaults = 1
  MaxOps = 4
SYMMETRY Sym
INVARIANTS
  RegisteredUnlessRaced
  LoginOfName
  NoDanglingName
  OwnersStay
CHECK_DEADLOCK FALSE
