CONSTANTS
  Closers = {c1, c2}
  Owners = {o1, o2}
  Cap = 1
SPECIFICATION Spec
INVARIANTS PtyValidWhileOwned OneOwnerOneClose CloserAtWork
PROPERTIES CloseReturns ContractSpec
