SPECIFICATION FairSpec
CONSTANTS
  a = a
  b = b
  s1 = s1
  p = p
  pSpaced = pSpaced
  q = q
  blanks = blanks
  none = none
  Nodes = {a, b}
  Sessions = {s1}
  Caller <- FromA
  Callee <- ToB
  Raw <- Typed
  Norm <- Stripped
  Blank = blanks
  NoOverride = none
  Overrides = {none, blanks}
  FirstPassword <- SameSecret
  Decisions <- AnyDecision
  MaxUpdates = 2
  SessionFaults <- AllSessionFaults
INVARIANTS VerdictIsGenuine CopiesAgree NothingUnexpected NoMutualWait
PROPERTIES SessionContractKept CallEnds ServingEnds
