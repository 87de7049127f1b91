SPECIFICATION Spec
CONSTANTS
  Device = {A, B}
  Request = {r1, r2}
  Call = {c1, c2}
  Guesses = 1
  MaxFaults = 1
  NoRequest = NoRequest
SYMMETRY Sym
INVARIANTS TypeOK PairedByApproval FewGuesses ConfirmedIsMutual OneSidedOnlyIfDisturbed
