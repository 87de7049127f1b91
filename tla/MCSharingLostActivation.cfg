SPECIFICATION Spec
CONSTANTS
  Device = {A, B}
  Share = {s1}
  Call = {c1, c2}
  NoShare = NoShare
  NoForm = NoForm
  NoCall = NoCall
  NoInvite = NoInvite
SYMMETRY Sym
INVARIANTS AcceptedMeansActive
