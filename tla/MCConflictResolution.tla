------------------------ MODULE MCConflictResolution ------------------------
\* Small instances of ConflictResolution for TLC: paths are user names and
\* pairs of a name and the session whose plan made the copy.
EXTENDS ConflictResolution, TLC

CONSTANTS p1, p2, MaxSessions

OneName == {p1}
TwoNames == {p1, p2}
MCSession == 1..MaxSessions
MCPath == Name \cup (Name \X MCSession)
\* Users never write a copy, so both devices hold a copy with the same hash
\* and no conflict arises at one; the value there is never used.
MCConflictName(p, s) == IF p \in Name THEN <<p, s>> ELSE p
Sym == Permutations(Hash) \cup Permutations(Device) \cup Permutations(Name)
=============================================================================
