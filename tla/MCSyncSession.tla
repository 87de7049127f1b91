--------------------------- MODULE MCSyncSession ---------------------------
\* Small instances of SyncSession for TLC.
EXTENDS SyncSession, TLC

CONSTANTS p1, MaxSessions

OneName == {p1}
MCSession == 1..MaxSessions
MCPath == Name \cup (Name \X MCSession)
MCConflictName(p, s) == IF p \in Name THEN <<p, s>> ELSE p
\* Init gives an idle session an arbitrary device, A; what dials it overwrites
\* that, and nothing reads it before, so exchanging the devices is sound.
Sym == Permutations(Hash) \cup Permutations(Device)

\* Bound of the liveness run: a behaviour has an edit or a second session, not
\* both.  Neither is an action that fairness obliges anybody to.
LiveNext ==
  /\ Next
  /\ edits' = 0 \/ \A i \in Session \ {1} : client'[i].pc = "idle"
LiveSpec == Init /\ [][LiveNext]_vars /\ Fairness
=============================================================================
