----------------------------- MODULE MCSharing -----------------------------
\* Small instances of Sharing for TLC.
EXTENDS Sharing, TLC

\* No definition distinguishes devices, spaces or calls.
Sym == Permutations(Device) \cup Permutations(Share) \cup Permutations(Call)
=============================================================================
