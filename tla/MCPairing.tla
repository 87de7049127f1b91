----------------------------- MODULE MCPairing -----------------------------
\* Small instances of Pairing for TLC.
EXTENDS Pairing, TLC

\* No definition distinguishes devices, requests or calls.
Sym == Permutations(Device) \cup Permutations(Request) \cup Permutations(Call)
=============================================================================
