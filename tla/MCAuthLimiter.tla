--------------------------- MODULE MCAuthLimiter ---------------------------
(* Small instances of the authentication limiter for TLC. *)
EXTENDS AuthHistory, TLC

\* Threads may be exchanged, and so may IPs.
Symmetry == Permutations(Threads) \cup Permutations(Keys)

=============================================================================
