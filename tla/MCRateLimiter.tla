--------------------------- MODULE MCRateLimiter ---------------------------
(* A small instance of the rate limiter for TLC. *)
EXTENDS RateBudget, TLC

\* Two requests per two ticks; one request per two ticks, whose bucket can be
\* denied within Tolerance of being full; period: 0; and requests: 0.
MCSettings ==
    {[requests |-> 2, period |-> 2, penalty |-> 1],
     [requests |-> 1, period |-> 2, penalty |-> 2],
     [requests |-> 1, period |-> 0, penalty |-> 0],
     [requests |-> 0, period |-> 2, penalty |-> 1]}

\* Threads may be exchanged, and so may keys.
Symmetry == Permutations(Threads) \cup Permutations(Keys)

=============================================================================
