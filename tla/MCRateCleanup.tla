--------------------------- MODULE MCRateCleanup ---------------------------
(* The rate limiter with a cleanup timer that keeps firing, for TLC. *)
EXTENDS RateLimiter

\* Two requests per two ticks.
MCSettings == {[requests |-> 2, period |-> 2, penalty |-> 1]}

=============================================================================
