---------------------------- MODULE MCRateLimiter ----------------------------
(* Small instances of RateLimiter: a minute of two ticks, a day of four.     *)
EXTENDS RateLimiter

CONSTANTS w1, w2, w3

TwoWorkers == {w1, w2}
ThreeWorkers == {w1, w2, w3}
=============================================================================
