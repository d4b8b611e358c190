---------------------------- MODULE MCProviderCall ----------------------------
(* Three tries, exchanges of at most four seconds, a context that has ended *)
(* already, ends in the middle of a try or sleep, or never.                 *)
EXTENDS ProviderCall

MCDeadlines == {0, 3, 8, 100}
=============================================================================
