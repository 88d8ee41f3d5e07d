------------------------------- MODULE MCPool -------------------------------
(* Three repositories through a pool of one, of two, and of the default.     *)
EXTENDS Pool

\* --concurrency is not checked by the command line.
ConcurrencyFlags == {-1, 0, 1, 2}
=============================================================================
