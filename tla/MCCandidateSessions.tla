------------------------- MODULE MCCandidateSessions -------------------------
(* TLC instances of CandidateSessions: see the .cfg files.                   *)
EXTENDS CandidateSessions
===============================================================================
