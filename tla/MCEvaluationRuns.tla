--------------------------- MODULE MCEvaluationRuns ---------------------------
(* TLC instances of EvaluationRuns: see the .cfg files.                     *)
EXTENDS EvaluationRuns
===============================================================================
