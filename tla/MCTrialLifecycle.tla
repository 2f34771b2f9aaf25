-------------------------- MODULE MCTrialLifecycle --------------------------
(* TLC instances of TrialLifecycle: see the .cfg files, which give model    *)
(* values to the candidates and texts and bound versions and operators.     *)
EXTENDS TrialLifecycle

=============================================================================
