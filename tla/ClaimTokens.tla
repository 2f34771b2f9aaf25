---------------------------- MODULE ClaimTokens ----------------------------
(***************************************************************************)
(* What the attempt column of a job is worth to the workers: a source of   *)
(* claim tokens.  Every claim of a job gets the next number, a number is   *)
(* given to one worker only, and a worker may drop its token at any time   *)
(* (it settled the job, or it died).  The queue implements this whatever   *)
(* happens to status, lease and owner of the row.                          *)
(***************************************************************************)
EXTENDS Integers

CONSTANTS Jobs, Workers, NoToken

VARIABLES
  last,    \* last[j]: the number of the latest claim of job j
  token    \* token[w]: the claim that worker w holds, or NoToken

vars == <<last, token>>

Init ==
  /\ last = [j \in Jobs |-> 0]
  /\ token = [w \in Workers |-> NoToken]

Issue(w, j) ==
  /\ token[w] = NoToken
  /\ last' = [last EXCEPT ![j] = @ + 1]
  /\ token' = [token EXCEPT ![w] = <<j, last[j] + 1>>]

Drop(w) ==
  /\ token[w] # NoToken
  /\ token' = [token EXCEPT ![w] = NoToken]
  /\ UNCHANGED last

Next == \E w \in Workers : Drop(w) \/ \E j \in Jobs : Issue(w, j)

Spec == Init /\ [][Next]_vars
=============================================================================
