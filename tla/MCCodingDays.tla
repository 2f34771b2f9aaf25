----------------------------- MODULE MCCodingDays -----------------------------
(* TLC instances of CodingDays: see the .cfg files.                          *)
EXTENDS CodingDays

MCFirst(S) == CHOOSE x \in S : TRUE
MCOthers(S) == S \ {MCFirst(S)}

(* A side branch or a second push, and a second request that creates the      *)
(* repository on day 2, come where one worker alone does the jobs, without a  *)
(* fault; and not both.  Where there was a fault, two workers at a time are   *)
(* at day 2's job.                                                            *)
MorePushes == pushes' > 1 \/ repo'.side # {}
MoreRequests == overwritten' \/ \E r \in MCOthers(Requests) : request'[r].at # "idle"

SecondsAlone ==
  /\ MorePushes \/ MoreRequests =>
       faults' = Faults /\ \A w \in MCOthers(Workers) : worker'[w].at = "idle"
  /\ ~(MorePushes /\ MoreRequests)
  /\ faults' < Faults =>
       \/ \A w \in MCOthers(Workers) : worker'[w].at = "idle"
       \/ \A w \in Workers : worker'[w].day \in {0, 2}
  /\ \A r \in MCOthers(Requests) :
       request'[r].at # "idle" =>
         request'[r].at \in {"create", "seed", "grant"} /\ request'[r].day = 2 /\ InWindow(2)'

(* Of idle workers, which are alike, the first takes a job.                   *)
OneClaimsFirst ==
  \A w \in MCOthers(Workers) :
    worker[w].at = "idle" /\ worker'[w].at # "idle" => worker[MCFirst(Workers)].at # "idle"

MCNext == Next /\ SecondsAlone /\ OneClaimsFirst

MCFairSpec == Init /\ [][MCNext]_vars /\ Fairness
===============================================================================
