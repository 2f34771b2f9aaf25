---------------------------- MODULE MCMediaStorage ----------------------------
(* The storage alone, behind S3 as deployed, for TLC. *)
EXTENDS MediaStorage

MCSetups ==
  {[provider |-> "s3", directory |-> TRUE, life |-> 1, least |-> 1, most |-> 2],
  [provider |-> "fake", directory |-> TRUE, life |-> 2, least |-> 1, most |-> 1],
  [provider |-> "fake", directory |-> FALSE, life |-> 1, least |-> 1, most |-> 2],
  [provider |-> "s3", directory |-> TRUE, life |-> 3, least |-> 1, most |-> 2]}
=============================================================================
