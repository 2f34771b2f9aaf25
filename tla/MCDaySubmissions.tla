-------------------------- MODULE MCDaySubmissions --------------------------
(* TLC instances of DaySubmissions: see the .cfg files.                     *)
EXTENDS DaySubmissions

OneTextDay == <<"text">>
HandoffText == <<"handoff", "text">>
=============================================================================
