----------------------------- MODULE MCRecordings -----------------------------
(* TLC instance of Recordings, see the .cfg file: the recording of the demo  *)
(* and a supplement to it.                                                   *)
EXTENDS Recordings, TLC

CONSTANTS m1, m2

DemoAndSupplement == (m1 :> "recording") @@ (m2 :> "supplemental")

===============================================================================
