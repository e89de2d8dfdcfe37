------------------------------- MODULE MCCsma -------------------------------
(***************************************************************************)
(* Three stations.  In a run either one of them sends two frames to        *)
(* another, or one sends a frame to a station that has one for the third.  *)
(***************************************************************************)
EXTENDS Csma

MCStations == 1..3

MCLoads ==
  {[f \in Flows |-> IF f = <<1, 2>> THEN 2 ELSE 0],
   [f \in Flows |-> IF f \in {<<1, 2>>, <<3, 1>>} THEN 1 ELSE 0]}

=============================================================================
