------------------------------ MODULE MCAlerts ------------------------------
(* Instances of Alerts: a channel for the highest level and one for the    *)
(* two upper ones.                                                         *)
EXTENDS Alerts, TLC

CONSTANTS telegram, webhook

MCMinLevel == telegram :> 3 @@ webhook :> 2

=============================================================================
