------------------------ MODULE MCDeploymentDelivery ------------------------
(* Small instances of DeploymentDelivery for TLC.                          *)
EXTENDS DeploymentDelivery, TLC

(* No rotation; consumer processes end twice within a batch.                *)
TwoStops == {[rotations |-> 0, stops |-> 2]}
=============================================================================
