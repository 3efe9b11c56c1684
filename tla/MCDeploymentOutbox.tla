------------------------- MODULE MCDeploymentOutbox -------------------------
(* Small instances of DeploymentOutbox for TLC.                            *)
EXTENDS DeploymentOutbox, TLC
=============================================================================
