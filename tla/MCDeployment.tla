---------------------------- MODULE MCDeployment ----------------------------
(* A small instance of Deployment.                                         *)
EXTENDS Deployment
=============================================================================
