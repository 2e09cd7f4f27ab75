---------------------------- MODULE MCDeployment ----------------------------
(***************************************************************************)
(* Deployment for TLC: the images are strings, as digests are, and alike.  *)
(***************************************************************************)
EXTENDS Deployment

MCImages == {"a", "b", "c"}
=============================================================================
