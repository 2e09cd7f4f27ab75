-------------------------------- MODULE MCBoot --------------------------------
(***************************************************************************)
(* Boot for TLC: environments a deployment may write, two keys.            *)
(***************************************************************************)
EXTENDS Boot

MCKeys == {"k1", "k2"}

\* Every setting of Munera, the others as they should be; docker-compose.yml
\* makes a project that is not set a blank.
MCAnyMunera ==
  {e \in Environments :
     /\ e.rest = "good" /\ e.project = "blank"
     /\ e.timeout \in {"unset", "blank"} /\ e.token # "k2"}
=============================================================================
