------------------------ MODULE MCProactiveDispatch ------------------------
(***************************************************************************)
(* ProactiveDispatch for TLC: a scheduled and a manual job, which run      *)
(* alike.                                                                  *)
(***************************************************************************)
EXTENDS ProactiveDispatch

CONSTANTS scheduled, manual

MCJobs == {scheduled, manual}
=============================================================================
