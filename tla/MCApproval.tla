----------------------------- MODULE MCApproval -----------------------------
(***************************************************************************)
(* Approval for TLC: one command that is gated and one that is not, which  *)
(* share the script cache, and two taps.                                   *)
(***************************************************************************)
EXTENDS Approval

CONSTANTS create, query, t1, t2

MCGated == {create}
MCProposals == {create, query}
MCTaps == {t1, t2}
=============================================================================
