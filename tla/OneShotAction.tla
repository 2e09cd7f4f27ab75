---------------------------- MODULE OneShotAction ----------------------------
(***************************************************************************)
(* What the human-in-the-loop approval promises, with no Redis, no         *)
(* Telegram and no process in it: every write command becomes at most one  *)
(* issued request; a gated command is issued only after an approve         *)
(* decision; a decision, once taken, is never replaced; and the system the *)
(* request is sent to carries it out at most once.                         *)
(*                                                                         *)
(* Approval.tla implements this module (operator Promise there).           *)
(***************************************************************************)
EXTENDS Naturals

CONSTANTS
  Proposals,   \* the write commands users send
  Gated        \* those the policy lets run only after an approve tap

VARIABLES
  status,      \* how far each command has come
  effects      \* how often the outside system carried each command out

vars == <<status, effects>>

Status == {"unseen", "pending", "lapsed", "approved", "rejected", "issued"}

Init ==
  /\ status = [p \in Proposals |-> "unseen"]
  /\ effects = [p \in Proposals |-> 0]

Move(p, from, to) ==
  /\ status[p] = from
  /\ status' = [status EXCEPT ![p] = to]
  /\ UNCHANGED effects

Offer(p) == p \in Gated /\ Move(p, "unseen", "pending")
Lapse(p) == Move(p, "pending", "lapsed")
Approve(p) == Move(p, "pending", "approved")
Reject(p) == Move(p, "pending", "rejected")
IssueApproved(p) == Move(p, "approved", "issued")
IssueUngated(p) == p \notin Gated /\ Move(p, "unseen", "issued")

Effect(p) ==
  /\ status[p] = "issued"
  /\ effects[p] = 0
  /\ effects' = [effects EXCEPT ![p] = 1]
  /\ UNCHANGED status

Step(p) ==
  \/ Offer(p)
  \/ Lapse(p)
  \/ Approve(p)
  \/ Reject(p)
  \/ IssueApproved(p)
  \/ IssueUngated(p)
  \/ Effect(p)

Next == \E p \in Proposals : Step(p)

Spec == Init /\ [][Next]_vars
=============================================================================
