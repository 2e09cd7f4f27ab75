--------------------------- MODULE ApprovalProofs ---------------------------
(***************************************************************************)
(* Proofs about Approval, for any number of commands, taps and faults.     *)
(*                                                                         *)
(* The inductive invariant IInv says, beyond types, who may be where: at   *)
(* most one tap of a command holds the answer "taken" (OneWinner), only    *)
(* that tap can be on the way to the agent (WinnerRuns), a decision and    *)
(* the deleted envelope go together (DecidedMeansClaimed), and an attempt  *)
(* leaves a trace that keeps every other step from attempting again        *)
(* (AttemptsMeanDecided).                                                  *)
(***************************************************************************)
EXTENDS Approval, TLAPS

\* A decision exists exactly when the script deleted the envelope.
DecidedMeansClaimed ==
  \A p \in Proposals : decision[p] # "none" <=> envelope[p] = "claimed"

\* Envelopes and keyboards belong to gated commands, and the envelope is
\* written only after the handler passed Propose.
EnvelopeOfGated ==
  /\ \A p \in Proposals : envelope[p] # "absent" => p \in Gated
  /\ \A p \in Proposals : cmd[p] \in {"idle", "storing"} => envelope[p] = "absent"

\* A tap under way has a gated target and a button, and no claim answer before
\* the claim.
TapsAimed ==
  /\ \A t \in Taps :
        pc[t] \notin {"idle", "done", "lost"} => on[t] \in Gated /\ verb[t] \in Verbs
  /\ \A t \in Taps :
        pc[t] \in {"idle", "loading", "evalsha", "reloading", "evalshaAgain"}
          => outcome[t] = "none" /\ reply[t] = "none"
  /\ \A t \in Taps : pc[t] # "done" => reply[t] = "none"

\* Only the tap of the recorded decision was answered "taken"; one per command.
OneWinner ==
  /\ \A t \in Taps :
        outcome[t] = "taken" => on[t] \in Gated /\ verb[t] \in Verbs
                                /\ decision[on[t]] = verb[t]
  /\ \A t, u \in Taps :
        outcome[t] = "taken" /\ outcome[u] = "taken" /\ on[t] = on[u] => t = u

\* Only the winner of an approve goes on to the agent, once.
WinnerRuns ==
  /\ \A t \in Taps :
        pc[t] \in {"approved", "routing"} => outcome[t] = "taken" /\ verb[t] = "approve"
  /\ \A t \in Taps :
        outcome[t] = "taken" /\ pc[t] \in {"mapping", "approved"} => attempts[on[t]] = 0
  /\ \A t \in Taps : pc[t] = "routing" => attempts[on[t]] = 1

\* An attempt presupposes an approve decision, or an ungated command under way.
AttemptsMeanDecided ==
  /\ AtMostOnce
  /\ OnlyApprovedRuns
  /\ \A p \in Proposals : cmd[p] = "idle" => attempts[p] = 0

\* A verdict is told by the winner.
VerdictsOfWinner ==
  \A t \in Taps :
    /\ reply[t] \in Verdicts => outcome[t] = "taken"
    /\ reply[t] = "executed" => performed[on[t]] = 1
    /\ reply[t] = "rejected" => verb[t] = "reject"

\* Without faults every decision still has its claim row.
RowsKept == faults = 0 => claimRow = decision

\* Everything of the inductive invariant but the types.
Bookkeeping ==
  /\ DecidedMeansClaimed
  /\ EnvelopeOfGated
  /\ TapsAimed
  /\ OneWinner
  /\ WinnerRuns
  /\ AttemptsMeanDecided
  /\ VerdictsOfWinner
  /\ RowsKept
  /\ DroppedOnlyByFault

IInv == TypeOK /\ Bookkeeping

-----------------------------------------------------------------------------
(* The step lemma, one action at a time.                                   *)

USE DEF redisVars, tapVars, effectVars, GoesTo, Fault, Verbs, CmdStates,
        TapStates, EnvelopeStates, Outcomes, Replies

\* Every variable keeps its type over every step.
LEMMA TypeStep == TypeOK /\ [Next]_vars => TypeOK'
<1> SUFFICES ASSUME TypeOK, [Next]_vars PROVE TypeOK'
  OBVIOUS
<1> USE GatedAssumption, NoProposalAssumption, MaxFaultsAssumption DEF TypeOK
<1>1. ASSUME NEW p \in Proposals, Propose(p) PROVE TypeOK'
  BY <1>1 DEF Propose
<1>2. ASSUME NEW p \in Proposals, StoreEnvelope(p) PROVE TypeOK'
  BY <1>2 DEF StoreEnvelope
<1>3. ASSUME NEW p \in Proposals, StoreEnvelopeFails(p) PROVE TypeOK'
  BY <1>3 DEF StoreEnvelopeFails
<1>4. ASSUME NEW p \in Proposals, SendKeyboard(p) PROVE TypeOK'
  BY <1>4 DEF SendKeyboard
<1>5. ASSUME NEW p \in Proposals, SendKeyboardFails(p) PROVE TypeOK'
  BY <1>5 DEF SendKeyboardFails
<1>6. ASSUME NEW p \in Proposals, UngatedReturns(p) PROVE TypeOK'
  BY <1>6 DEF UngatedReturns
<1>7. ASSUME NEW t \in Taps, NEW p \in Proposals, NEW v \in Verbs, TapArrives(t, p, v)
      PROVE  TypeOK'
  BY <1>7 DEF TapArrives
<1>8. ASSUME NEW t \in Taps, TapUnparsable(t) PROVE TypeOK'
  BY <1>8 DEF TapUnparsable
<1>9. ASSUME NEW t \in Taps, LoadScript(t) PROVE TypeOK'
  BY <1>9 DEF LoadScript
<1>10. ASSUME NEW t \in Taps, EvalClaim(t) PROVE TypeOK'
  BY <1>10 DEF EvalClaim, Evaluating, RunClaimScript, ClaimOutcome
<1>11. ASSUME NEW t \in Taps, EvalAnswerLost(t) PROVE TypeOK'
  BY <1>11 DEF EvalAnswerLost, Evaluating, RunClaimScript, ClaimOutcome
<1>12. ASSUME NEW t \in Taps, NoScript(t) PROVE TypeOK'
  BY <1>12 DEF NoScript
<1>13. ASSUME NEW t \in Taps, RedisFails(t) PROVE TypeOK'
  BY <1>13 DEF RedisFails
<1>14. ASSUME NEW t \in Taps, AnswerLoser(t) PROVE TypeOK'
  BY <1>14 DEF AnswerLoser
<1>15. ASSUME NEW t \in Taps, ReadClaim(t) PROVE TypeOK'
  BY <1>15 DEF ReadClaim
<1>16. ASSUME NEW t \in Taps, Route(t) PROVE TypeOK'
  <2>1. attempts' = [attempts EXCEPT ![on[t]] = attempts[on[t]] + 1]
    BY <1>16 DEF Route
  <2>2. attempts' \in [Proposals -> Nat]
    <3>1. CASE on[t] \in Proposals
      BY <2>1, <3>1
    <3>2. CASE on[t] \notin Proposals
      BY <2>1, <3>2
    <3> QED
      BY <3>1, <3>2
  <2> QED
    BY <1>16, <2>2 DEF Route
<1>17. ASSUME NEW t \in Taps, RouteReturns(t) PROVE TypeOK'
  BY <1>17 DEF RouteReturns
<1>18. ASSUME NEW p \in Proposals, Perform(p) PROVE TypeOK'
  BY <1>18 DEF Perform
<1>19. ASSUME NEW p \in Proposals, EnvelopeLapses(p) PROVE TypeOK'
  BY <1>19 DEF EnvelopeLapses
<1>20. ASSUME NEW p \in Proposals, ClaimRowLapses(p) PROVE TypeOK'
  BY <1>20 DEF ClaimRowLapses
<1>21. ASSUME FlushScripts PROVE TypeOK'
  <2>1. faults' \in 0..MaxFaults
    BY <1>21 DEF FlushScripts
  <2>2. scriptCached' \in BOOLEAN
    BY <1>21 DEF FlushScripts
  <2> QED
    BY <1>21, <2>1, <2>2 DEF FlushScripts
<1>22. ASSUME Crash PROVE TypeOK'
  <2>1. faults' \in 0..MaxFaults
    BY <1>22 DEF Crash
  <2>2. cmd' \in [Proposals -> CmdStates]
    BY <1>22 DEF Crash
  <2>3. pc' \in [Taps -> TapStates]
    BY <1>22 DEF Crash
  <2>4. \A p \in Proposals : cmd'[p] \in {"storing", "keyboard"} => p \in Gated
    BY <1>22 DEF Crash
  <2>5. claimSha' \in BOOLEAN
    BY <1>22 DEF Crash
  <2> QED
    BY <1>22, <2>1, <2>2, <2>3, <2>4, <2>5 DEF Crash
<1>23. CASE UNCHANGED vars
  BY <1>23 DEF vars
<1> QED
  BY <1>1, <1>2, <1>3, <1>4, <1>5, <1>6, <1>7, <1>8, <1>9, <1>10, <1>11, <1>12,
     <1>13, <1>14, <1>15, <1>16, <1>17, <1>18, <1>19, <1>20, <1>21, <1>22, <1>23
  DEF Next, CommandStep, TapStep

\* Every step keeps the bookkeeping.
LEMMA BookkeepingStep == IInv /\ [Next]_vars => Bookkeeping'
<1> SUFFICES ASSUME IInv, [Next]_vars PROVE Bookkeeping'
  OBVIOUS
<1>0. TypeOK /\ TypeOK'
  BY TypeStep DEF IInv
<1> USE GatedAssumption, NoProposalAssumption, MaxFaultsAssumption
<1> USE DEF TypeOK, IInv, Bookkeeping, DecidedMeansClaimed, EnvelopeOfGated,
            TapsAimed, OneWinner, WinnerRuns, AttemptsMeanDecided,
            VerdictsOfWinner, RowsKept, DroppedOnlyByFault, AtMostOnce,
            OnlyApprovedRuns, Verdicts
<1>1. ASSUME NEW p \in Proposals, Propose(p) PROVE Bookkeeping'
  BY <1>1, <1>0 DEF Propose
<1>2. ASSUME NEW p \in Proposals, StoreEnvelope(p) PROVE Bookkeeping'
  BY <1>2, <1>0 DEF StoreEnvelope
<1>3. ASSUME NEW p \in Proposals, StoreEnvelopeFails(p) PROVE Bookkeeping'
  BY <1>3, <1>0 DEF StoreEnvelopeFails
<1>4. ASSUME NEW p \in Proposals, SendKeyboard(p) PROVE Bookkeeping'
  BY <1>4, <1>0 DEF SendKeyboard
<1>5. ASSUME NEW p \in Proposals, SendKeyboardFails(p) PROVE Bookkeeping'
  BY <1>5, <1>0 DEF SendKeyboardFails
<1>6. ASSUME NEW p \in Proposals, UngatedReturns(p) PROVE Bookkeeping'
  BY <1>6, <1>0 DEF UngatedReturns
<1>7. ASSUME NEW t \in Taps, NEW p \in Proposals, NEW v \in Verbs, TapArrives(t, p, v)
      PROVE  Bookkeeping'
  BY <1>7, <1>0 DEF TapArrives
<1>8. ASSUME NEW t \in Taps, TapUnparsable(t) PROVE Bookkeeping'
  BY <1>8, <1>0 DEF TapUnparsable
<1>9. ASSUME NEW t \in Taps, LoadScript(t) PROVE Bookkeeping'
  BY <1>9, <1>0 DEF LoadScript
<1>10. ASSUME NEW t \in Taps, EvalClaim(t) PROVE Bookkeeping'
  BY <1>10, <1>0 DEF EvalClaim, Evaluating, RunClaimScript, ClaimOutcome
<1>11. ASSUME NEW t \in Taps, EvalAnswerLost(t) PROVE Bookkeeping'
  BY <1>11, <1>0 DEF EvalAnswerLost, Evaluating, RunClaimScript, ClaimOutcome
<1>12. ASSUME NEW t \in Taps, NoScript(t) PROVE Bookkeeping'
  BY <1>12, <1>0 DEF NoScript
<1>13. ASSUME NEW t \in Taps, RedisFails(t) PROVE Bookkeeping'
  BY <1>13, <1>0 DEF RedisFails
<1>14. ASSUME NEW t \in Taps, AnswerLoser(t) PROVE Bookkeeping'
  BY <1>14, <1>0 DEF AnswerLoser
<1>15. ASSUME NEW t \in Taps, ReadClaim(t) PROVE Bookkeeping'
  BY <1>15, <1>0 DEF ReadClaim
<1>16. ASSUME NEW t \in Taps, Route(t) PROVE Bookkeeping'
  BY <1>16, <1>0 DEF Route
<1>17. ASSUME NEW t \in Taps, RouteReturns(t) PROVE Bookkeeping'
  BY <1>17, <1>0 DEF RouteReturns
<1>18. ASSUME NEW p \in Proposals, Perform(p) PROVE Bookkeeping'
  BY <1>18, <1>0 DEF Perform
<1>19. ASSUME NEW p \in Proposals, EnvelopeLapses(p) PROVE Bookkeeping'
  BY <1>19, <1>0 DEF EnvelopeLapses
<1>20. ASSUME NEW p \in Proposals, ClaimRowLapses(p) PROVE Bookkeeping'
  BY <1>20, <1>0 DEF ClaimRowLapses
<1>21. ASSUME FlushScripts PROVE Bookkeeping'
  BY <1>21, <1>0 DEF FlushScripts
<1>22. ASSUME Crash PROVE Bookkeeping'
  <2>1. \A u \in Taps : pc'[u] \in {pc[u], "lost"}
    BY <1>22, <1>0 DEF Crash
  <2>2. \A u \in Taps : pc'[u] \in {"idle", "done"} <=> pc[u] \in {"idle", "done"}
    BY <1>22, <1>0 DEF Crash
  <2>3. \A q \in Proposals : cmd'[q] \in {cmd[q], "lost"}
    BY <1>22, <1>0 DEF Crash
  <2>4. faults' # 0
    BY <1>22, <1>0 DEF Crash
  <2>5. UNCHANGED <<redisVars, keyboards, on, verb, outcome, reply, effectVars>>
    BY <1>22 DEF Crash
  <2>6. DecidedMeansClaimed' /\ EnvelopeOfGated'
    BY <2>3, <2>5, <1>0
  <2>7. TapsAimed'
    BY <2>1, <2>2, <2>5, <1>0
  <2>8. OneWinner' /\ WinnerRuns'
    BY <2>1, <2>5, <1>0
  <2>9. AttemptsMeanDecided' /\ VerdictsOfWinner'
    BY <2>3, <2>5, <1>0
  <2>10. RowsKept' /\ DroppedOnlyByFault'
    BY <2>4
  <2> QED
    BY <2>6, <2>7, <2>8, <2>9, <2>10
<1>23. CASE UNCHANGED vars
  BY <1>23, <1>0 DEF vars
<1> QED
  BY <1>1, <1>2, <1>3, <1>4, <1>5, <1>6, <1>7, <1>8, <1>9, <1>10, <1>11, <1>12,
     <1>13, <1>14, <1>15, <1>16, <1>17, <1>18, <1>19, <1>20, <1>21, <1>22, <1>23
  DEF Next, CommandStep, TapStep

\* IInv is kept by every step.
LEMMA InductiveStep == IInv /\ [Next]_vars => IInv'
BY TypeStep, BookkeepingStep DEF IInv

\* IInv holds initially.
LEMMA InitIInv == Init => IInv
<1> SUFFICES ASSUME Init PROVE IInv
  OBVIOUS
<1>1. TypeOK
  <2>1. /\ scriptCached \in BOOLEAN
        /\ claimSha \in BOOLEAN
        /\ keyboards \subseteq Gated
    BY DEF Init
  <2>2. faults \in 0..MaxFaults
    BY MaxFaultsAssumption DEF Init
  <2>3. attempts \in [Proposals -> Nat] /\ performed \in [Proposals -> Nat]
    BY DEF Init
  <2> QED
    BY <2>1, <2>2, <2>3 DEF Init, TypeOK
<1>2. DecidedMeansClaimed /\ EnvelopeOfGated /\ RowsKept
  BY DEF Init, DecidedMeansClaimed, EnvelopeOfGated, RowsKept
<1>3. TapsAimed /\ OneWinner /\ WinnerRuns /\ VerdictsOfWinner
  BY DEF Init, TapsAimed, OneWinner, WinnerRuns, VerdictsOfWinner, Verdicts
<1>4. AttemptsMeanDecided
  <2>1. \A p \in Proposals : attempts[p] = 0 /\ performed[p] = 0
    BY DEF Init
  <2> QED
    BY <2>1, GatedAssumption DEF AttemptsMeanDecided, AtMostOnce, OnlyApprovedRuns
<1>5. DroppedOnlyByFault
  BY DEF Init, DroppedOnlyByFault
<1> QED
  BY <1>1, <1>2, <1>3, <1>4, <1>5 DEF IInv, Bookkeeping

\* The inductive invariant holds in every reachable state.
THEOREM Invariance == Spec => []IInv
BY InitIInv, InductiveStep, PTL DEF Spec

-----------------------------------------------------------------------------
(* What follows from it.                                                   *)

\* Every variable of the approval keeps its type.
THEOREM TypeCorrect == Spec => []TypeOK
<1>1. IInv => TypeOK
  BY DEF IInv
<1> QED
  BY <1>1, Invariance, PTL

\* No command reaches its agent twice, whatever the number of taps, users,
\* lost answers and crashes.
THEOREM AtMostOnceHolds == Spec => []AtMostOnce
<1>1. IInv => AtMostOnce
  BY DEF IInv, Bookkeeping, AttemptsMeanDecided
<1> QED
  BY <1>1, Invariance, PTL

\* No gated command reaches its agent without an approve that took the claim.
THEOREM OnlyApprovedRunsHolds == Spec => []OnlyApprovedRuns
<1>1. IInv => OnlyApprovedRuns
  BY DEF IInv, Bookkeeping, AttemptsMeanDecided
<1> QED
  BY <1>1, Invariance, PTL

\* At most one tap of a command is told a verdict, and the verdict is true.
THEOREM OneTrueVerdictHolds == Spec => []OneTrueVerdict
<1>1. IInv => OneTrueVerdict
  BY NoProposalAssumption, GatedAssumption
     DEF IInv, TypeOK, Bookkeeping, OneTrueVerdict, OneWinner, VerdictsOfWinner,
         AttemptsMeanDecided, OnlyApprovedRuns, Verdicts
<1> QED
  BY <1>1, Invariance, PTL

\* Without faults no approval is dropped.
THEOREM DroppedOnlyByFaultHolds == Spec => []DroppedOnlyByFault
<1>1. IInv => DroppedOnlyByFault
  BY DEF IInv, Bookkeeping
<1> QED
  BY <1>1, Invariance, PTL
-----------------------------------------------------------------------------
(* A decision is final.                                                    *)

\* What RunClaimScript does to the decision of any command.
LEMMA ScriptDecides ==
  ASSUME IInv, NEW t \in Taps, NEW p \in Proposals,
         RunClaimScript(on[t], verb[t]), decision'[p] # decision[p]
  PROVE  /\ p = on[t]
         /\ decision[p] = "none"
         /\ envelope[p] = "live"
         /\ decision'[p] = verb[t]
BY DEF IInv, TypeOK, Bookkeeping, DecidedMeansClaimed, RunClaimScript, ClaimOutcome

\* A decision is taken once, of a live envelope, and never replaced.
THEOREM DecisionIsFinalHolds == Spec => DecisionIsFinal
<1> DEFINE Final ==
      \A p \in Proposals :
        decision'[p] # decision[p] => decision[p] = "none" /\ envelope[p] = "live"
<1>1. IInv /\ [Next]_vars => [Final]_<<decision, envelope>>
  <2> SUFFICES ASSUME IInv, [Next]_vars PROVE Final
    OBVIOUS
  <2>1. CASE \E t \in Taps : EvalClaim(t) \/ EvalAnswerLost(t)
    BY <2>1, ScriptDecides DEF EvalClaim, EvalAnswerLost
  <2>2. CASE ~\E t \in Taps : EvalClaim(t) \/ EvalAnswerLost(t)
    <3>1. UNCHANGED decision
      BY <2>2
      DEF Next, CommandStep, TapStep, vars, Propose, StoreEnvelope,
          StoreEnvelopeFails, SendKeyboard, SendKeyboardFails, UngatedReturns,
          TapArrives, TapUnparsable, LoadScript, NoScript, RedisFails,
          AnswerLoser, ReadClaim, Route, RouteReturns, Perform, EnvelopeLapses,
          ClaimRowLapses, FlushScripts, Crash
    <3> QED
      BY <3>1
  <2> QED
    BY <2>1, <2>2
<1> QED
  BY <1>1, Invariance, PTL DEF Spec, DecisionIsFinal

-----------------------------------------------------------------------------
(* Approval implements OneShotAction.                                      *)

\* A step that moves one command's status and has no effect outside.
LEMMA MoveMaps ==
  ASSUME NEW p \in Proposals, NEW from, NEW to,
         Status(p) = from, Status(p)' = to,
         \A q \in Proposals \ {p} : Status(q)' = Status(q),
         UNCHANGED performed
  PROVE  OneShot!Move(p, from, to)
BY DEF OneShot!Move

\* A step that changes nothing Status looks at is a stutter.
LEMMA StutterMaps ==
  ASSUME UNCHANGED <<envelope, decision, attempts, performed>>
  PROVE  UNCHANGED OneShot!vars
BY DEF OneShot!vars, Status

\* Evaluating the script approves, rejects, or changes nothing.
LEMMA ScriptMaps ==
  ASSUME IInv, NEW t \in Taps, Evaluating(t), RunClaimScript(on[t], verb[t]),
         UNCHANGED <<attempts, performed>>
  PROVE  [OneShot!Next]_OneShot!vars
<1> USE DEF IInv, TypeOK, Bookkeeping
<1>1. CASE ClaimOutcome(on[t]) # "taken"
  <2>1. UNCHANGED <<envelope, decision>>
    BY <1>1 DEF RunClaimScript
  <2> QED
    BY <2>1, StutterMaps
<1>2. CASE ClaimOutcome(on[t]) = "taken"
  <2>0. on[t] \in Gated /\ verb[t] \in Verbs
    BY DEF TapsAimed, Evaluating
  <2> PICK p \in Proposals : p = on[t]
    BY <2>0, GatedAssumption
  <2>1. p \in Proposals /\ p \in Gated /\ verb[t] \in Verbs
    BY <2>0
  <2>2. envelope[p] = "live" /\ decision[p] = "none"
    BY <1>2, <2>1 DEF ClaimOutcome, DecidedMeansClaimed
  <2>3. attempts[p] = 0
    BY <2>1, <2>2 DEF AttemptsMeanDecided, OnlyApprovedRuns
  <2>4. /\ decision' = [decision EXCEPT ![p] = verb[t]]
        /\ envelope' = [envelope EXCEPT ![p] = "claimed"]
    BY <1>2 DEF RunClaimScript
  <2>5. Status(p) = "pending"
    BY <2>1, <2>2, <2>3 DEF Status
  <2>6. Status(p)' = IF verb[t] = "approve" THEN "approved" ELSE "rejected"
    BY <2>1, <2>3, <2>4 DEF Status
  <2>7. \A q \in Proposals \ {p} : Status(q)' = Status(q)
    BY <2>4 DEF Status
  <2>8. OneShot!Approve(p) \/ OneShot!Reject(p)
    BY <2>1, <2>5, <2>6, <2>7, MoveMaps DEF OneShot!Approve, OneShot!Reject
  <2> QED
    BY <2>1, <2>8 DEF OneShot!Next, OneShot!Step
<1> QED
  BY <1>1, <1>2

\* Every step of Approval is a step of OneShotAction or a stutter.
LEMMA StepMaps ==
  IInv /\ IInv' /\ [Next]_vars => [OneShot!Next]_OneShot!vars
<1> SUFFICES ASSUME IInv, IInv', [Next]_vars
             PROVE  [OneShot!Next]_OneShot!vars
  OBVIOUS
<1> USE DEF OneShot!Next, OneShot!Step
<1>0. TypeOK /\ Bookkeeping
  BY DEF IInv
<1>1. ASSUME NEW p \in Proposals, Propose(p) PROVE [OneShot!Next]_OneShot!vars
  <2>1. CASE p \in Gated
    BY <1>1, <2>1, StutterMaps DEF Propose
  <2>2. CASE p \notin Gated
    <3>1. attempts[p] = 0 /\ attempts' = [attempts EXCEPT ![p] = 1]
      BY <1>0, <1>1, <2>2 DEF Propose, Bookkeeping, AttemptsMeanDecided
    <3>2. envelope[p] = "absent" /\ decision[p] = "none"
      BY <1>0, <1>1 DEF Propose, TypeOK, Bookkeeping, EnvelopeOfGated,
                        DecidedMeansClaimed
    <3>3. UNCHANGED <<envelope, decision, performed>>
      BY <1>1 DEF Propose
    <3>4. Status(p) = "unseen"
      BY <3>1, <3>2 DEF Status
    <3>5. Status(p)' = "issued"
      BY <1>0, <3>1 DEF Status, TypeOK
    <3>6. \A q \in Proposals \ {p} : Status(q)' = Status(q)
      BY <3>1, <3>3 DEF Status
    <3>7. OneShot!IssueUngated(p)
      BY <2>2, <3>3, <3>4, <3>5, <3>6, MoveMaps DEF OneShot!IssueUngated
    <3> QED
      BY <3>7
  <2> QED
    BY <2>1, <2>2
<1>2. ASSUME NEW p \in Proposals, StoreEnvelope(p) \/ StoreEnvelopeFails(p)
      PROVE  [OneShot!Next]_OneShot!vars
  <2>1. UNCHANGED <<decision, attempts, performed>> /\ cmd[p] = "storing"
    BY <1>2 DEF StoreEnvelope, StoreEnvelopeFails
  <2>2. p \in Gated /\ envelope[p] = "absent" /\ decision[p] = "none"
    BY <1>0, <2>1 DEF TypeOK, Bookkeeping, EnvelopeOfGated, DecidedMeansClaimed
  <2>3. attempts[p] = 0
    BY <1>0, <2>2 DEF TypeOK, Bookkeeping, AttemptsMeanDecided, OnlyApprovedRuns
  <2>4. CASE envelope' = [envelope EXCEPT ![p] = "live"]
    <3>1. Status(p) = "unseen"
      BY <2>2, <2>3 DEF Status
    <3>2. Status(p)' = "pending"
      BY <1>0, <2>1, <2>2, <2>3, <2>4 DEF Status, TypeOK
    <3>3. \A q \in Proposals \ {p} : Status(q)' = Status(q)
      BY <2>1, <2>4 DEF Status
    <3>4. OneShot!Offer(p)
      BY <2>1, <2>2, <3>1, <3>2, <3>3, MoveMaps DEF OneShot!Offer
    <3> QED
      BY <3>4
  <2>5. CASE envelope' = [envelope EXCEPT ![p] = "absent"]
    <3>1. envelope' = envelope
      BY <1>0, <2>2, <2>5 DEF TypeOK
    <3> QED
      BY <2>1, <3>1, StutterMaps
  <2> QED
    BY <1>2, <2>4, <2>5 DEF StoreEnvelope, StoreEnvelopeFails
<1>3. ASSUME NEW t \in Taps, EvalClaim(t) \/ EvalAnswerLost(t)
      PROVE  [OneShot!Next]_OneShot!vars
  BY <1>3, ScriptMaps DEF EvalClaim, EvalAnswerLost
<1>4. ASSUME NEW t \in Taps, Route(t) PROVE [OneShot!Next]_OneShot!vars
  <2>1. pc[t] = "approved" /\ outcome[t] = "taken" /\ verb[t] = "approve"
    BY <1>0, <1>4 DEF Route, Bookkeeping, WinnerRuns
  <2> PICK p \in Proposals : p = on[t]
    BY <1>0, <2>1, GatedAssumption DEF Bookkeeping, OneWinner
  <2>2. decision[p] = "approve" /\ attempts[p] = 0
    BY <1>0, <2>1, GatedAssumption DEF Bookkeeping, OneWinner, WinnerRuns
  <2>3. /\ attempts' = [attempts EXCEPT ![p] = 1]
        /\ UNCHANGED <<envelope, decision, performed>>
    BY <1>4, <2>2 DEF Route
  <2>4. Status(p) = "approved"
    BY <2>2 DEF Status
  <2>5. Status(p)' = "issued"
    BY <1>0, <2>2, <2>3 DEF Status, TypeOK
  <2>6. \A q \in Proposals \ {p} : Status(q)' = Status(q)
    BY <2>3 DEF Status
  <2>7. OneShot!IssueApproved(p)
    BY <2>2, <2>3, <2>4, <2>5, <2>6, MoveMaps DEF OneShot!IssueApproved
  <2> QED
    BY <2>2, <2>7
<1>5. ASSUME NEW p \in Proposals, Perform(p) PROVE [OneShot!Next]_OneShot!vars
  <2>1. UNCHANGED <<envelope, decision, attempts>>
    BY <1>5 DEF Perform
  <2>2. attempts[p] = 1 /\ performed[p] = 0
    BY <1>0, <1>5 DEF Perform, TypeOK, Bookkeeping, AttemptsMeanDecided, AtMostOnce
  <2>3. performed' = [performed EXCEPT ![p] = 1]
    BY <1>5, <2>2 DEF Perform
  <2>4. \A q \in Proposals : Status(q)' = Status(q)
    BY <2>1 DEF Status
  <2>5. Status(p) = "issued"
    BY <2>2 DEF Status
  <2>6. OneShot!Effect(p)
    BY <2>2, <2>3, <2>4, <2>5 DEF OneShot!Effect
  <2> QED
    BY <2>6
<1>6. ASSUME NEW p \in Proposals, EnvelopeLapses(p)
      PROVE  [OneShot!Next]_OneShot!vars
  <2>1. /\ envelope[p] = "live"
        /\ envelope' = [envelope EXCEPT ![p] = "lapsed"]
        /\ UNCHANGED <<decision, attempts, performed>>
    BY <1>6 DEF EnvelopeLapses
  <2>2. p \in Gated /\ decision[p] = "none"
    BY <1>0, <2>1 DEF TypeOK, Bookkeeping, DecidedMeansClaimed, EnvelopeOfGated
  <2>3. attempts[p] = 0
    BY <1>0, <2>2 DEF TypeOK, Bookkeeping, AttemptsMeanDecided, OnlyApprovedRuns
  <2>4. Status(p) = "pending"
    BY <2>1, <2>2, <2>3 DEF Status
  <2>5. Status(p)' = "lapsed"
    BY <1>0, <2>1, <2>2, <2>3 DEF Status, TypeOK
  <2>6. \A q \in Proposals \ {p} : Status(q)' = Status(q)
    BY <2>1 DEF Status
  <2>7. OneShot!Lapse(p)
    BY <2>1, <2>4, <2>5, <2>6, MoveMaps DEF OneShot!Lapse
  <2> QED
    BY <2>7
<1>7. CASE UNCHANGED <<envelope, decision, attempts, performed>>
  BY <1>7, StutterMaps
<1>8. \/ \E p \in Proposals : \/ Propose(p) \/ StoreEnvelope(p)
                             \/ StoreEnvelopeFails(p) \/ Perform(p)
                             \/ EnvelopeLapses(p)
      \/ \E t \in Taps : EvalClaim(t) \/ EvalAnswerLost(t) \/ Route(t)
      \/ UNCHANGED <<envelope, decision, attempts, performed>>
  BY DEF Next, CommandStep, TapStep, vars, SendKeyboard, SendKeyboardFails,
         UngatedReturns, TapArrives, TapUnparsable, LoadScript, NoScript,
         RedisFails, AnswerLoser, ReadClaim, RouteReturns, ClaimRowLapses,
         FlushScripts, Crash
<1> QED
  BY <1>1, <1>2, <1>3, <1>4, <1>5, <1>6, <1>7, <1>8

\* Approval keeps the promise of OneShotAction: with any number of taps, lost
\* answers and crashes, a command moves only along the abstract life cycle and
\* takes effect at most once.
THEOREM PromiseKept == Spec => Promise
<1>1. Init => OneShot!Init
  BY DEF Init, Status, OneShot!Init
<1> QED
  BY <1>1, StepMaps, Invariance, PTL DEF Spec, Promise, OneShot!Spec
=============================================================================
