------------------------------ MODULE Approval ------------------------------
(***************************************************************************)
(* Human-in-the-loop approval of write commands.                           *)
(*                                                                         *)
(* A user sends /task or /ops; TaskHandler or OpsCommandHandler proposes   *)
(* the command, stores an envelope with a TTL in Redis and shows an inline *)
(* keyboard.  Every tap on the keyboard is a callback update, handled by   *)
(* ApprovalCallbackHandler: it claims the envelope with one Lua script and *)
(* routes the command to its agent when the claim was taken by an approve. *)
(*                                                                         *)
(* The webhook acknowledges an update before it is handled and handlers    *)
(* run concurrently in one Node process, so they interleave at every       *)
(* await.  Redis commands can be answered, fail, or be carried out with    *)
(* the answer lost (ioredis then sends them again); the process can crash, *)
(* which forgets every handler; Redis can drop its script cache.           *)
(* Stored keys of Redis survive: the model assumes a durable Redis.        *)
(***************************************************************************)
EXTENDS Naturals

CONSTANTS
  Proposals,    \* the write commands users send, each its own pending id
  Gated,        \* those decideApproval answers requiresApproval for
  Taps,         \* the callback updates Telegram delivers, duplicates included
  NoProposal,   \* the target of a tap that has not arrived
  MaxFaults     \* bound on failed commands, lost answers, flushes and crashes

ASSUME GatedAssumption == Gated \subseteq Proposals
ASSUME NoProposalAssumption == NoProposal \notin Proposals
ASSUME MaxFaultsAssumption == MaxFaults \in Nat

VARIABLES
  cmd,           \* where the handler of each command is
  envelope,      \* key approval:<id>; only "live" is present in Redis
  claimRow,      \* key approval:claim:<id>, with the verb it records
  decision,      \* history: the verb a claim was taken with
  keyboards,     \* the commands whose keyboard the user can tap
  scriptCached,  \* Redis has the claim script
  claimSha,      \* the process remembers the SHA of the claim script
  pc,            \* where the handler of each tap is
  on,            \* the command each tap is about
  verb,          \* the button each tap pressed
  outcome,       \* what the claim answered
  reply,         \* what the user is told after the tap
  attempts,      \* how often each command was routed to its agent
  performed,     \* how often Muneral or Ops Bot carried it out (external)
  faults         \* faults so far

redisVars == <<envelope, claimRow, decision, scriptCached>>
tapVars == <<pc, on, verb, outcome, reply>>
effectVars == <<attempts, performed>>
vars == <<cmd, envelope, claimRow, decision, keyboards, scriptCached, claimSha,
          pc, on, verb, outcome, reply, attempts, performed, faults>>

Verbs == {"approve", "reject"}

\* Where a command's handler is between two awaits.
CmdStates == {"idle", "storing", "keyboard", "routing", "done", "failed", "lost"}

\* Where a tap's handler is between two awaits.
TapStates == {"idle", "loading", "evalsha", "reloading", "evalshaAgain",
              "mapping", "approved", "routing", "done", "lost"}

EnvelopeStates == {"absent", "live", "lapsed", "claimed"}

Outcomes == {"none", "taken", "already", "expired"}

Replies == {"none", "invalid", "expired", "already", "rejected", "nodata",
            "executed", "notExecuted", "error"}

Init ==
  /\ cmd = [p \in Proposals |-> "idle"]
  /\ envelope = [p \in Proposals |-> "absent"]
  /\ claimRow = [p \in Proposals |-> "none"]
  /\ decision = [p \in Proposals |-> "none"]
  /\ keyboards = {}
  /\ scriptCached = FALSE
  /\ claimSha = FALSE
  /\ pc = [t \in Taps |-> "idle"]
  /\ on = [t \in Taps |-> NoProposal]
  /\ verb = [t \in Taps |-> "none"]
  /\ outcome = [t \in Taps |-> "none"]
  /\ reply = [t \in Taps |-> "none"]
  /\ attempts = [p \in Proposals |-> 0]
  /\ performed = [p \in Proposals |-> 0]
  /\ faults = 0

\* Every failure the environment causes spends one of MaxFaults.
Fault ==
  /\ faults < MaxFaults
  /\ faults' = faults + 1

GoesTo(t, from, to) ==
  /\ pc[t] = from
  /\ pc' = [pc EXCEPT ![t] = to]

-----------------------------------------------------------------------------
(* The command handlers: propose, then show the keyboard.                  *)

\* Mutant of Propose: the policy is not asked, every command gets a keyboard.
ProposeAlwaysAsks(p) ==
  /\ cmd[p] = "idle"
  /\ cmd' = [cmd EXCEPT ![p] = "storing"]
  /\ UNCHANGED <<redisVars, tapVars, keyboards, claimSha, effectVars, faults>>

\* ApprovalService.propose: a gated command goes on to store its envelope, an
\* ungated one is routed to its agent at once.
Propose(p) ==
  /\ cmd[p] = "idle"
  /\ IF p \in Gated
     THEN /\ cmd' = [cmd EXCEPT ![p] = "storing"]
          /\ UNCHANGED attempts
     ELSE /\ cmd' = [cmd EXCEPT ![p] = "routing"]
          /\ attempts' = [attempts EXCEPT ![p] = @ + 1]
  /\ UNCHANGED <<redisVars, tapVars, keyboards, claimSha, performed, faults>>

\* createEnvelope: SET approval:<id> EX ttl.
StoreEnvelope(p) ==
  /\ cmd[p] = "storing"
  /\ cmd' = [cmd EXCEPT ![p] = "keyboard"]
  /\ envelope' = [envelope EXCEPT ![p] = "live"]
  /\ UNCHANGED <<claimRow, decision, scriptCached, tapVars, keyboards, claimSha,
                 effectVars, faults>>

\* The SET rejects, carried out or not: the user reads "try later".
StoreEnvelopeFails(p) ==
  /\ cmd[p] = "storing"
  /\ Fault
  /\ cmd' = [cmd EXCEPT ![p] = "failed"]
  /\ \E stored \in {"absent", "live"} :
        envelope' = [envelope EXCEPT ![p] = stored]
  /\ UNCHANGED <<claimRow, decision, scriptCached, tapVars, keyboards, claimSha,
                 effectVars>>

\* sendMessageWithKeyboard; the keyboard is never edited away later.
SendKeyboard(p) ==
  /\ cmd[p] = "keyboard"
  /\ cmd' = [cmd EXCEPT ![p] = "done"]
  /\ keyboards' = keyboards \union {p}
  /\ UNCHANGED <<redisVars, tapVars, claimSha, effectVars, faults>>

\* The send rejects, delivered or not.  The envelope stays in Redis.
SendKeyboardFails(p) ==
  /\ cmd[p] = "keyboard"
  /\ Fault
  /\ cmd' = [cmd EXCEPT ![p] = "failed"]
  /\ keyboards' \in {keyboards, keyboards \union {p}}
  /\ UNCHANGED <<redisVars, tapVars, claimSha, effectVars>>

\* An ungated command's agent answers, or its client gives up.
UngatedReturns(p) ==
  /\ cmd[p] = "routing"
  /\ \/ /\ performed[p] = attempts[p]
        /\ cmd' = [cmd EXCEPT ![p] = "done"]
     \/ cmd' = [cmd EXCEPT ![p] = "failed"]
  /\ UNCHANGED <<redisVars, tapVars, keyboards, claimSha, effectVars, faults>>

-----------------------------------------------------------------------------
(* The callback handler, up to the claim.                                  *)

\* A callback update with a button of ours: parse it and start the claim,
\* loading the script first when the process has no SHA yet.
TapArrives(t, p, v) ==
  /\ p \in keyboards
  /\ GoesTo(t, "idle", IF claimSha THEN "evalsha" ELSE "loading")
  /\ on' = [on EXCEPT ![t] = p]
  /\ verb' = [verb EXCEPT ![t] = v]
  /\ UNCHANGED <<cmd, redisVars, keyboards, claimSha, outcome, reply, effectVars,
                 faults>>

\* A callback update parseApprovalCallback refuses is acknowledged, no more.
TapUnparsable(t) ==
  /\ GoesTo(t, "idle", "done")
  /\ reply' = [reply EXCEPT ![t] = "invalid"]
  /\ UNCHANGED <<cmd, redisVars, keyboards, claimSha, on, verb, outcome,
                 effectVars, faults>>

\* SCRIPT LOAD, the first time or after NOSCRIPT.
LoadScript(t) ==
  /\ \/ GoesTo(t, "loading", "evalsha")
     \/ GoesTo(t, "reloading", "evalshaAgain")
  /\ scriptCached' = TRUE
  /\ claimSha' = TRUE
  /\ UNCHANGED <<cmd, envelope, claimRow, decision, keyboards, on, verb, outcome,
                 reply, effectVars, faults>>

\* Mutant of ClaimOutcome: a second claim gets the answer of the first.
ClaimOutcomeRepeats(p) ==
  IF envelope[p] = "live" \/ claimRow[p] # "none" THEN "taken" ELSE "expired"

\* Mutant of ClaimOutcome: only the claim row is looked at.
ClaimOutcomeByRow(p) == IF claimRow[p] # "none" THEN "already" ELSE "taken"

\* What the Lua script answers for p.
ClaimOutcome(p) ==
  IF envelope[p] # "live" THEN "expired"
  ELSE IF claimRow[p] # "none" THEN "already"
  ELSE "taken"

\* What the Lua script writes: the claim row with SET, then DEL of the envelope.
RunClaimScript(p, v) ==
  IF ClaimOutcome(p) = "taken"
  THEN /\ claimRow' = [claimRow EXCEPT ![p] = v]
       /\ decision' = [decision EXCEPT ![p] = v]
       /\ envelope' = [envelope EXCEPT ![p] = "claimed"]
  ELSE UNCHANGED <<claimRow, decision, envelope>>

Evaluating(t) == pc[t] \in {"evalsha", "evalshaAgain"}

\* EVALSHA finds the script, runs it as one step of Redis, and answers.
EvalClaim(t) ==
  /\ Evaluating(t)
  /\ scriptCached
  /\ RunClaimScript(on[t], verb[t])
  /\ outcome' = [outcome EXCEPT ![t] = ClaimOutcome(on[t])]
  /\ pc' = [pc EXCEPT ![t] = "mapping"]
  /\ UNCHANGED <<cmd, keyboards, scriptCached, claimSha, on, verb, reply,
                 effectVars, faults>>

\* The script runs and the connection drops before its answer: ioredis sends
\* EVALSHA again on the next connection, or the call rejects.
EvalAnswerLost(t) ==
  /\ Evaluating(t)
  /\ scriptCached
  /\ Fault
  /\ RunClaimScript(on[t], verb[t])
  /\ \/ UNCHANGED <<pc, reply>>
     \/ /\ pc' = [pc EXCEPT ![t] = "done"]
        /\ reply' = [reply EXCEPT ![t] = "error"]
  /\ UNCHANGED <<cmd, keyboards, scriptCached, claimSha, on, verb, outcome,
                 effectVars>>

\* Mutant of NoScript: nothing handles a second NOSCRIPT.
NoScriptOnce(t) ==
  /\ ~scriptCached
  /\ GoesTo(t, "evalsha", "reloading")
  /\ UNCHANGED <<cmd, redisVars, keyboards, claimSha, on, verb, outcome, reply,
                 effectVars, faults>>

\* NOSCRIPT: reload and try once more; the second NOSCRIPT is thrown.
NoScript(t) ==
  /\ ~scriptCached
  /\ \/ GoesTo(t, "evalsha", "reloading") /\ UNCHANGED reply
     \/ /\ GoesTo(t, "evalshaAgain", "done")
        /\ reply' = [reply EXCEPT ![t] = "error"]
  /\ UNCHANGED <<cmd, redisVars, keyboards, claimSha, on, verb, outcome,
                 effectVars, faults>>

\* Any Redis command of the claim rejects without having been carried out.
RedisFails(t) ==
  /\ \/ pc[t] \in {"loading", "evalsha", "reloading", "evalshaAgain"}
     \/ pc[t] = "mapping" /\ outcome[t] = "taken"
  /\ Fault
  /\ pc' = [pc EXCEPT ![t] = "done"]
  /\ reply' = [reply EXCEPT ![t] = "error"]
  /\ UNCHANGED <<cmd, redisVars, keyboards, claimSha, on, verb, outcome,
                 effectVars>>

-----------------------------------------------------------------------------
(* The callback handler, after the claim.                                  *)

\* A tap that did not win the claim is told so.
AnswerLoser(t) ==
  /\ outcome[t] \in {"expired", "already"}
  /\ GoesTo(t, "mapping", "done")
  /\ reply' = [reply EXCEPT ![t] = outcome[t]]
  /\ UNCHANGED <<cmd, redisVars, keyboards, claimSha, on, verb, outcome,
                 effectVars, faults>>

\* Mutant of ReadClaim: the verb of the button is not looked at.
ReadClaimIgnoresVerb(t) ==
  /\ outcome[t] = "taken"
  /\ GoesTo(t, "mapping", "approved")
  /\ UNCHANGED <<cmd, redisVars, keyboards, claimSha, on, verb, outcome, reply,
                 effectVars, faults>>

\* Mutant of ReadClaim: the payload is looked up under the envelope's key.
ReadClaimFromEnvelope(t) ==
  /\ outcome[t] = "taken"
  /\ IF verb[t] = "approve" /\ envelope[on[t]] = "live"
     THEN GoesTo(t, "mapping", "approved") /\ UNCHANGED reply
     ELSE /\ GoesTo(t, "mapping", "done")
          /\ reply' = [reply EXCEPT
                          ![t] = IF verb[t] = "reject" THEN "rejected" ELSE "nodata"]
  /\ UNCHANGED <<cmd, redisVars, keyboards, claimSha, on, verb, outcome,
                 effectVars, faults>>

\* The winner reads the claim row back for the envelope in it.  A reject ends
\* there; so does an approve whose row is gone; any other approve goes on.
ReadClaim(t) ==
  /\ outcome[t] = "taken"
  /\ \/ /\ verb[t] = "reject"
        /\ GoesTo(t, "mapping", "done")
        /\ reply' = [reply EXCEPT ![t] = "rejected"]
     \/ /\ verb[t] = "approve"
        /\ claimRow[on[t]] = "none"
        /\ GoesTo(t, "mapping", "done")
        /\ reply' = [reply EXCEPT ![t] = "nodata"]
     \/ /\ verb[t] = "approve"
        /\ claimRow[on[t]] # "none"
        /\ GoesTo(t, "mapping", "approved")
        /\ UNCHANGED reply
  /\ UNCHANGED <<cmd, redisVars, keyboards, claimSha, on, verb, outcome,
                 effectVars, faults>>

\* After the acknowledgement, OrchestratorService.route calls the agent.
Route(t) ==
  /\ GoesTo(t, "approved", "routing")
  /\ attempts' = [attempts EXCEPT ![on[t]] = @ + 1]
  /\ UNCHANGED <<cmd, redisVars, keyboards, claimSha, on, verb, outcome, reply,
                 performed, faults>>

\* Mutant of RouteReturns: whatever comes back is rendered as success.
RouteReturnsOptimistic(t) ==
  /\ GoesTo(t, "routing", "done")
  /\ reply' = [reply EXCEPT ![t] = "executed"]
  /\ UNCHANGED <<cmd, redisVars, keyboards, claimSha, on, verb, outcome,
                 effectVars, faults>>

\* Mutant of RouteReturns: a failed write is sent again.
RouteReturnsRetries(t) ==
  /\ \/ /\ GoesTo(t, "routing", "done")
        /\ performed[on[t]] = attempts[on[t]]
        /\ reply' = [reply EXCEPT ![t] = "executed"]
     \/ /\ GoesTo(t, "routing", "approved")
        /\ attempts[on[t]] < 3
        /\ UNCHANGED reply
  /\ UNCHANGED <<cmd, redisVars, keyboards, claimSha, on, verb, outcome,
                 effectVars, faults>>

\* The agent reports success, or a failure: refused, unavailable, timed out.
RouteReturns(t) ==
  /\ GoesTo(t, "routing", "done")
  /\ \/ /\ performed[on[t]] = attempts[on[t]]
        /\ reply' = [reply EXCEPT ![t] = "executed"]
     \/ reply' = [reply EXCEPT ![t] = "notExecuted"]
  /\ UNCHANGED <<cmd, redisVars, keyboards, claimSha, on, verb, outcome,
                 effectVars, faults>>

-----------------------------------------------------------------------------
(* The environment: Muneral and Ops Bot, key expiry, faults.               *)

\* The outside system carries out a request it was sent, possibly after the
\* client gave up on it or the process died.  No client sends a write twice.
Perform(p) ==
  /\ performed[p] < attempts[p]
  /\ performed' = [performed EXCEPT ![p] = @ + 1]
  /\ UNCHANGED <<cmd, redisVars, keyboards, claimSha, tapVars, attempts, faults>>

\* The TTL of an undecided envelope runs out.
EnvelopeLapses(p) ==
  /\ envelope[p] = "live"
  /\ envelope' = [envelope EXCEPT ![p] = "lapsed"]
  /\ UNCHANGED <<cmd, claimRow, decision, keyboards, scriptCached, claimSha,
                 tapVars, effectVars, faults>>

\* The 24 hours of a claim row run out.  Envelopes live one hour at most, so
\* none written before the row can be left.
ClaimRowLapses(p) ==
  /\ claimRow[p] # "none"
  /\ envelope[p] # "live"
  /\ Fault
  /\ claimRow' = [claimRow EXCEPT ![p] = "none"]
  /\ UNCHANGED <<cmd, envelope, decision, keyboards, scriptCached, claimSha,
                 tapVars, effectVars>>

\* SCRIPT FLUSH, or a Redis restart: the script cache is empty again.
FlushScripts ==
  /\ scriptCached
  /\ Fault
  /\ scriptCached' = FALSE
  /\ UNCHANGED <<cmd, envelope, claimRow, decision, keyboards, claimSha, tapVars,
                 effectVars>>

\* The process dies and is started again.  Telegram was answered 200 before
\* the handlers ran, so it sends none of their updates again.
Crash ==
  /\ Fault
  /\ cmd' = [p \in Proposals |->
               IF cmd[p] \in {"storing", "keyboard", "routing"} THEN "lost"
               ELSE cmd[p]]
  /\ pc' = [t \in Taps |-> IF pc[t] \in {"idle", "done"} THEN pc[t] ELSE "lost"]
  /\ claimSha' = FALSE
  /\ UNCHANGED <<redisVars, keyboards, on, verb, outcome, reply, effectVars>>

-----------------------------------------------------------------------------
CommandStep(p) ==
  \/ Propose(p)
  \/ StoreEnvelope(p)
  \/ StoreEnvelopeFails(p)
  \/ SendKeyboard(p)
  \/ SendKeyboardFails(p)
  \/ UngatedReturns(p)

TapStep(t) ==
  \/ \E p \in Proposals, v \in Verbs : TapArrives(t, p, v)
  \/ TapUnparsable(t)
  \/ LoadScript(t)
  \/ EvalClaim(t)
  \/ EvalAnswerLost(t)
  \/ NoScript(t)
  \/ RedisFails(t)
  \/ AnswerLoser(t)
  \/ ReadClaim(t)
  \/ Route(t)
  \/ RouteReturns(t)

Next ==
  \/ \E p \in Proposals : CommandStep(p)
  \/ \E t \in Taps : TapStep(t)
  \/ \E p \in Proposals : Perform(p) \/ EnvelopeLapses(p) \/ ClaimRowLapses(p)
  \/ FlushScripts
  \/ Crash

\* Safety only: nothing has to happen.
Spec == Init /\ [][Next]_vars

\* While the process lives, its event loop resumes every handler whose await
\* has settled, and every await settles: Redis answers or rejects, the agents'
\* clients time out.  Users, Muneral, Ops Bot, expiry and faults owe nothing.
HandlerFairness ==
  /\ \A p \in Proposals :
        WF_vars(StoreEnvelope(p) \/ SendKeyboard(p) \/ UngatedReturns(p))
  /\ \A t \in Taps :
        WF_vars(LoadScript(t) \/ EvalClaim(t) \/ NoScript(t) \/ AnswerLoser(t)
                \/ ReadClaim(t) \/ Route(t) \/ RouteReturns(t))

FairSpec == Spec /\ HandlerFairness

-----------------------------------------------------------------------------
(* Properties.                                                             *)

\* The shape of every variable; only gated commands are asked about.
TypeOK ==
  /\ cmd \in [Proposals -> CmdStates]
  /\ \A p \in Proposals : cmd[p] \in {"storing", "keyboard"} => p \in Gated
  /\ envelope \in [Proposals -> EnvelopeStates]
  /\ claimRow \in [Proposals -> Verbs \union {"none"}]
  /\ decision \in [Proposals -> Verbs \union {"none"}]
  /\ keyboards \subseteq Gated
  /\ scriptCached \in BOOLEAN
  /\ claimSha \in BOOLEAN
  /\ pc \in [Taps -> TapStates]
  /\ on \in [Taps -> Proposals \union {NoProposal}]
  /\ verb \in [Taps -> Verbs \union {"none"}]
  /\ outcome \in [Taps -> Outcomes]
  /\ reply \in [Taps -> Replies]
  /\ attempts \in [Proposals -> Nat]
  /\ performed \in [Proposals -> Nat]
  /\ faults \in 0..MaxFaults

\* However many taps arrive, of however many users, however often Redis loses
\* an answer and the process dies: a command reaches its agent at most once,
\* so Muneral and Ops Bot carry it out at most once.
AtMostOnce == \A p \in Proposals : performed[p] <= attempts[p] /\ attempts[p] <= 1

\* A gated command reaches its agent only after a tap on approve took the
\* claim; after a reject, or a keyboard left to expire, it never does.
OnlyApprovedRuns ==
  \A p \in Gated : attempts[p] > 0 => decision[p] = "approve"

\* The verdict replies: what tells the user how the command ended.
Verdicts == {"rejected", "nodata", "executed", "notExecuted"}

\* Two taps on one keyboard, approve and reject together or one button twice,
\* are never both told a verdict, and the verdict told is the one in Redis and
\* is true: "executed" only of a command carried out, "rejected" never of one
\* that was even attempted.
OneTrueVerdict ==
  /\ \A t, u \in Taps :
        reply[t] \in Verdicts /\ reply[u] \in Verdicts /\ on[t] = on[u] => t = u
  /\ \A t \in Taps :
        /\ reply[t] \in Verdicts => decision[on[t]] = verb[t]
        /\ reply[t] = "executed" => performed[on[t]] = 1
        /\ reply[t] = "rejected" => attempts[on[t]] = 0

\* An approved command that no handler is going to run any more was lost to a
\* fault (a crash after the claim, a lost answer, a failed or empty readClaim):
\* without faults an approval is never dropped.
DroppedOnlyByFault ==
  \A p \in Proposals :
    decision[p] = "approve" /\ attempts[p] = 0 /\ faults = 0
      => \E t \in Taps : on[t] = p /\ outcome[t] = "taken"
                         /\ pc[t] \in {"mapping", "approved"}

\* A decision, once taken, is neither changed nor taken back, and it is taken
\* only of an envelope that is still in Redis: never after it expired.
DecisionIsFinal ==
  [][\A p \in Proposals :
       decision'[p] # decision[p] => decision[p] = "none" /\ envelope[p] = "live"
    ]_<<decision, envelope>>

\* What duplicate taps are told according to the e2e test "duplicate callback
\* tap": once a decision has been taken, a further tap is told that the choice
\* was already made, not that the waiting time ran out.
DuplicateTapToldAlready ==
  \A t \in Taps : reply[t] = "expired" => decision[on[t]] = "none"

\* Every tap that arrives is answered, unless the process dies under it.
EveryTapEnds == \A t \in Taps : pc[t] # "idle" ~> pc[t] \in {"done", "lost"}

\* An approval that was taken reaches the agent, or a fault has dropped it.
ApprovedRuns ==
  \A p \in Proposals : decision[p] = "approve" ~> attempts[p] = 1 \/ faults > 0

-----------------------------------------------------------------------------
(* The refinement of OneShotAction.                                        *)

\* How far a command has come, as OneShotAction sees it.
Status(p) ==
  IF attempts[p] > 0 THEN "issued"
  ELSE IF decision[p] = "approve" THEN "approved"
  ELSE IF decision[p] = "reject" THEN "rejected"
  ELSE IF envelope[p] = "live" THEN "pending"
  ELSE IF envelope[p] = "lapsed" THEN "lapsed"
  ELSE "unseen"

OneShot == INSTANCE OneShotAction WITH
  status <- [p \in Proposals |-> Status(p)],
  effects <- performed

\* Approval with all its handlers, lost answers and crashes behaves as
\* OneShotAction says.
Promise == OneShot!Spec
=============================================================================
