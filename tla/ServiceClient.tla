---------------------------- MODULE ServiceClient ----------------------------
(***************************************************************************)
(* Calls of one HTTP client through its circuit breaker.                   *)
(*                                                                         *)
(* A call is fired at the breaker, which lets it through or rejects it;    *)
(* inside, the retry loop sends the request until an answer is not tried   *)
(* again; the last answer is an event for the breaker and a reply for the  *)
(* caller, for which the state of the breaker is read once more.  Calls    *)
(* are concurrent, and the service, its key and the network change under   *)
(* them.  The breaker is opossum's: a window of two buckets that rolls,    *)
(* a volume, a threshold, a reset timer and one probe when half open.      *)
(***************************************************************************)
EXTENDS ClientPolicies, Naturals, FiniteSets

CONSTANTS
  Subjects,      \* the clients under consideration
  Ops,           \* the operations under consideration
  Calls,         \* calls that can be under way at once
  Heals,         \* calls kept for self-heal events
  NoCall,        \* a call that is not under way
  MaxAttempts,   \* attempts of a call that is tried again
  Volume,        \* volumeThreshold
  Threshold,     \* errorThresholdPercentage
  MaxFires,      \* bound on the calls fired within the window, one of them
                 \* kept for a self-heal event
  MaxChanges     \* bound on changes of the service

ASSUME SubjectsAssumption == Subjects \subseteq Clients /\ Ops \subseteq Operations
ASSUME HealsAssumption == Heals \cap Calls = {}
ASSUME SizesAssumption ==
  /\ {MaxAttempts, Volume, MaxFires} \subseteq Nat \ {0}
  /\ Threshold \in 0..99
  /\ MaxChanges \in Nat

VARIABLES
  client,      \* which client it is
  breaker,     \* "closed", "open" or "half open"
  slot,        \* a half open breaker still waits for its probe
  window,      \* calls fired and failed, per bucket, the newest last
  call,        \* every call under way
  told,        \* the reply the latest step gave a caller, if it gave one, and
               \* how often the request of the call was carried out
  service,     \* [well, key]: the service answers, and it knows the key
  credential,  \* MuneraClient.lastCredentialState
  troubled,    \* history: the service was once not well
  changes

breakerVars == <<breaker, slot, window>>
serviceVars == <<service, changes, troubled>>
vars == <<client, breaker, slot, window, call, told, service, credential,
          troubled, changes>>

All == Calls \cup Heals

NewCall(op) == [at |-> "sent", op |-> op, tries |-> 1, answer |-> "none",
                done |-> 0]

NoReply == [op |-> "none", done |-> 0, said |-> "none", again |-> FALSE]

Empty == [fires |-> 0, failures |-> 0]

Init ==
  /\ client \in Subjects
  /\ breaker = "closed"
  /\ slot = FALSE
  /\ window = <<Empty, Empty>>
  /\ call = [c \in All |-> NoCall]
  /\ told = NoReply
  /\ service \in [well : BOOLEAN, key : BOOLEAN]
  /\ service.well \/ service.key
  /\ credential = "unverified"
  /\ troubled = ~service.well
  /\ changes = 0

Free(c) == call[c] = NoCall

At(c, stage) == ~Free(c) /\ call[c].at = stage

\* Mutant: half open is taken for open.
OpenedUnlessClosed == breaker # "closed"

\* isCircuitOpen
Opened == breaker = "open"

Fires == window[1].fires + window[2].fires

\* A reply differs from the one right before it, be it the same.
Tells(op, done, said) ==
  told' = [op |-> op, done |-> done, said |-> said,
           again |-> told # NoReply /\ ~told.again]

SaysNothing == told' = NoReply

-----------------------------------------------------------------------------
(* The breaker. *)

Admits == breaker = "closed" \/ slot

\* Fired, the call is counted whether it is let through or not.
Counted == [window EXCEPT ![2].fires = @ + 1]

TooManyFail(w) ==
  /\ w[1].fires + w[2].fires >= Volume
  /\ (w[1].failures + w[2].failures) * 100
       > Threshold * (w[1].fires + w[2].fires)

\* A failing call is a failure in the window; it opens a half open breaker,
\* or a closed one if the window is bad enough.
BreakerFails ==
  LET w == [window EXCEPT ![2].failures = @ + 1]
      opens == breaker = "half open" \/ (breaker = "closed" /\ TooManyFail(w))
  IN  /\ window' = w
      /\ breaker' = IF opens THEN "open" ELSE breaker
      /\ slot' = (slot /\ ~opens)

\* A call that succeeds, or that is excused, closes a half open breaker.
BreakerSucceeds ==
  /\ breaker' = IF breaker = "half open" THEN "closed" ELSE breaker
  /\ slot' = (slot /\ breaker # "half open")
  /\ UNCHANGED window

BreakerSees(result) ==
  IF result \in Thrown[client] \ Excused[client]
    THEN BreakerFails
    ELSE BreakerSucceeds

WindowRolls ==
  /\ window # <<Empty, Empty>>
  /\ window' = <<window[2], Empty>>
  /\ SaysNothing
  /\ UNCHANGED <<client, breaker, slot, call, credential>>
  /\ UNCHANGED serviceVars

ResetTimer ==
  /\ breaker = "open"
  /\ breaker' = "half open"
  /\ slot' = TRUE
  /\ SaysNothing
  /\ UNCHANGED <<client, window, call, credential>>
  /\ UNCHANGED serviceVars

-----------------------------------------------------------------------------
(* Calls. *)

\* breaker.fire: the request is sent at once, or rejected at once.
Fire(c, op) ==
  /\ Fires < MaxFires - 1
  /\ window' = Counted
  /\ slot' = FALSE
  /\ \/ Admits /\ call' = [call EXCEPT ![c] = NewCall(op)] /\ SaysNothing
     \/ ~Admits /\ Tells(op, 0, Said(client, op, Opened, Rejected)) /\ UNCHANGED call
  /\ UNCHANGED <<client, breaker, credential>>
  /\ UNCHANGED serviceVars

\* An agent that finds the breaker open does not fire.
TurnedAway(op) ==
  /\ op \in Prechecked /\ Opened
  /\ Tells(op, 0, "circuit open")
  /\ UNCHANGED <<client, call, credential>>
  /\ UNCHANGED <<breakerVars, serviceVars>>

\* As many calls can be under way as there are Calls, self-heal events included.
Room == Cardinality({c \in All : ~Free(c)}) < Cardinality(Calls)

\* Calls are alike: a new one is any that is not under way.
Begin(c, op) ==
  /\ Room
  /\ Free(c) /\ c = CHOOSE d \in Calls : Free(d)
  /\ \/ TurnedAway(op)
     \/ ~(op \in Prechecked /\ Opened) /\ Fire(c, op)

\* The answers the service and the network can give now.
Possible ==
  CASE ~service.well -> {"failed", "malformed"}
         \cup (IF service.key THEN {"ok"} ELSE {})
         \cup (IF client \in {"opsbot", "scrutator"} THEN {"garbled"} ELSE {})
         \cup (IF client = "munera" THEN {"redirect"} ELSE {})
    [] service.well /\ service.key -> {"ok", "refused"}
         \cup (IF client = "munera" THEN {"forbidden"} ELSE {})
    [] OTHER -> {"unauthorized"}

\* How often a request with this answer changed something at the service.
CarriedOut(op, answer) ==
  CASE op \notin Writes -> {0}
    [] op \in Writes /\ answer = "ok" -> {1}
    [] op \in Writes /\ answer \in {"failed", "malformed", "garbled"} -> {0, 1}
    [] OTHER -> {0}

\* The request reaches the service, which decides on the answer, or it gets
\* lost on the way there or back.
Serve(c) ==
  /\ At(c, "sent")
  /\ \E answer \in Possible : \E n \in CarriedOut(call[c].op, answer) :
       call' = [call EXCEPT ![c].at = "answered", ![c].answer = answer,
                            ![c].done = @ + n]
  /\ SaysNothing
  /\ UNCHANGED <<client, credential>>
  /\ UNCHANGED <<breakerVars, serviceVars>>

\* Mutant: one attempt too many.
AgainOnceMore(c) ==
  /\ call[c].answer \in Thrown[client] \cap Retried(client, call[c].op)
  /\ call[c].tries <= MaxAttempts

\* The error is tried again.
Again(c) ==
  /\ call[c].answer \in Thrown[client] \cap Retried(client, call[c].op)
  /\ call[c].tries < MaxAttempts

Verdict(answer) ==
  IF client = "munera" THEN MuneraCredential(answer, credential) ELSE credential

\* The answer arrives, or the timeout aborts the request, and the loop waits
\* before it tries again.
AnswerRetried(c) ==
  /\ At(c, "answered")
  /\ Again(c)
  /\ call' = [call EXCEPT ![c].at = "backoff"]
  /\ credential' = Verdict(call[c].answer)
  /\ SaysNothing
  /\ UNCHANGED client
  /\ UNCHANGED <<breakerVars, serviceVars>>

\* Mutant: the attempt is not counted.
BackoffUncounted(c) ==
  /\ At(c, "backoff")
  /\ call' = [call EXCEPT ![c].at = "sent", ![c].answer = "none"]
  /\ SaysNothing
  /\ UNCHANGED <<client, credential>>
  /\ UNCHANGED <<breakerVars, serviceVars>>

Backoff(c) ==
  /\ At(c, "backoff")
  /\ call' = [call EXCEPT ![c].at = "sent", ![c].tries = @ + 1,
                          ![c].answer = "none"]
  /\ SaysNothing
  /\ UNCHANGED <<client, credential>>
  /\ UNCHANGED <<breakerVars, serviceVars>>

\* Ops Bot's client reports its recovery through its own breaker, if the bounds
\* leave room for the event.
Reports(c) ==
  /\ client = "opsbot" /\ breaker = "half open"
  /\ call[c].answer \notin Thrown[client] \ Excused[client]
  /\ Fires < MaxFires
  /\ \E h \in Heals : Free(h)

\* The breaker learns the result, then the caller is told.
AnswerEnds(c) ==
  LET result == call[c].answer
      ended == [call EXCEPT ![c] = NoCall]
  IN
  /\ At(c, "answered")
  /\ ~Again(c)
  /\ credential' = Verdict(result)
  /\ \/ /\ ~Reports(c)
        /\ BreakerSees(result)
        /\ call' = ended
     \/ /\ Reports(c)
        /\ breaker' = "closed" /\ slot' = FALSE /\ window' = Counted
        /\ \E h \in Heals : /\ Free(h)
                            /\ call' = [ended EXCEPT ![h] = NewCall("event")]
  /\ Tells(call[c].op, call[c].done,
           Said(client, call[c].op, breaker' = "open", result))
  /\ UNCHANGED client
  /\ UNCHANGED serviceVars

-----------------------------------------------------------------------------
(* The service. *)

ServiceChanges ==
  /\ changes < MaxChanges
  /\ changes' = changes + 1
  /\ \/ service' = [service EXCEPT !.well = ~@]
     \/ service' = [service EXCEPT !.key = ~@]
  /\ troubled' = (troubled \/ ~service'.well)
  /\ SaysNothing
  /\ UNCHANGED <<client, call, credential>>
  /\ UNCHANGED breakerVars

Exchange(c) ==
  Serve(c) \/ AnswerRetried(c) \/ Backoff(c) \/ AnswerEnds(c)

Calling == \E c \in Calls, op \in Ops \cap Requests[client] : Begin(c, op)

Next ==
  \/ Calling
  \/ \E c \in All : Exchange(c)
  \/ WindowRolls
  \/ ResetTimer
  \/ ServiceChanges

Spec == Init /\ [][Next]_vars

\* Every request is answered or aborted by its timeout, timers fire, time
\* passes.  Nobody has to call, and the service does not have to change.
Fairness ==
  /\ \A c \in All : WF_vars(Exchange(c))
  /\ WF_vars(WindowRolls)
  /\ WF_vars(ResetTimer)

FairSpec == Spec /\ Fairness

-----------------------------------------------------------------------------
(* Properties. *)

\* The breaker's slot exists only while it is half open, credentials are
\* Munera's, and every variable has its type.
TypeOK ==
  /\ client \in Subjects
  /\ breaker \in {"closed", "open", "half open"}
  /\ slot \in BOOLEAN /\ (slot => breaker = "half open")
  /\ window \in [{1, 2} -> [fires : 0..MaxFires, failures : Nat]]
  /\ \A c \in All : ~Free(c) =>
       call[c] \in [at : {"sent", "answered", "backoff"}, op : Requests[client],
                    tries : 1..MaxAttempts, answer : Answers \cup {"none"},
                    done : 0..MaxAttempts]
  /\ told = NoReply \/ told \in [op : Requests[client], done : 0..MaxAttempts,
                                 said : Replies, again : BOOLEAN]
  /\ service \in [well : BOOLEAN, key : BOOLEAN]
  /\ credential \in {"unverified", "accepted", "rejected"}
  /\ client # "munera" => credential = "unverified"
  /\ troubled \in BOOLEAN
  /\ changes \in 0..MaxChanges

\* A write is sent at most once, whatever becomes of its answer; who is told it
\* succeeded, or that it was refused, is told the truth (the clients' retryable
\* flags and the mapping of results).  An ingest whose 200 carries another body
\* is the exception, "ok unread".
WritesAreTrue ==
  /\ \A c \in All : ~Free(c) /\ call[c].op \in Writes =>
       call[c].done <= 1 /\ call[c].tries = 1
  /\ told.op \in Writes =>
       /\ told.said = "ok" => told.done = 1
       /\ told.said \in ClientFaults => told.done = 0

\* A service that always answered as it should never trips the breaker, however
\* many requests it refuses and whether or not it knows the key (errorFilter;
\* "4xx ... do not count toward CB threshold", ops-bot.client.ts:152).
RefusalsNeverTrip == ~troubled => breaker = "closed"

\* Every call ends, over rejections, timeouts and retries (executeRequest).
EveryCallEnds == \A c \in Calls : ~Free(c) ~> Free(c)

\* Once the service is well for good and somebody keeps calling, the breaker
\* closes for good: late failures, lost probes and refusals in between do not
\* keep it open.
BreakerRecovers ==
  /\ <>[]service.well
  /\ []<><<Calling>>_vars
  => <>[](breaker = "closed")

\* A key that stays good or bad shows in credentialState, if answers about it
\* keep arriving: neither failed answers, redirects nor an open breaker leave the
\* wrong verdict standing (MuneraClient.doFetch).
CredentialFollowsKey ==
  /\ client = "munera"
  /\ <>[]service.well /\ <>[][FALSE]_service
  /\ []<><<\E c \in Calls : AnswerEnds(c) /\ call[c].answer # "refused">>_vars
  => <>[](credential = IF service.key THEN "accepted" ELSE "rejected")
=============================================================================
