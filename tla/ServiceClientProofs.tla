-------------------------- MODULE ServiceClientProofs --------------------------
(***************************************************************************)
(* Proofs about ServiceClient, for every client, any number of calls,      *)
(* attempts and changes of the service, any volume and threshold.          *)
(*                                                                         *)
(* What a write's caller is told depends on answers that were given before *)
(* other calls moved the breaker: the invariant relates the answer a call  *)
(* has to what its request did (DoneAsAnswered), and keeps writes out of   *)
(* the retry loop (WritesOnce).  While the service was never in trouble,   *)
(* no answer there is counts against the breaker (NothingCounts).          *)
(***************************************************************************)
EXTENDS ServiceClient, TLAPS

CallRecords ==
  [at : {"sent", "answered", "backoff"}, op : Requests[client],
   tries : 1..MaxAttempts, answer : Answers \cup {"none"}, done : 0..MaxAttempts]

Told == [op : Requests[client], done : 0..MaxAttempts, said : Replies, again : BOOLEAN]

\* The loop goes on only while there is an attempt left.
AttemptLeft(r) == r.at = "backoff" => r.tries < MaxAttempts

\* A write is sent once: no answer of its is tried again.
WritesOnce(r) ==
  IF r.op \in Writes THEN r.tries = 1 /\ r.at # "backoff" /\ r.done <= 1
                     ELSE r.done = 0

\* What a request did is what its answer leaves possible.
DoneAsAnswered(r) ==
  /\ r.at = "sent" => r.done = 0
  /\ r.at = "answered" => r.answer \in Answers /\ r.done \in CarriedOut(r.op, r.answer)

\* Answers of a service that is well.
Harmless == {"none", "ok"} \cup ClientFaults

GoodCall(r) ==
  /\ r \in CallRecords
  /\ AttemptLeft(r) /\ WritesOnce(r) /\ DoneAsAnswered(r)
  /\ ~troubled => r.answer \in Harmless

GoodTold(r) ==
  r.op \in Writes =>
    /\ r.said = "ok" => r.done = 1
    /\ r.said \in ClientFaults => r.done = 0

NothingCounts == ~troubled => service.well /\ breaker = "closed"

IInv ==
  /\ TypeOK
  /\ call \in [All -> CallRecords \cup {NoCall}]
  /\ \A c \in All : ~Free(c) => GoodCall(call[c])
  /\ GoodTold(told)
  /\ NothingCounts

-----------------------------------------------------------------------------
(* The policies: one client after the other, and together.                 *)

LEMMA ClientTyped == TypeOK => client \in Clients
BY SubjectsAssumption DEF TypeOK

\* The operations a client has, and its writes.
LEMMA OpsOfClient ==
  ASSUME TypeOK, NEW op \in Requests[client]
  PROVE  /\ client = "munera" => op \in MuneraWrites \cup MuneraReads
         /\ client = "opsbot" => op \in OpsBotWrites \cup OpsBotReads
         /\ client = "scrutator" => op \in ScrutatorWrites \cup ScrutatorReads
         /\ client = "claude" => op = "complete"
         /\ client = "transcriber" => op = "transcribe"
BY ClientTyped DEF Requests, Clients

USE DEF MuneraWrites, MuneraReads, OpsBotWrites, OpsBotReads, ScrutatorWrites,
        ScrutatorReads

\* No answer to a write is tried again.
LEMMA WritesNotRetried ==
  ASSUME TypeOK, NEW op \in Requests[client] \cap Writes
  PROVE  Retried(client, op) = {}
BY ClientTyped, OpsOfClient
   DEF Clients, Writes, Retried, MuneraRetried, OpsBotRetried, ScrutatorRetried

\* Refusals are excused by every client.
LEMMA RefusalsExcused == TypeOK => Excused[client] = ClientFaults
BY ClientTyped
   DEF Clients, Excused, MuneraExcused, OpsBotExcused, ScrutatorExcused,
       ClaudeExcused, TranscriberExcused

\* What is well is nothing a breaker counts.
LEMMA WellIsNotThrown ==
  TypeOK => "ok" \notin Thrown[client] /\ "none" \notin Thrown[client]
BY ClientTyped
   DEF Clients, Thrown, MuneraThrown, OpsBotThrown, ScrutatorThrown, ClaudeThrown,
       TranscriberThrown, Answers

\* Every result is told in one of the ways there are.
LEMMA SaidIsReply ==
  ASSUME TypeOK, NEW op \in Requests[client], NEW opened \in BOOLEAN,
         NEW result \in Answers \cup {Rejected}
  PROVE  Said(client, op, opened, result) \in Replies
<1> USE OpsOfClient DEF Replies, Said, ClientFaults
<1>1. CASE client = "munera"
  BY <1>1 DEF MuneraSaid, MuneraReason
<1>2. CASE client = "opsbot"
  <2>1. OpsBotSaid(op, opened, result) \in {"ok", "circuit open", "error"}
    BY DEF OpsBotSaid
  <2> QED
    BY <1>2, <2>1 DEF OpsAgentSaid
<1>3. CASE client = "scrutator"
  <2>1. ScrutatorSaid(op, opened, result) \in {"ok", "ok unread", "circuit open", "error"}
    BY DEF ScrutatorSaid, ScrutatorThrown, Rejected
  <2> QED
    BY <1>3, <2>1 DEF KnowledgeAgentSaid
<1>4. CASE client = "claude"
  BY <1>4 DEF ClaudeSaid, ClaudeExcused
<1>5. CASE client = "transcriber"
  BY <1>5 DEF TranscriberAgentSaid, TranscriberSaid, TranscriberExcused
<1> QED
  BY <1>1, <1>2, <1>3, <1>4, <1>5, ClientTyped DEF Clients

\* Who is told of a write that it succeeded, or that it was refused, is told what
\* the answer said, whatever the breaker is then.
LEMMA SaidOfWrites ==
  ASSUME TypeOK, NEW op \in Requests[client] \cap Writes, NEW opened \in BOOLEAN,
         NEW result \in Answers \cup {Rejected}
  PROVE  /\ Said(client, op, opened, result) = "ok" => result = "ok"
         /\ Said(client, op, opened, result) \in ClientFaults => result \in ClientFaults
<1> USE OpsOfClient DEF Writes, Said, ClientFaults
<1>1. CASE client = "munera"
  BY <1>1 DEF MuneraSaid, MuneraReason
<1>2. CASE client = "opsbot"
  <2>1. /\ op \in {"event", "command"}
        /\ OpsBotSaid(op, opened, result) \in {"ok", "circuit open", "error"}
        /\ OpsBotSaid(op, opened, result) = "ok" => result = "ok"
    BY <1>2 DEF OpsBotSaid, OpsBotAccepts
  <2> QED
    BY <1>2, <2>1 DEF OpsAgentSaid
<1>3. CASE client = "scrutator"
  <2>1. /\ ScrutatorSaid(op, opened, result) \in {"ok", "ok unread", "circuit open", "error"}
        /\ ScrutatorSaid(op, opened, result) = "ok" => result = "ok"
    BY DEF ScrutatorSaid, ScrutatorThrown, Rejected
  <2> QED
    BY <1>3, <2>1 DEF KnowledgeAgentSaid
<1>4. CASE client \in {"claude", "transcriber"}
  BY <1>4
<1> QED
  BY <1>1, <1>2, <1>3, <1>4, ClientTyped DEF Clients

-----------------------------------------------------------------------------
(* The parts of the invariant, and what disturbs them.                     *)

Windows == [{1, 2} -> [fires : 0..MaxFires, failures : Nat]]

BreakerTyped ==
  /\ breaker \in {"closed", "open", "half open"}
  /\ slot \in BOOLEAN /\ (slot => breaker = "half open")
  /\ window \in Windows

ServiceTyped ==
  /\ service \in [well : BOOLEAN, key : BOOLEAN]
  /\ troubled \in BOOLEAN
  /\ changes \in 0..MaxChanges

CredentialTyped ==
  /\ credential \in {"unverified", "accepted", "rejected"}
  /\ client # "munera" => credential = "unverified"

CallsGood ==
  /\ call \in [All -> CallRecords \cup {NoCall}]
  /\ \A c \in All : ~Free(c) => GoodCall(call[c])

ToldGood == (told = NoReply \/ told \in Told) /\ GoodTold(told)

Parts ==
  /\ client \in Subjects
  /\ BreakerTyped /\ ServiceTyped /\ CredentialTyped /\ CallsGood /\ ToldGood
  /\ NothingCounts

LEMMA PartsAreIInv == IInv <=> Parts
BY DEF IInv, Parts, TypeOK, BreakerTyped, ServiceTyped, CredentialTyped, CallsGood,
       ToldGood, GoodCall, CallRecords, Told, Windows

LEMMA PartsAreIInvNext == Parts' => IInv'
BY DEF IInv, Parts, TypeOK, BreakerTyped, ServiceTyped, CredentialTyped, CallsGood,
       ToldGood, GoodCall, CallRecords, Told, Windows

LEMMA NothingSaid ==
  ASSUME SaysNothing
  PROVE  ToldGood'
BY DEF SaysNothing, ToldGood, NoReply, GoodTold, Writes

\* A call judged good before a step is so after it, if the client stays and the
\* service's past is not whitewashed.
LEMMA GoodCallKeeps ==
  ASSUME UNCHANGED client, troubled => troubled', NEW r, GoodCall(r)
  PROVE  /\ r \in CallRecords'
         /\ AttemptLeft(r) /\ WritesOnce(r) /\ DoneAsAnswered(r)
         /\ ~troubled' => r.answer \in Harmless
BY DEF GoodCall, CallRecords

LEMMA CallsKept ==
  ASSUME Parts, UNCHANGED client, troubled => troubled',
         call' \in [All -> CallRecords \cup {NoCall}],
         \A c \in All : call'[c] # NoCall => GoodCall(call'[c])
  PROVE  CallsGood'
<1>1. call' \in [All -> CallRecords' \cup {NoCall}]
  BY DEF CallRecords
<1>2. ASSUME NEW c \in All, call'[c] # NoCall PROVE GoodCall(call[c])'
  BY <1>2, GoodCallKeeps DEF GoodCall, AttemptLeft, WritesOnce, DoneAsAnswered
<1> QED
  BY <1>1, <1>2 DEF CallsGood, Free

\* One call changes, or ends.
LEMMA OneCall ==
  ASSUME Parts, UNCHANGED <<client, troubled>>, NEW c \in All, NEW r,
         r = NoCall \/ GoodCall(r),
         call' = [call EXCEPT ![c] = r]
  PROVE  CallsGood'
<1>1. call' \in [All -> CallRecords \cup {NoCall}]
  BY DEF Parts, CallsGood, GoodCall
<1>2. ASSUME NEW d \in All, call'[d] # NoCall PROVE GoodCall(call'[d])
  BY <1>2 DEF Parts, CallsGood, Free
<1> QED
  BY <1>1, <1>2, CallsKept

LEMMA NoCallChanges ==
  ASSUME Parts, UNCHANGED <<client, call>>, troubled => troubled'
  PROVE  CallsGood'
<1>1. ASSUME NEW d \in All, call'[d] # NoCall PROVE GoodCall(call'[d])
  BY <1>1 DEF Parts, CallsGood, Free
<1> QED
  BY <1>1, CallsKept DEF Parts, CallsGood

\* A call that has just been sent is good.
LEMMA NewCallGood ==
  ASSUME Parts, NEW op \in Requests[client]
  PROVE  GoodCall(NewCall(op))
BY SizesAssumption
   DEF NewCall, GoodCall, CallRecords, AttemptLeft, WritesOnce, DoneAsAnswered, Harmless

Bucket == [fires : 0..MaxFires, failures : Nat]

LEMMA PairOfBuckets ==
  ASSUME NEW old \in Bucket, NEW new \in Bucket
  PROVE  <<old, new>> \in Windows
<1>1. DOMAIN <<old, new>> = {1, 2}
  OBVIOUS
<1>2. <<old, new>> = [i \in {1, 2} |-> <<old, new>>[i]]
  BY <1>1
<1>3. \A i \in {1, 2} : <<old, new>>[i] \in Bucket
  OBVIOUS
<1> QED
  BY <1>2, <1>3 DEF Windows, Bucket

LEMMA EmptyTyped == Empty \in Bucket
BY SizesAssumption DEF Empty, Bucket

LEMMA CountedTyped ==
  ASSUME BreakerTyped, Fires < MaxFires
  PROVE  Counted \in Windows
<1>1. window[1] \in Bucket /\ window[2] \in Bucket
  BY DEF BreakerTyped, Windows, Bucket
<1>2. window[2].fires + 1 \in 0..MaxFires
  BY <1>1, SizesAssumption DEF Fires, Bucket
<1>3. [window[2] EXCEPT !.fires = @ + 1] \in Bucket
  BY <1>1, <1>2 DEF Bucket
<1>4. Counted = [window EXCEPT ![2] = [window[2] EXCEPT !.fires = @ + 1]]
  BY DEF Counted
<1> QED
  BY <1>3, <1>4 DEF BreakerTyped, Windows, Bucket

\* The reply of the step is about an operation of the client, and true.
LEMMA TellsGood ==
  ASSUME Parts, UNCHANGED client, NEW op \in Requests[client],
         NEW done \in 0..MaxAttempts, NEW said \in Replies, Tells(op, done, said),
         op \in Writes /\ said = "ok" => done = 1,
         op \in Writes /\ said \in ClientFaults => done = 0
  PROVE  ToldGood'
<1>1. told'.op = op /\ told'.done = done /\ told'.said = said
  BY DEF Tells
<1>2. told' \in Told
  BY DEF Tells, Told, Parts, ToldGood
<1>3. GoodTold(told')
  BY <1>1 DEF GoodTold
<1> QED
  BY <1>2, <1>3 DEF ToldGood, Told, GoodTold

-----------------------------------------------------------------------------
(* The actions. *)

LEMMA InitIInv == Init => IInv
<1> SUFFICES ASSUME Init PROVE Parts
  BY PartsAreIInv
<1> USE SizesAssumption DEF Init
<1>1. BreakerTyped
  BY EmptyTyped, PairOfBuckets DEF BreakerTyped
<1>2. ServiceTyped /\ CredentialTyped /\ NothingCounts
  BY DEF ServiceTyped, CredentialTyped, NothingCounts
<1>3. CallsGood
  BY DEF CallsGood, Free
<1>4. ToldGood
  BY DEF ToldGood, NoReply, GoodTold, Writes
<1> QED
  BY <1>1, <1>2, <1>3, <1>4 DEF Parts

\* The breaker keeps its shape, and no result of a service that is well opens it.
LEMMA BreakerSeesTyped ==
  ASSUME BreakerTyped, NEW result, BreakerSees(result)
  PROVE  BreakerTyped'
<1>1. CASE BreakerFails
  <2>1. window[2] \in Bucket
    BY DEF BreakerTyped, Windows, Bucket
  <2>2. [window[2] EXCEPT !.failures = @ + 1] \in Bucket
    BY <2>1 DEF Bucket
  <2>3. window' = [window EXCEPT ![2] = [window[2] EXCEPT !.failures = @ + 1]]
    BY <1>1 DEF BreakerFails
  <2>4. window' \in Windows
    BY <2>2, <2>3 DEF BreakerTyped, Windows, Bucket
  <2> QED
    BY <1>1, <2>4 DEF BreakerFails, BreakerTyped, Windows
<1>2. CASE BreakerSucceeds
  BY <1>2 DEF BreakerSucceeds, BreakerTyped, Windows
<1> QED
  BY <1>1, <1>2 DEF BreakerSees

LEMMA HarmlessIsExcused ==
  ASSUME TypeOK, NEW result \in Harmless
  PROVE  result \notin Thrown[client] \ Excused[client]
BY RefusalsExcused, WellIsNotThrown DEF Harmless

LEMMA VerdictTyped ==
  ASSUME CredentialTyped, UNCHANGED client, NEW answer, credential' = Verdict(answer)
  PROVE  CredentialTyped'
BY DEF CredentialTyped, Verdict, MuneraCredential

LEMMA CarriedOutOnce ==
  ASSUME NEW op, NEW answer, NEW n \in CarriedOut(op, answer)
  PROVE  /\ n \in {0, 1}
         /\ op \notin Writes => n = 0
BY DEF CarriedOut

LEMMA PossibleAnswers == Possible \subseteq Answers
BY DEF Possible, Answers

LEMMA WellAnswersHarmless == service.well => Possible \subseteq Harmless
BY DEF Possible, Harmless, ClientFaults

\* Where a call stands that is under way.
LEMMA CallAt ==
  ASSUME Parts, NEW c \in All, NEW stage, At(c, stage)
  PROVE  GoodCall(call[c]) /\ call[c].at = stage
BY DEF Parts, CallsGood, At

LEMMA RejectedIsTold ==
  ASSUME Parts, UNCHANGED client, NEW op \in Requests[client],
         Tells(op, 0, Said(client, op, Opened, Rejected))
  PROVE  ToldGood'
<1>1. TypeOK
  BY PartsAreIInv DEF IInv
<1>2. Opened \in BOOLEAN
  BY DEF Opened
<1>3. Said(client, op, Opened, Rejected) \in Replies
  BY <1>1, <1>2, SaidIsReply
<1>4. ASSUME op \in Writes PROVE Said(client, op, Opened, Rejected) # "ok"
  BY <1>1, <1>2, <1>4, SaidOfWrites DEF Rejected, ClientFaults
<1>5. 0 \in 0..MaxAttempts
  BY SizesAssumption
<1> QED
  BY <1>3, <1>4, <1>5, TellsGood

LEMMA TurnedAwayStep ==
  ASSUME Parts, NEW op \in Requests[client], TurnedAway(op)
  PROVE  Parts'
<1>1. CallsGood'
  BY NoCallChanges DEF TurnedAway, serviceVars
<1>2. "circuit open" \in Replies /\ "circuit open" # "ok" /\ "circuit open" \notin ClientFaults
  BY DEF Replies, ClientFaults
<1>3. 0 \in 0..MaxAttempts
  BY SizesAssumption
<1>4. ToldGood'
  BY <1>2, <1>3, TellsGood DEF TurnedAway
<1> QED
  BY <1>1, <1>4 DEF Parts, BreakerTyped, Windows, ServiceTyped, CredentialTyped,
     NothingCounts, TurnedAway, breakerVars, serviceVars

LEMMA FireStep ==
  ASSUME Parts, NEW c \in Calls, NEW op \in Requests[client], Fire(c, op)
  PROVE  Parts'
<1>1. BreakerTyped'
  <2>1. window[1].fires \in 0..MaxFires /\ window[2].fires \in 0..MaxFires
    BY DEF Parts, BreakerTyped, Windows
  <2>2. MaxFires \in Nat
    BY SizesAssumption
  <2>3. Fires \in Nat /\ Fires < MaxFires - 1
    BY <2>1, <2>2 DEF Fire, Fires
  <2>4. Fires < MaxFires
    BY <2>2, <2>3
  <2> QED
    BY <2>4, CountedTyped DEF Fire, Parts, BreakerTyped, Windows
<1>2. CASE Admits /\ call' = [call EXCEPT ![c] = NewCall(op)] /\ SaysNothing
  <2>1. CallsGood'
    BY <1>2, NewCallGood, OneCall DEF Fire, serviceVars, All
  <2> QED
    BY <1>1, <1>2, <2>1, NothingSaid DEF Parts, ServiceTyped, CredentialTyped, NothingCounts, Fire,
       serviceVars
<1>3. CASE UNCHANGED call /\ Tells(op, 0, Said(client, op, Opened, Rejected))
  <2>1. CallsGood'
    BY <1>3, NoCallChanges DEF Fire, serviceVars
  <2>2. ToldGood'
    BY <1>3, RejectedIsTold DEF Fire
  <2> QED
    BY <1>1, <2>1, <2>2 DEF Parts, ServiceTyped, CredentialTyped, NothingCounts, Fire,
       serviceVars
<1> QED
  BY <1>2, <1>3 DEF Fire

LEMMA ServeStep ==
  ASSUME Parts, NEW c \in All, Serve(c)
  PROVE  Parts'
<1>1. GoodCall(call[c]) /\ call[c].at = "sent"
  BY CallAt DEF Serve
<1>2. PICK answer \in Possible : \E n \in CarriedOut(call[c].op, answer) :
        call' = [call EXCEPT ![c].at = "answered", ![c].answer = answer,
                             ![c].done = call[c].done + n]
  BY DEF Serve
<1>3. PICK n \in CarriedOut(call[c].op, answer) :
        call' = [call EXCEPT ![c].at = "answered", ![c].answer = answer,
                             ![c].done = call[c].done + n]
  BY <1>2
<1>4. n \in {0, 1} /\ (call[c].op \notin Writes => n = 0)
  BY CarriedOutOnce
<1>5. call[c].done + n = n
  BY <1>1, <1>4 DEF GoodCall, DoneAsAnswered
<1> DEFINE r == [call[c] EXCEPT !.at = "answered", !.answer = answer, !.done = n]
<1>6. call' = [call EXCEPT ![c] = r]
  BY <1>3, <1>5
<1>7. n \in 0..MaxAttempts
  BY <1>4, SizesAssumption
<1>8. /\ r.at = "answered" /\ r.op = call[c].op /\ r.tries = call[c].tries
      /\ r.answer = answer /\ r.done = n
      /\ r \in CallRecords
  BY <1>1, <1>7, PossibleAnswers DEF GoodCall, CallRecords
<1> HIDE DEF r
<1>9. ~troubled => answer \in Harmless
  BY WellAnswersHarmless DEF Parts, NothingCounts
<1>10. GoodCall(r)
  BY <1>1, <1>4, <1>8, <1>9, PossibleAnswers
     DEF GoodCall, AttemptLeft, WritesOnce, DoneAsAnswered
<1>11. CallsGood'
  BY <1>6, <1>10, OneCall DEF Serve, serviceVars
<1> QED
  BY <1>11, NothingSaid DEF Parts, BreakerTyped, Windows, ServiceTyped, CredentialTyped,
     NothingCounts, Serve, breakerVars, serviceVars

\* Only what is not a write is tried again.
LEMMA AnswerRetriedStep ==
  ASSUME Parts, NEW c \in All, AnswerRetried(c)
  PROVE  Parts'
<1> DEFINE r == [call[c] EXCEPT !.at = "backoff"]
<1>1. GoodCall(call[c]) /\ call[c].at = "answered"
  BY CallAt DEF AnswerRetried
<1>2. call' = [call EXCEPT ![c] = r]
  BY DEF AnswerRetried
<1>3. call[c].op \notin Writes
  <2>1. TypeOK
    BY PartsAreIInv DEF IInv
  <2> QED
    BY <1>1, <2>1, WritesNotRetried DEF AnswerRetried, Again, GoodCall, CallRecords
<1>4. /\ r.at = "backoff" /\ r.op = call[c].op /\ r.tries = call[c].tries
      /\ r.answer = call[c].answer /\ r.done = call[c].done
      /\ r \in CallRecords
  BY <1>1 DEF GoodCall, CallRecords
<1> HIDE DEF r
<1>5. GoodCall(r)
  BY <1>1, <1>3, <1>4
     DEF GoodCall, AttemptLeft, WritesOnce, DoneAsAnswered, AnswerRetried, Again
<1>6. CallsGood'
  BY <1>2, <1>5, OneCall DEF AnswerRetried, serviceVars
<1>7. CredentialTyped'
  BY VerdictTyped DEF AnswerRetried, Parts
<1> QED
  BY <1>6, <1>7, NothingSaid DEF Parts, BreakerTyped, Windows, ServiceTyped,
     NothingCounts, AnswerRetried, breakerVars, serviceVars

LEMMA BackoffStep ==
  ASSUME Parts, NEW c \in All, Backoff(c)
  PROVE  Parts'
<1> DEFINE r == [call[c] EXCEPT !.at = "sent", !.tries = call[c].tries + 1, !.answer = "none"]
<1>1. GoodCall(call[c]) /\ call[c].at = "backoff"
  BY CallAt DEF Backoff
<1>2. call' = [call EXCEPT ![c] = r]
  BY DEF Backoff
<1>3. call[c].tries + 1 \in 1..MaxAttempts
  BY <1>1, SizesAssumption DEF GoodCall, CallRecords, AttemptLeft
<1>4. /\ r.at = "sent" /\ r.op = call[c].op /\ r.answer = "none" /\ r.done = call[c].done
      /\ r \in CallRecords
  BY <1>1, <1>3 DEF GoodCall, CallRecords
<1> HIDE DEF r
<1>5. GoodCall(r)
  BY <1>1, <1>4 DEF GoodCall, AttemptLeft, WritesOnce, DoneAsAnswered, Harmless
<1>6. CallsGood'
  BY <1>2, <1>5, OneCall DEF Backoff, serviceVars
<1> QED
  BY <1>6, NothingSaid DEF Parts, BreakerTyped, Windows, ServiceTyped, CredentialTyped,
     NothingCounts, Backoff, breakerVars, serviceVars

\* What ends a call is told as it was, and only a service in trouble counts
\* against the breaker.
LEMMA AnswerEndsStep ==
  ASSUME Parts, NEW c \in All, AnswerEnds(c)
  PROVE  Parts'
<1>1. TypeOK
  BY PartsAreIInv DEF IInv
<1>2. GoodCall(call[c]) /\ call[c].at = "answered"
  BY CallAt DEF AnswerEnds
<1>3. /\ call[c].op \in Requests[client]
      /\ call[c].answer \in Answers
      /\ call[c].done \in CarriedOut(call[c].op, call[c].answer)
      /\ call[c].done \in 0..MaxAttempts
      /\ ~troubled => call[c].answer \in Harmless
  BY <1>2 DEF GoodCall, CallRecords, DoneAsAnswered
<1>4. CredentialTyped'
  BY VerdictTyped DEF AnswerEnds, Parts
<1>5. ToldGood'
  <2> DEFINE opened == breaker' = "open"
             said == Said(client, call[c].op, opened, call[c].answer)
  <2>1. opened \in BOOLEAN /\ call[c].answer \in Answers \cup {Rejected}
    BY <1>3
  <2>2. Tells(call[c].op, call[c].done, said)
    BY DEF AnswerEnds
  <2> HIDE DEF opened
  <2>3. said \in Replies
    BY <1>1, <1>3, <2>1, SaidIsReply
  <2>4. ASSUME call[c].op \in Writes
        PROVE  /\ said = "ok" => call[c].done = 1
               /\ said \in ClientFaults => call[c].done = 0
    <3>1. /\ said = "ok" => call[c].answer = "ok"
          /\ said \in ClientFaults => call[c].answer \in ClientFaults
      BY <1>1, <1>3, <2>1, <2>4, SaidOfWrites
    <3>2. /\ call[c].answer = "ok" => call[c].done = 1
          /\ call[c].answer \in ClientFaults => call[c].done = 0
      BY <1>3, <2>4 DEF CarriedOut, ClientFaults
    <3> QED
      BY <3>1, <3>2
  <2> HIDE DEF said
  <2> QED
    BY <1>3, <2>2, <2>3, <2>4, TellsGood DEF AnswerEnds
<1>6. CASE BreakerSees(call[c].answer) /\ call' = [call EXCEPT ![c] = NoCall]
  <2>1. BreakerTyped'
    BY <1>6, BreakerSeesTyped DEF Parts
  <2>2. CallsGood'
    BY <1>6, OneCall DEF AnswerEnds, serviceVars
  <2>3. NothingCounts'
    <3>1. ASSUME ~troubled PROVE breaker' = "closed"
      BY <1>1, <1>3, <1>6, <3>1, HarmlessIsExcused
         DEF BreakerSees, BreakerSucceeds, Parts, NothingCounts
    <3> QED
      BY <3>1 DEF AnswerEnds, serviceVars, Parts, NothingCounts
  <2> QED
    BY <1>4, <1>5, <2>1, <2>2, <2>3 DEF Parts, ServiceTyped, AnswerEnds, serviceVars
<1>7. CASE /\ Reports(c)
           /\ breaker' = "closed" /\ slot' = FALSE /\ window' = Counted
           /\ \E h \in Heals :
                call' = [[call EXCEPT ![c] = NoCall] EXCEPT ![h] = NewCall("event")]
  <2>1. BreakerTyped'
    BY <1>7, CountedTyped DEF Reports, Parts, BreakerTyped, Windows
  <2>2. GoodCall(NewCall("event"))
    BY <1>7, NewCallGood DEF Reports, Requests, Clients
  <2>3. PICK h \in Heals :
          call' = [[call EXCEPT ![c] = NoCall] EXCEPT ![h] = NewCall("event")]
    BY <1>7
  <2>4. call' \in [All -> CallRecords \cup {NoCall}]
    BY <2>2, <2>3 DEF Parts, CallsGood, GoodCall, All
  <2>5. ASSUME NEW d \in All, call'[d] # NoCall PROVE GoodCall(call'[d])
    BY <2>2, <2>3, <2>5 DEF Parts, CallsGood, Free, All
  <2>6. CallsGood'
    BY <2>4, <2>5, CallsKept DEF AnswerEnds, serviceVars
  <2>7. NothingCounts'
    BY <1>7 DEF AnswerEnds, serviceVars, Parts, NothingCounts
  <2> QED
    BY <1>4, <1>5, <2>1, <2>6, <2>7 DEF Parts, ServiceTyped, AnswerEnds, serviceVars
<1> QED
  BY <1>6, <1>7 DEF AnswerEnds

LEMMA WindowRollsStep ==
  ASSUME Parts, WindowRolls
  PROVE  Parts'
<1>1. window[2] \in Bucket
  BY DEF Parts, BreakerTyped, Windows, Bucket
<1>2. window' \in Windows
  BY <1>1, EmptyTyped, PairOfBuckets DEF WindowRolls
<1>3. CallsGood'
  BY NoCallChanges DEF WindowRolls, serviceVars
<1> QED
  BY <1>2, <1>3, NothingSaid DEF Parts, BreakerTyped, Windows, ServiceTyped,
     CredentialTyped, NothingCounts, WindowRolls, serviceVars

LEMMA ResetTimerStep ==
  ASSUME Parts, ResetTimer
  PROVE  Parts'
<1>1. CallsGood'
  BY NoCallChanges DEF ResetTimer, serviceVars
<1> QED
  BY <1>1, NothingSaid DEF Parts, BreakerTyped, Windows, ServiceTyped,
     CredentialTyped, NothingCounts, ResetTimer, serviceVars

\* Trouble is remembered.
LEMMA ServiceChangesStep ==
  ASSUME Parts, ServiceChanges
  PROVE  Parts'
<1>1. CallsGood'
  BY NoCallChanges DEF ServiceChanges
<1>2. service' \in [well : BOOLEAN, key : BOOLEAN]
  BY DEF ServiceChanges, Parts, ServiceTyped
<1>3. ServiceTyped'
  BY <1>2, SizesAssumption DEF ServiceChanges, Parts, ServiceTyped
<1>4. NothingCounts'
  BY <1>2 DEF ServiceChanges, Parts, NothingCounts, breakerVars
<1> QED
  BY <1>1, <1>3, <1>4, NothingSaid DEF Parts, BreakerTyped, Windows,
     CredentialTyped, ServiceChanges, breakerVars

-----------------------------------------------------------------------------
(* The theorems. *)

LEMMA InductiveStep ==
  ASSUME IInv, [Next]_vars
  PROVE  IInv'
<1> SUFFICES Parts'
  BY PartsAreIInvNext
<1>1. Parts
  BY PartsAreIInv
<1>2. ASSUME NEW c \in Calls, NEW op \in Ops \cap Requests[client], Begin(c, op)
      PROVE  Parts'
  BY <1>1, <1>2, TurnedAwayStep, FireStep DEF Begin
<1>3. ASSUME NEW c \in All, Exchange(c)
      PROVE  Parts'
  BY <1>1, <1>3, ServeStep, AnswerRetriedStep, BackoffStep, AnswerEndsStep DEF Exchange
<1>4. ASSUME WindowRolls \/ ResetTimer \/ ServiceChanges
      PROVE  Parts'
  BY <1>1, <1>4, WindowRollsStep, ResetTimerStep, ServiceChangesStep
<1>5. CASE UNCHANGED vars
  <2>1. CallsGood'
    BY <1>1, <1>5, NoCallChanges DEF vars
  <2> QED
    BY <1>1, <1>5, <2>1 DEF vars, Parts, BreakerTyped, Windows, ServiceTyped,
       CredentialTyped, ToldGood, Told, GoodTold, NothingCounts
<1> QED
  BY <1>2, <1>3, <1>4, <1>5 DEF Next, Calling

LEMMA Invariance == Spec => []IInv
<1>1. Init => IInv
  BY InitIInv
<1>2. IInv /\ [Next]_vars => IInv'
  BY InductiveStep
<1> QED
  BY <1>1, <1>2, PTL DEF Spec

\* Every variable has its type, the breaker's window and slot included.
THEOREM TypeCorrect == Spec => []TypeOK
<1>1. IInv => TypeOK
  BY DEF IInv
<1> QED
  BY <1>1, Invariance, PTL

\* No write is sent twice, and a caller told that its write succeeded, or was
\* refused, is told what happened at the service, over every interleaving with the
\* breaker, the other calls and the service's troubles.
THEOREM WritesAreTrueHolds == Spec => []WritesAreTrue
<1>1. IInv => WritesAreTrue
  BY DEF IInv, GoodCall, WritesOnce, GoodTold, WritesAreTrue
<1> QED
  BY <1>1, Invariance, PTL

\* A service that was always well never trips the breaker, whatever it refuses
\* and however small the volume and the threshold are.
THEOREM RefusalsNeverTripHolds == Spec => []RefusalsNeverTrip
<1>1. IInv => RefusalsNeverTrip
  BY DEF IInv, NothingCounts, RefusalsNeverTrip
<1> QED
  BY <1>1, Invariance, PTL
=============================================================================
