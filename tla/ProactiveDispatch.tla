------------------------ MODULE ProactiveDispatch ------------------------
(***************************************************************************)
(* The daily proactive message of one kind (briefing or digest).           *)
(*                                                                         *)
(* A repeatable job, or POST /proactive/trigger, queues a job; one BullMQ  *)
(* worker runs ProactiveProcessor.process for one job at a time.  The      *)
(* processor takes the date of the moment it runs at, composes a text and  *)
(* hands both to ProactiveDispatcherService.dispatch, which claims the     *)
(* Redis key proactive:<kind>:<date>:sent, sends the text through          *)
(* Telegram, and gives the key back when that fails, so that BullMQ's next *)
(* attempt can claim it again.  Three failures in a row raise an alarm at  *)
(* Ops Bot.                                                                *)
(*                                                                         *)
(* Telegram refuses a message as often as it likes.  A fault is what the   *)
(* code cannot tell from something else: a Redis command that fails        *)
(* (carried out or not) or is carried out and sent again, a message that   *)
(* is delivered although the answer is lost, and a crash of the process.   *)
(* The two kinds share nothing but the worker, so one kind is modelled.    *)
(* BullMQ keeps its jobs; composing neither fails nor writes anything, and *)
(* is part of the wait before the claim.                                   *)
(***************************************************************************)
EXTENDS Naturals

CONSTANTS
  Jobs,         \* the jobs of this kind, scheduled and manual
  LastDay,      \* bound on the calendar
  MaxAttempts,  \* BullMQ's attempts for a job
  Threshold,    \* consecutive failures that raise the alarm
  MaxFaults     \* bound on faults

ASSUME LastDayAssumption == LastDay \in Nat \ {0}
ASSUME MaxAttemptsAssumption == MaxAttempts \in Nat \ {0}
ASSUME ThresholdAssumption == Threshold \in Nat \ {0}
ASSUME MaxFaultsAssumption == MaxFaults \in Nat

VARIABLES
  today,         \* the date in Europe/Istanbul
  enabled,       \* the configuration in force lets this kind be sent
  job,           \* where each job is
  tries,         \* failed attempts BullMQ has counted for each job
  stalls,        \* how often each job was found without its worker
  runDate,       \* the date each job last ran for
  result,        \* what the last run of each job reported
  sentKey,       \* the dates whose key proactive:<kind>:<date>:sent exists
  failures,      \* the counter proactive:<kind>:consecutive_failures
  counterDay,    \* the day its expiry was last set on, 0 when it has none
  count,         \* what INCR answered in the last run
  delivered,     \* history: messages the chat received for each date
  sentSinceOff,  \* history: messages received since the switch went off
  streak,        \* history: sends given up since one succeeded
  alarmed,       \* history: the alarm was raised in this streak
  faults         \* faults so far

jobVars == <<job, tries, stalls, runDate, result>>
counterVars == <<failures, counterDay, count>>
chatVars == <<delivered, sentSinceOff>>
alarmVars == <<streak, alarmed>>
vars == <<today, enabled, job, tries, stalls, runDate, result, sentKey,
          failures, counterDay, count, delivered, sentSinceOff, streak, alarmed,
          faults>>

Days == 1..LastDay

\* Where a job that holds the worker is between two awaits.
Running == {"claim", "send", "plain", "reset", "release", "count", "ttl", "returned"}

Settled == {"done", "failed"}

JobStates == {"unqueued", "waiting", "stalled"} \cup Running \cup Settled

Results == {"none", "disabled", "skipped", "sent", "threw"}

Init ==
  /\ today = 1
  /\ enabled \in BOOLEAN
  /\ job = [j \in Jobs |-> "unqueued"]
  /\ tries = [j \in Jobs |-> 0]
  /\ stalls = [j \in Jobs |-> 0]
  /\ runDate = [j \in Jobs |-> 0]
  /\ result = [j \in Jobs |-> "none"]
  /\ sentKey = {}
  /\ failures = 0
  /\ counterDay = 0
  /\ count = 0
  /\ delivered = [d \in Days |-> 0]
  /\ sentSinceOff = 0
  /\ streak = 0
  /\ alarmed = FALSE
  /\ faults = 0

WorkerIsFree == \A j \in Jobs : job[j] \notin Running

Fault ==
  /\ faults < MaxFaults
  /\ faults' = faults + 1

GoesTo(j, state) == job' = [job EXCEPT ![j] = state]

Reports(j, what) ==
  /\ GoesTo(j, "returned")
  /\ result' = [result EXCEPT ![j] = what]

-----------------------------------------------------------------------------
(* The queue, the clock and the configuration. *)

\* A repeatable job is due, or an operator triggers one.
Enqueue(j) ==
  /\ job[j] = "unqueued"
  /\ GoesTo(j, "waiting")
  /\ UNCHANGED <<today, enabled, tries, stalls, runDate, result, sentKey, faults>>
  /\ UNCHANGED <<counterVars, chatVars, alarmVars>>

DayPasses ==
  /\ today < LastDay
  /\ today' = today + 1
  /\ UNCHANGED <<enabled, sentKey, faults>>
  /\ UNCHANGED <<jobVars, counterVars, chatVars, alarmVars>>

\* The configuration poll finds the kind switched on or off.
ConfigReloaded ==
  /\ enabled' = ~enabled
  /\ sentSinceOff' = 0
  /\ UNCHANGED <<today, sentKey, delivered, faults>>
  /\ UNCHANGED <<jobVars, counterVars, alarmVars>>

\* The key lives 36 hours, so it outlives its date; a run is shorter than that.
SentKeyLapses(d) ==
  /\ d \in sentKey
  /\ d < today
  /\ \A j \in Jobs : job[j] \in Running => runDate[j] # d
  /\ sentKey' = sentKey \ {d}
  /\ UNCHANGED <<today, enabled, faults>>
  /\ UNCHANGED <<jobVars, counterVars, chatVars, alarmVars>>

\* The counter lives 24 hours after the last failure that set its expiry.  The
\* streak it counts is the one within that time, so the history starts afresh,
\* from the failure that is not counted yet if there is one.
CounterIsDue == counterDay # 0 /\ counterDay < today

ToBeCounted == \E j \in Jobs : job[j] \in {"release", "count"}

CounterLapses ==
  /\ CounterIsDue
  /\ \A j \in Jobs : job[j] # "ttl"
  /\ failures' = 0
  /\ counterDay' = 0
  /\ streak' = IF ToBeCounted /\ streak > 0 THEN 1 ELSE 0
  /\ alarmed' = FALSE
  /\ UNCHANGED <<today, enabled, count, sentKey, faults>>
  /\ UNCHANGED <<jobVars, chatVars>>

\* INCR and EXPIRE are two commands; a counter that lapses between them takes
\* the failure just counted with it.
CounterLapsesUncounted ==
  /\ CounterIsDue
  /\ \E j \in Jobs : job[j] = "ttl"
  /\ Fault
  /\ failures' = 0
  /\ counterDay' = 0
  /\ streak' = 0
  /\ alarmed' = FALSE
  /\ UNCHANGED <<today, enabled, count, sentKey>>
  /\ UNCHANGED <<jobVars, chatVars>>

\* The worker takes a job; process reads the configuration and the date.
StartWith(j, isOn, state) ==
  /\ job[j] = "waiting"
  /\ WorkerIsFree
  /\ enabled = isOn
  /\ GoesTo(j, state)
  /\ UNCHANGED <<today, enabled, tries, stalls, sentKey, faults>>
  /\ UNCHANGED <<counterVars, chatVars, alarmVars>>

\* Mutant of Start: a retry does not read the configuration again.
StartOnRetry(j) ==
  /\ StartWith(j, IF tries[j] > 0 THEN enabled ELSE TRUE, "claim")
  /\ runDate' = [runDate EXCEPT ![j] = today]
  /\ result' = [result EXCEPT ![j] = "none"]

Start(j) ==
  /\ StartWith(j, TRUE, "claim")
  /\ runDate' = [runDate EXCEPT ![j] = today]
  /\ result' = [result EXCEPT ![j] = "none"]

StartSwitchedOff(j) ==
  /\ StartWith(j, FALSE, "returned")
  /\ result' = [result EXCEPT ![j] = "disabled"]
  /\ UNCHANGED runDate

\* Mutant of Settle: one attempt more than configured.
SettleLate(j) ==
  /\ job[j] = "returned"
  /\ IF result[j] = "threw"
       THEN /\ tries' = [tries EXCEPT ![j] = @ + 1]
            /\ GoesTo(j, IF tries[j] < MaxAttempts THEN "waiting" ELSE "failed")
       ELSE GoesTo(j, "done") /\ UNCHANGED tries
  /\ UNCHANGED <<today, enabled, stalls, runDate, result, sentKey, faults>>
  /\ UNCHANGED <<counterVars, chatVars, alarmVars>>

\* Mutant of Settle: a run the switch stopped goes back to the queue.
SettleLaterIfOff(j) ==
  /\ job[j] = "returned"
  /\ tries' = [tries EXCEPT ![j] = IF result[j] = "threw" THEN @ + 1 ELSE @]
  /\ GoesTo(j, CASE result[j] = "disabled" -> "waiting"
                 [] result[j] = "threw" /\ tries'[j] < MaxAttempts -> "waiting"
                 [] OTHER -> "done")
  /\ UNCHANGED <<today, enabled, stalls, runDate, result, sentKey, faults>>
  /\ UNCHANGED <<counterVars, chatVars, alarmVars>>

\* BullMQ settles the run: an error is tried again after a delay until the
\* attempts are used up.
Settle(j) ==
  /\ job[j] = "returned"
  /\ \/ /\ result[j] # "threw"
        /\ GoesTo(j, "done")
        /\ UNCHANGED tries
     \/ /\ result[j] = "threw"
        /\ tries' = [tries EXCEPT ![j] = @ + 1]
        /\ GoesTo(j, IF tries[j] + 1 < MaxAttempts THEN "waiting" ELSE "failed")
  /\ UNCHANGED <<today, enabled, stalls, runDate, result, sentKey, faults>>
  /\ UNCHANGED <<counterVars, chatVars, alarmVars>>

\* The process dies with the run; BullMQ later finds the job without a worker,
\* gives it back once, without counting an attempt, and fails it the second time.
Crash(j) ==
  /\ job[j] \in Running
  /\ GoesTo(j, "stalled")
  /\ Fault
  /\ UNCHANGED <<today, enabled, tries, stalls, runDate, result, sentKey>>
  /\ UNCHANGED <<counterVars, chatVars, alarmVars>>

Recover(j) ==
  /\ job[j] = "stalled"
  /\ stalls' = [stalls EXCEPT ![j] = @ + 1]
  /\ GoesTo(j, IF stalls[j] = 0 THEN "waiting" ELSE "failed")
  /\ UNCHANGED <<today, enabled, tries, runDate, result, sentKey, faults>>
  /\ UNCHANGED <<counterVars, chatVars, alarmVars>>

-----------------------------------------------------------------------------
(* dispatch: claim the key, send, and undo the claim when sending fails. *)

\* Mutant of Claim: SET without NX.
ClaimOverwrites(j) ==
  /\ job[j] = "claim"
  /\ sentKey' = sentKey \cup {runDate[j]}
  /\ GoesTo(j, "send")
  /\ UNCHANGED <<today, enabled, tries, stalls, runDate, result, faults>>
  /\ UNCHANGED <<counterVars, chatVars, alarmVars>>

\* Mutant of Claim: the key does not name the date.
ClaimAnyDate(j) ==
  /\ job[j] = "claim"
  /\ \/ /\ sentKey = {}
        /\ sentKey' = {runDate[j]}
        /\ GoesTo(j, "send")
        /\ UNCHANGED result
     \/ /\ sentKey # {}
        /\ Reports(j, "skipped")
        /\ UNCHANGED sentKey
  /\ UNCHANGED <<today, enabled, tries, stalls, runDate, faults>>
  /\ UNCHANGED <<counterVars, chatVars, alarmVars>>

Claim(j) ==
  /\ job[j] = "claim"
  /\ \/ /\ runDate[j] \notin sentKey
        /\ sentKey' = sentKey \cup {runDate[j]}
        /\ GoesTo(j, "send")
        /\ UNCHANGED result
     \/ /\ runDate[j] \in sentKey
        /\ Reports(j, "skipped")
        /\ UNCHANGED sentKey
  /\ UNCHANGED <<today, enabled, tries, stalls, runDate, faults>>
  /\ UNCHANGED <<counterVars, chatVars, alarmVars>>

\* SET NX throws, carried out or not; or it is carried out, its answer is lost,
\* and the client sends it again and finds the key.
ClaimFails(j) ==
  /\ job[j] = "claim"
  /\ Fault
  /\ \/ /\ Reports(j, "threw")
        /\ sentKey' \in {sentKey, sentKey \cup {runDate[j]}}
     \/ /\ Reports(j, "skipped")
        /\ sentKey' = sentKey \cup {runDate[j]}
  /\ UNCHANGED <<today, enabled, tries, stalls, runDate>>
  /\ UNCHANGED <<counterVars, chatVars, alarmVars>>

ReachesTheChat(j) ==
  /\ delivered' = [delivered EXCEPT ![runDate[j]] = @ + 1]
  /\ sentSinceOff' = IF enabled THEN 0 ELSE sentSinceOff + 1

Delivered(j) ==
  /\ job[j] \in {"send", "plain"}
  /\ ReachesTheChat(j)
  /\ streak' = 0
  /\ alarmed' = FALSE
  /\ GoesTo(j, "reset")
  /\ UNCHANGED <<today, enabled, tries, stalls, runDate, result, sentKey, faults>>
  /\ UNCHANGED counterVars

\* Telegram cannot parse the MarkdownV2; the text is sent again without it.
MarkdownRefused(j) ==
  /\ job[j] = "send"
  /\ GoesTo(j, "plain")
  /\ UNCHANGED <<today, enabled, tries, stalls, runDate, result, sentKey, faults>>
  /\ UNCHANGED <<counterVars, chatVars, alarmVars>>

\* Any other refusal, 429 and 5xx included, is thrown.
GivesUp(j) ==
  /\ job[j] \in {"send", "plain"}
  /\ streak' = streak + 1
  /\ GoesTo(j, "release")
  /\ UNCHANGED <<today, enabled, tries, stalls, runDate, result, sentKey, alarmed>>
  /\ UNCHANGED counterVars

Refused(j) ==
  /\ GivesUp(j)
  /\ UNCHANGED <<chatVars, faults>>

\* adaptError reads an error without a response as 500.
AnswerLost(j) ==
  /\ GivesUp(j)
  /\ ReachesTheChat(j)
  /\ Fault

ResetFailureCounter(j) ==
  /\ job[j] = "reset"
  /\ failures' = 0
  /\ counterDay' = 0
  /\ Reports(j, "sent")
  /\ UNCHANGED <<today, enabled, tries, stalls, runDate, sentKey, count, faults>>
  /\ UNCHANGED <<chatVars, alarmVars>>

\* The catch block of dispatch also sees a failed reset, after a successful send.
ResetFails(j) ==
  /\ job[j] = "reset"
  /\ Fault
  /\ \/ UNCHANGED counterVars
     \/ failures' = 0 /\ counterDay' = 0 /\ UNCHANGED count
  /\ GoesTo(j, "release")
  /\ UNCHANGED <<today, enabled, tries, stalls, runDate, result, sentKey>>
  /\ UNCHANGED <<chatVars, alarmVars>>

\* Mutant of ReleaseKey: the key of another date is deleted.
ReleaseToday(j) ==
  /\ job[j] = "release"
  /\ sentKey' = sentKey \ {today}
  /\ GoesTo(j, "count")
  /\ UNCHANGED <<today, enabled, tries, stalls, runDate, result, faults>>
  /\ UNCHANGED <<counterVars, chatVars, alarmVars>>

ReleaseKey(j) ==
  /\ job[j] = "release"
  /\ sentKey' = sentKey \ {runDate[j]}
  /\ GoesTo(j, "count")
  /\ UNCHANGED <<today, enabled, tries, stalls, runDate, result, faults>>
  /\ UNCHANGED <<counterVars, chatVars, alarmVars>>

ReleaseFails(j) ==
  /\ job[j] = "release"
  /\ Fault
  /\ sentKey' \in {sentKey, sentKey \ {runDate[j]}}
  /\ Reports(j, "threw")
  /\ UNCHANGED <<today, enabled, tries, stalls, runDate>>
  /\ UNCHANGED <<counterVars, chatVars, alarmVars>>

Count(j) ==
  /\ job[j] = "count"
  /\ failures' = failures + 1
  /\ count' = failures'
  /\ GoesTo(j, "ttl")
  /\ UNCHANGED <<today, enabled, tries, stalls, runDate, result, sentKey, faults>>
  /\ UNCHANGED <<counterDay, chatVars, alarmVars>>

\* INCR throws, carried out or not; or it is carried out twice.
CountFails(j) ==
  /\ job[j] = "count"
  /\ Fault
  /\ \/ /\ Reports(j, "threw")
        /\ failures' \in {failures, failures + 1}
        /\ UNCHANGED count
     \/ /\ GoesTo(j, "ttl")
        /\ failures' = failures + 2
        /\ count' = failures'
        /\ UNCHANGED result
  /\ UNCHANGED <<today, enabled, tries, stalls, runDate, sentKey>>
  /\ UNCHANGED <<counterDay, chatVars, alarmVars>>

\* Mutant of ExpireAndAlarm: the alarm waits for one failure more.
ExpireAndAlarmLate(j) ==
  /\ job[j] = "ttl"
  /\ counterDay' = IF failures = 0 THEN 0 ELSE today
  /\ alarmed' = (alarmed \/ count > Threshold)
  /\ Reports(j, "threw")
  /\ UNCHANGED <<today, enabled, tries, stalls, runDate, sentKey, faults>>
  /\ UNCHANGED <<failures, count, chatVars, streak>>

\* EXPIRE, then the alarm: emitSelfHeal swallows the errors of Ops Bot.
ExpireAndAlarm(j) ==
  /\ job[j] = "ttl"
  /\ counterDay' = IF failures = 0 THEN 0 ELSE today
  /\ alarmed' = (alarmed \/ count >= Threshold)
  /\ Reports(j, "threw")
  /\ UNCHANGED <<today, enabled, tries, stalls, runDate, sentKey, faults>>
  /\ UNCHANGED <<failures, count, chatVars, streak>>

ExpireFails(j) ==
  /\ job[j] = "ttl"
  /\ Fault
  /\ counterDay' \in {counterDay, IF failures = 0 THEN 0 ELSE today}
  /\ Reports(j, "threw")
  /\ UNCHANGED <<today, enabled, tries, stalls, runDate, sentKey>>
  /\ UNCHANGED <<failures, count, chatVars, alarmVars>>

-----------------------------------------------------------------------------
DispatchStep(j) ==
  \/ Claim(j) \/ Delivered(j) \/ MarkdownRefused(j) \/ Refused(j)
  \/ ResetFailureCounter(j) \/ ReleaseKey(j) \/ Count(j) \/ ExpireAndAlarm(j)

DispatchFault(j) ==
  \/ ClaimFails(j) \/ AnswerLost(j) \/ ResetFails(j) \/ ReleaseFails(j)
  \/ CountFails(j) \/ ExpireFails(j) \/ Crash(j)

WorkerStep(j) ==
  Start(j) \/ StartSwitchedOff(j) \/ Settle(j) \/ Recover(j) \/ DispatchStep(j)

Next ==
  \/ DayPasses \/ ConfigReloaded
  \/ CounterLapses \/ CounterLapsesUncounted
  \/ \E d \in Days : SentKeyLapses(d)
  \/ \E j \in Jobs : Enqueue(j) \/ WorkerStep(j) \/ DispatchFault(j)

Spec == Init /\ [][Next]_vars

\* Every await ends, the worker takes jobs as long as there are some, BullMQ looks
\* for stalled jobs, and the process is restarted.  Nothing makes jobs due, the
\* clock or the configuration move, or a fault happen.
FairSpec == Spec /\ WF_vars(\E j \in Jobs : WorkerStep(j))

-----------------------------------------------------------------------------
(* Properties.                                                             *)

\* The shape of every variable; one job at a time holds the worker, and BullMQ's
\* counts stay within what it allows.
TypeOK ==
  /\ today \in Days
  /\ enabled \in BOOLEAN
  /\ job \in [Jobs -> JobStates]
  /\ \A i, j \in Jobs : job[i] \in Running /\ job[j] \in Running => i = j
  /\ tries \in [Jobs -> 0..MaxAttempts]
  /\ stalls \in [Jobs -> 0..2]
  /\ runDate \in [Jobs -> 0..today]
  /\ result \in [Jobs -> Results]
  /\ sentKey \subseteq 1..today
  /\ failures \in Nat
  /\ counterDay \in 0..today
  /\ count \in Nat
  /\ delivered \in [Days -> Nat]
  /\ sentSinceOff \in Nat
  /\ streak \in Nat
  /\ alarmed \in BOOLEAN
  /\ faults \in 0..MaxFaults

\* Scheduled and manual jobs, their attempts and their re-runs together: the
\* chat receives one message for a date, and one more only for a fault (a lost
\* answer of Telegram, or a failed reset of the counter after the send, which
\* gives the key of a delivered message back).
OneMessagePerDate == \A d \in Days : delivered[d] <= 1 + faults

\* A run reports "sent" only of a message that reached the chat, and, without
\* faults, "skipped" only when another run's message for its date has.
ReportsAreTrue ==
  \A j \in Jobs :
    /\ result[j] = "sent" => delivered[runDate[j]] >= 1
    /\ result[j] = "skipped" /\ faults = 0 => delivered[runDate[j]] = 1

\* Without faults a key stands for a delivered message or for the run that is
\* sending it: a failed job never leaves a key behind that would make a later
\* attempt, or an operator's trigger, skip a date nobody was sent.
KeyStandsForMessage ==
  faults = 0 =>
    \A d \in sentKey :
      \/ delivered[d] = 1
      \/ \E j \in Jobs : runDate[j] = d /\ job[j] \in {"send", "plain", "release"}

\* Between two failures being counted, the alarm has been raised in the current
\* streak of failures exactly when the streak has reached the threshold, over
\* all jobs and attempts: neither missed nor raised early.
AlarmAtThreshold ==
  faults = 0 /\ (\A j \in Jobs : job[j] \notin {"release", "count", "ttl"})
    => (alarmed <=> streak >= Threshold)

\* Switching the kind off lets at most the message already on its way through:
\* neither retries, nor re-runs after a crash, nor waiting jobs send another.
SwitchOffStops == sentSinceOff <= 1

\* What the dispatcher logs when it skips, "already sent today".
AlreadySentIsTrue ==
  \A j \in Jobs : result[j] = "skipped" => delivered[runDate[j]] >= 1

\* Every queued job is done or has failed in the end, whatever Telegram answers
\* and however often the process dies under it.
EveryJobSettles == \A j \in Jobs : job[j] = "waiting" ~> job[j] \in Settled
=============================================================================
