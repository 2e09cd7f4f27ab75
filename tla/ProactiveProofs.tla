------------------------ MODULE ProactiveProofs ------------------------
(***************************************************************************)
(* The invariants of ProactiveDispatch, proved for every set of jobs,      *)
(* calendar, number of attempts, threshold and number of faults.           *)
(***************************************************************************)
EXTENDS ProactiveDispatch, TLAPS

-----------------------------------------------------------------------------
(* The inductive invariant.                                                *)

\* BullMQ can still settle a job that is not settled, and a run that got as far
\* as the dispatcher, or reported of it, has a date.
Limits ==
  \A j \in Jobs :
    /\ job[j] \notin Settled => tries[j] < MaxAttempts /\ stalls[j] <= 1
    /\ job[j] \in Running \ {"returned"} => runDate[j] \in Days
    /\ result[j] \in {"sent", "skipped"} => runDate[j] \in Days

\* The run that sends for a date holds its key.
KeyHeld ==
  \A j \in Jobs :
    job[j] \in {"send", "plain", "reset", "release"} => runDate[j] \in sentKey

\* Where another message for a date can still come from, the faults so far pay
\* for the messages there are: a date whose key is free, and a run before its send
\* or after a failed one.
Paid ==
  /\ \A d \in Days :
        d \notin sentKey
        /\ (today <= d \/ \E j \in Jobs : job[j] = "claim" /\ runDate[j] = d)
          => delivered[d] <= faults
  /\ \A j \in Jobs :
        job[j] \in {"send", "plain", "release"} => delivered[runDate[j]] <= faults

\* A run that has to reset the counter has delivered its message.
ResetAfterSend == \A j \in Jobs : job[j] = "reset" => delivered[runDate[j]] >= 1

\* Without faults the counter is the streak, give or take the failure under way.
CounterIsStreak ==
  faults = 0 =>
    /\ \A j \in Jobs :
          /\ job[j] = "reset" => streak = 0 /\ ~alarmed
          /\ job[j] \in {"release", "count"}
               => streak = failures + 1 /\ (alarmed <=> streak > Threshold)
          /\ job[j] = "ttl"
               => /\ streak = failures /\ count = failures
                  /\ (alarmed <=> streak > Threshold)
    /\ (\A j \in Jobs : job[j] \notin {"reset", "release", "count", "ttl"})
         => streak = failures /\ (alarmed <=> streak >= Threshold)

\* After a message since the switch went off, no run is on its way to another.
OffIsQuiet ==
  /\ SwitchOffStops
  /\ enabled => sentSinceOff = 0
  /\ \A j \in Jobs : job[j] \in {"claim", "send", "plain"} => sentSinceOff = 0

Shape == TypeOK /\ Limits

Messages == OneMessagePerDate /\ KeyHeld /\ Paid

TrueReports == ResetAfterSend /\ KeyStandsForMessage /\ ReportsAreTrue

IInv == Shape /\ Messages /\ TrueReports /\ CounterIsStreak /\ OffIsQuiet

-----------------------------------------------------------------------------
(* The steps, one action at a time.                                        *)

USE DEF jobVars, counterVars, chatVars, alarmVars, GoesTo, Reports, Fault, Days,
        Running, Settled, JobStates, Results

\* Every variable keeps its type, and every job its limits.
LEMMA ShapeStep == Shape /\ [Next]_vars => Shape'
<1> SUFFICES ASSUME Shape, [Next]_vars PROVE Shape'
  OBVIOUS
<1> USE LastDayAssumption, MaxAttemptsAssumption, ThresholdAssumption, MaxFaultsAssumption
    DEF Shape, TypeOK, Limits
<1>1. ASSUME DayPasses PROVE Shape'
  BY <1>1 DEF DayPasses
<1>2. ASSUME ConfigReloaded PROVE Shape'
  BY <1>2 DEF ConfigReloaded
<1>3. ASSUME CounterLapses PROVE Shape'
  <2>1. /\ streak' \in {0, 1} /\ failures' = 0 /\ counterDay' = 0 /\ alarmed' = FALSE
        /\ UNCHANGED <<today, enabled, sentKey, count, job, tries, stalls, runDate,
                       result, delivered, sentSinceOff>>
    BY <1>3 DEF CounterLapses
  <2>2. faults' \in 0..MaxFaults
    BY <1>3 DEF CounterLapses
  <2>3. /\ streak' \in Nat /\ failures' \in Nat /\ count' \in Nat
        /\ counterDay' \in 0..today'
    BY <2>1
  <2>5. alarmed' \in BOOLEAN
    BY <2>1, Zenon
  <2>4. Limits'
    BY <2>1
  <2> QED
    BY <2>1, <2>2, <2>3, <2>4, <2>5
<1>4. ASSUME CounterLapsesUncounted PROVE Shape'
  <2>1. /\ streak' \in {0, 1} /\ failures' = 0 /\ counterDay' = 0 /\ alarmed' = FALSE
        /\ UNCHANGED <<today, enabled, sentKey, count, job, tries, stalls, runDate,
                       result, delivered, sentSinceOff>>
    BY <1>4 DEF CounterLapsesUncounted
  <2>2. faults' \in 0..MaxFaults
    BY <1>4 DEF CounterLapsesUncounted
  <2>3. /\ streak' \in Nat /\ failures' \in Nat /\ count' \in Nat
        /\ counterDay' \in 0..today'
    BY <2>1
  <2>5. alarmed' \in BOOLEAN
    BY <2>1, Zenon
  <2>4. Limits'
    BY <2>1
  <2> QED
    BY <2>1, <2>2, <2>3, <2>4, <2>5
<1>5. ASSUME NEW d \in Days, SentKeyLapses(d) PROVE Shape'
  BY <1>5 DEF SentKeyLapses
<1>6. ASSUME NEW j \in Jobs, Enqueue(j) PROVE Shape'
  BY <1>6 DEF Enqueue
<1>7. ASSUME NEW j \in Jobs, Start(j) PROVE Shape'
  BY <1>7 DEF Start, StartWith, WorkerIsFree
<1>8. ASSUME NEW j \in Jobs, StartSwitchedOff(j) PROVE Shape'
  BY <1>8 DEF StartSwitchedOff, StartWith, WorkerIsFree
<1>9. ASSUME NEW j \in Jobs, Settle(j) PROVE Shape'
  <2>1. CASE result[j] # "threw"
    BY <2>1, <1>9 DEF Settle
  <2>2. CASE result[j] = "threw"
    <3>1. tries' = [tries EXCEPT ![j] = tries[j] + 1]
      BY <2>2, <1>9 DEF Settle
    <3>2. tries[j] \in 0..MaxAttempts /\ tries[j] < MaxAttempts
      BY <1>9 DEF Settle
    <3>3. tries' \in [Jobs -> 0..MaxAttempts]
      BY <3>1, <3>2
    <3>4. job' \in [Jobs -> JobStates]
      BY <2>2, <1>9 DEF Settle
    <3>5. \A i \in Jobs : job'[i] \notin Settled => tries'[i] < MaxAttempts
      BY <3>1, <2>2, <1>9 DEF Settle
    <3> QED
      BY <3>3, <3>4, <3>5, <2>2, <1>9 DEF Settle
  <2> QED
    BY <2>1, <2>2
<1>10. ASSUME NEW j \in Jobs, Recover(j) PROVE Shape'
  <2>0. job[j] \notin Settled /\ stalls[j] \in 0..2
    BY <1>10 DEF Recover
  <2>1. stalls' = [stalls EXCEPT ![j] = stalls[j] + 1]
    BY <1>10 DEF Recover
  <2>5. stalls[j] <= 1
    BY <2>0
  <2>2. stalls' \in [Jobs -> 0..2]
    BY <2>0, <2>1, <2>5
  <2>3. job' \in [Jobs -> JobStates]
    BY <1>10 DEF Recover
  <2>4. \A i \in Jobs : job'[i] \notin Settled => stalls'[i] <= 1 /\ tries[i] < MaxAttempts
    BY <2>0, <2>1, <2>5, <1>10 DEF Recover
  <2> QED
    BY <2>2, <2>3, <2>4, <1>10 DEF Recover
<1>11. ASSUME NEW j \in Jobs, Claim(j) PROVE Shape'
  <2>1. runDate[j] \in 1..today
    BY <1>11 DEF Claim
  <2>2. sentKey' \subseteq 1..today
    BY <2>1, <1>11 DEF Claim
  <2>3. faults' \in 0..MaxFaults
    BY <1>11 DEF Claim
  <2>4. job' \in [Jobs -> JobStates] /\ result' \in [Jobs -> Results]
    BY <1>11 DEF Claim
  <2> QED
    BY <2>1, <2>2, <2>3, <2>4, <1>11 DEF Claim
<1>12. ASSUME NEW j \in Jobs, Delivered(j) PROVE Shape'
  <2>1. runDate[j] \in Days
    BY <1>12 DEF Delivered
  <2>2. delivered' = [delivered EXCEPT ![runDate[j]] = delivered[runDate[j]] + 1]
    BY <1>12 DEF Delivered, ReachesTheChat
  <2>3. delivered' \in [Days -> Nat]
    BY <2>1, <2>2
  <2>4. sentSinceOff' \in Nat
    BY <1>12 DEF Delivered, ReachesTheChat
  <2>5. job' \in [Jobs -> JobStates] /\ streak' \in Nat /\ faults' \in 0..MaxFaults
    BY <1>12 DEF Delivered
  <2> QED
    BY <2>3, <2>4, <2>5, <1>12 DEF Delivered
<1>13. ASSUME NEW j \in Jobs, MarkdownRefused(j) PROVE Shape'
  BY <1>13 DEF MarkdownRefused
<1>14. ASSUME NEW j \in Jobs, Refused(j) PROVE Shape'
  BY <1>14 DEF Refused, GivesUp
<1>15. ASSUME NEW j \in Jobs, ResetFailureCounter(j) PROVE Shape'
  BY <1>15 DEF ResetFailureCounter
<1>16. ASSUME NEW j \in Jobs, ReleaseKey(j) PROVE Shape'
  BY <1>16 DEF ReleaseKey
<1>17. ASSUME NEW j \in Jobs, Count(j) PROVE Shape'
  <2>1. failures' \in Nat /\ count' \in Nat /\ counterDay' \in 0..today
    BY <1>17 DEF Count
  <2>2. faults' \in 0..MaxFaults
    BY <1>17 DEF Count
  <2>3. job' \in [Jobs -> JobStates] /\ result' \in [Jobs -> Results]
    BY <1>17 DEF Count
  <2> QED
    BY <2>1, <2>2, <2>3, <1>17 DEF Count
<1>18. ASSUME NEW j \in Jobs, ExpireAndAlarm(j) PROVE Shape'
  BY <1>18 DEF ExpireAndAlarm
<1>19. ASSUME NEW j \in Jobs, ClaimFails(j) PROVE Shape'
  <2>1. runDate[j] \in 1..today
    BY <1>19 DEF ClaimFails
  <2>2. sentKey' \subseteq 1..today
    BY <2>1, <1>19 DEF ClaimFails
  <2>3. faults' \in 0..MaxFaults
    BY <1>19 DEF ClaimFails
  <2>4. job' \in [Jobs -> JobStates] /\ result' \in [Jobs -> Results]
    BY <1>19 DEF ClaimFails
  <2> QED
    BY <2>1, <2>2, <2>3, <2>4, <1>19 DEF ClaimFails
<1>20. ASSUME NEW j \in Jobs, AnswerLost(j) PROVE Shape'
  <2>1. runDate[j] \in Days
    BY <1>20 DEF AnswerLost, GivesUp
  <2>2. delivered' = [delivered EXCEPT ![runDate[j]] = delivered[runDate[j]] + 1]
    BY <1>20 DEF AnswerLost, ReachesTheChat
  <2>3. delivered' \in [Days -> Nat]
    BY <2>1, <2>2
  <2>4. sentSinceOff' \in Nat
    BY <1>20 DEF AnswerLost, ReachesTheChat
  <2>5. job' \in [Jobs -> JobStates] /\ streak' \in Nat /\ faults' \in 0..MaxFaults
    BY <1>20 DEF AnswerLost, GivesUp
  <2> QED
    BY <2>3, <2>4, <2>5, <1>20 DEF AnswerLost, GivesUp
<1>21. ASSUME NEW j \in Jobs, ResetFails(j) PROVE Shape'
  <2>1. failures' \in Nat /\ count' \in Nat /\ counterDay' \in 0..today
    BY <1>21 DEF ResetFails
  <2>2. faults' \in 0..MaxFaults
    BY <1>21 DEF ResetFails
  <2>3. job' \in [Jobs -> JobStates] /\ result' \in [Jobs -> Results]
    BY <1>21 DEF ResetFails
  <2> QED
    BY <2>1, <2>2, <2>3, <1>21 DEF ResetFails
<1>22. ASSUME NEW j \in Jobs, ReleaseFails(j) PROVE Shape'
  BY <1>22 DEF ReleaseFails
<1>23. ASSUME NEW j \in Jobs, CountFails(j) PROVE Shape'
  <2>1. failures' \in Nat /\ count' \in Nat /\ counterDay' \in 0..today
    BY <1>23 DEF CountFails
  <2>2. faults' \in 0..MaxFaults
    BY <1>23 DEF CountFails
  <2>3. job' \in [Jobs -> JobStates] /\ result' \in [Jobs -> Results]
    BY <1>23 DEF CountFails
  <2> QED
    BY <2>1, <2>2, <2>3, <1>23 DEF CountFails
<1>24. ASSUME NEW j \in Jobs, ExpireFails(j) PROVE Shape'
  BY <1>24 DEF ExpireFails
<1>25. ASSUME NEW j \in Jobs, Crash(j) PROVE Shape'
  BY <1>25 DEF Crash
<1>26. CASE UNCHANGED vars
  BY <1>26 DEF vars
<1> QED
  BY <1>1, <1>2, <1>3, <1>4, <1>5, <1>6, <1>7, <1>8, <1>9, <1>10, <1>11, <1>12, <1>13,
     <1>14, <1>15, <1>16, <1>17, <1>18, <1>19, <1>20, <1>21, <1>22, <1>23, <1>24, <1>25, <1>26
  DEF Next, WorkerStep, DispatchStep, DispatchFault

\* One message for a date and fault, kept up by the keys.
LEMMA MessagesStep == Shape /\ Messages /\ [Next]_vars => Messages'
<1> SUFFICES ASSUME Shape, Messages, [Next]_vars PROVE Messages'
  OBVIOUS
<1> USE LastDayAssumption
    DEF Shape, TypeOK, Limits, Messages, OneMessagePerDate, KeyHeld, Paid
<1>1. ASSUME DayPasses PROVE Messages'
  BY <1>1 DEF DayPasses
<1>2. ASSUME ConfigReloaded PROVE Messages'
  BY <1>2 DEF ConfigReloaded
<1>3. ASSUME CounterLapses PROVE Messages'
  BY <1>3 DEF CounterLapses, CounterIsDue, ToBeCounted
<1>4. ASSUME CounterLapsesUncounted PROVE Messages'
  BY <1>4 DEF CounterLapsesUncounted, CounterIsDue
<1>5. ASSUME NEW d \in Days, SentKeyLapses(d) PROVE Messages'
  BY <1>5 DEF SentKeyLapses
<1>6. ASSUME NEW j \in Jobs, Enqueue(j) PROVE Messages'
  BY <1>6 DEF Enqueue
<1>7. ASSUME NEW j \in Jobs, Start(j) PROVE Messages'
  BY <1>7 DEF Start, StartWith, WorkerIsFree
<1>8. ASSUME NEW j \in Jobs, StartSwitchedOff(j) PROVE Messages'
  BY <1>8 DEF StartSwitchedOff, StartWith, WorkerIsFree
<1>9. ASSUME NEW j \in Jobs, Settle(j) PROVE Messages'
  BY <1>9 DEF Settle
<1>10. ASSUME NEW j \in Jobs, Recover(j) PROVE Messages'
  BY <1>10 DEF Recover
<1>11. ASSUME NEW j \in Jobs, Claim(j) PROVE Messages'
  BY <1>11 DEF Claim
<1>12. ASSUME NEW j \in Jobs, Delivered(j) PROVE Messages'
  BY <1>12 DEF Delivered, ReachesTheChat
<1>13. ASSUME NEW j \in Jobs, MarkdownRefused(j) PROVE Messages'
  BY <1>13 DEF MarkdownRefused
<1>14. ASSUME NEW j \in Jobs, Refused(j) PROVE Messages'
  BY <1>14 DEF Refused, GivesUp
<1>15. ASSUME NEW j \in Jobs, ResetFailureCounter(j) PROVE Messages'
  BY <1>15 DEF ResetFailureCounter
<1>16. ASSUME NEW j \in Jobs, ReleaseKey(j) PROVE Messages'
  BY <1>16 DEF ReleaseKey
<1>17. ASSUME NEW j \in Jobs, Count(j) PROVE Messages'
  BY <1>17 DEF Count
<1>18. ASSUME NEW j \in Jobs, ExpireAndAlarm(j) PROVE Messages'
  BY <1>18 DEF ExpireAndAlarm
<1>19. ASSUME NEW j \in Jobs, ClaimFails(j) PROVE Messages'
  BY <1>19 DEF ClaimFails
<1>20. ASSUME NEW j \in Jobs, AnswerLost(j) PROVE Messages'
  <2>1. /\ runDate[j] \in Days /\ runDate[j] \in sentKey
        /\ delivered[runDate[j]] <= faults
    BY <1>20 DEF AnswerLost, GivesUp
  <2>2. /\ delivered' = [delivered EXCEPT ![runDate[j]] = delivered[runDate[j]] + 1]
        /\ faults' = faults + 1
        /\ job' = [job EXCEPT ![j] = "release"]
        /\ UNCHANGED <<today, sentKey, runDate>>
    BY <1>20 DEF AnswerLost, GivesUp, ReachesTheChat
  <2>3. \A d \in Days : delivered'[d] <= delivered[d] + 1 /\ delivered'[d] <= 1 + faults
    BY <2>1, <2>2
  <2>4. OneMessagePerDate'
    BY <2>2, <2>3
  <2>7. KeyHeld'
    BY <2>1, <2>2
  <2>5. \A d \in Days \ sentKey : delivered'[d] = delivered[d]
    BY <2>1, <2>2
  <2>6. Paid'
    <3>1. \A d \in Days :
            d \notin sentKey' /\ (today' <= d \/ \E i \in Jobs : job'[i] = "claim" /\ runDate'[i] = d)
              => delivered'[d] <= faults'
      BY <2>1, <2>2, <2>5
    <3>2. \A i \in Jobs :
            job'[i] \in {"send", "plain", "release"} => delivered'[runDate'[i]] <= faults'
      BY <2>1, <2>2, <2>3, <1>20 DEF AnswerLost, GivesUp
    <3> QED
      BY <3>1, <3>2
  <2> QED
    BY <2>4, <2>6, <2>7
<1>21. ASSUME NEW j \in Jobs, ResetFails(j) PROVE Messages'
  BY <1>21 DEF ResetFails
<1>22. ASSUME NEW j \in Jobs, ReleaseFails(j) PROVE Messages'
  BY <1>22 DEF ReleaseFails
<1>23. ASSUME NEW j \in Jobs, CountFails(j) PROVE Messages'
  BY <1>23 DEF CountFails
<1>24. ASSUME NEW j \in Jobs, ExpireFails(j) PROVE Messages'
  BY <1>24 DEF ExpireFails
<1>25. ASSUME NEW j \in Jobs, Crash(j) PROVE Messages'
  BY <1>25 DEF Crash
<1>26. CASE UNCHANGED vars
  BY <1>26 DEF vars
<1> QED
  BY <1>1, <1>2, <1>3, <1>4, <1>5, <1>6, <1>7, <1>8, <1>9, <1>10, <1>11, <1>12, <1>13,
     <1>14, <1>15, <1>16, <1>17, <1>18, <1>19, <1>20, <1>21, <1>22, <1>23, <1>24, <1>25, <1>26
  DEF Next, WorkerStep, DispatchStep, DispatchFault

\* What runs report, and what keys stand for.
LEMMA ReportsStep ==
  Shape /\ Messages /\ Messages' /\ TrueReports /\ [Next]_vars => TrueReports'
<1> SUFFICES ASSUME Shape, Messages, Messages', TrueReports, [Next]_vars
             PROVE  TrueReports'
  OBVIOUS
<1> USE LastDayAssumption, MaxFaultsAssumption
    DEF Shape, TypeOK, Limits, Messages, OneMessagePerDate, KeyHeld, Paid,
        TrueReports, ResetAfterSend, KeyStandsForMessage, ReportsAreTrue
<1>1. ASSUME DayPasses PROVE TrueReports'
  BY <1>1 DEF DayPasses
<1>2. ASSUME ConfigReloaded PROVE TrueReports'
  BY <1>2 DEF ConfigReloaded
<1>3. ASSUME CounterLapses PROVE TrueReports'
  BY <1>3 DEF CounterLapses, CounterIsDue, ToBeCounted
<1>4. ASSUME CounterLapsesUncounted PROVE TrueReports'
  BY <1>4 DEF CounterLapsesUncounted, CounterIsDue
<1>5. ASSUME NEW d \in Days, SentKeyLapses(d) PROVE TrueReports'
  BY <1>5 DEF SentKeyLapses
<1>6. ASSUME NEW j \in Jobs, Enqueue(j) PROVE TrueReports'
  <2>1. ResetAfterSend'
    BY <1>6 DEF Enqueue
  <2>2. KeyStandsForMessage'
    BY <1>6 DEF Enqueue
  <2>3. ReportsAreTrue'
    BY <1>6 DEF Enqueue
  <2> QED
    BY <2>1, <2>2, <2>3
<1>7. ASSUME NEW j \in Jobs, Start(j) PROVE TrueReports'
  BY <1>7 DEF Start, StartWith, WorkerIsFree
<1>8. ASSUME NEW j \in Jobs, StartSwitchedOff(j) PROVE TrueReports'
  BY <1>8 DEF StartSwitchedOff, StartWith, WorkerIsFree
<1>9. ASSUME NEW j \in Jobs, Settle(j) PROVE TrueReports'
  <2>1. ResetAfterSend'
    BY <1>9 DEF Settle
  <2>2. KeyStandsForMessage'
    <3> SUFFICES ASSUME faults = 0, NEW d \in sentKey
                 PROVE  \/ delivered[d] = 1
                        \/ \E i \in Jobs : runDate[i] = d
                                           /\ job'[i] \in {"send", "plain", "release"}
      BY <1>9 DEF Settle
    <3>1. ASSUME NEW i \in Jobs, job[i] \in {"send", "plain", "release"}
          PROVE  job'[i] = job[i]
      BY <3>1, <1>9 DEF Settle
    <3>2. CASE delivered[d] = 1
      BY <3>2
    <3>3. CASE \E i \in Jobs : runDate[i] = d /\ job[i] \in {"send", "plain", "release"}
      BY <3>1, <3>3
    <3> QED
      BY <3>2, <3>3
  <2>3. ReportsAreTrue'
    BY <1>9 DEF Settle
  <2> QED
    BY <2>1, <2>2, <2>3
<1>10. ASSUME NEW j \in Jobs, Recover(j) PROVE TrueReports'
  <2>1. ResetAfterSend'
    BY <1>10 DEF Recover
  <2>2. KeyStandsForMessage'
    BY <1>10 DEF Recover
  <2>3. ReportsAreTrue'
    BY <1>10 DEF Recover
  <2> QED
    BY <2>1, <2>2, <2>3
<1>11. ASSUME NEW j \in Jobs, Claim(j) PROVE TrueReports'
  <2>1. ResetAfterSend'
    BY <1>11 DEF Claim
  <2>2. CASE runDate[j] \notin sentKey
    <3>1. /\ sentKey' = sentKey \cup {runDate[j]}
          /\ job' = [job EXCEPT ![j] = "send"]
          /\ UNCHANGED <<result, runDate, delivered, faults>>
      BY <2>2, <1>11 DEF Claim
    <3>2. KeyStandsForMessage'
      BY <3>1, <1>11 DEF Claim
    <3>3. ReportsAreTrue'
      BY <3>1
    <3> QED
      BY <2>1, <3>2, <3>3
  <2>3. CASE runDate[j] \in sentKey
    <3>1. /\ sentKey' = sentKey
          /\ job' = [job EXCEPT ![j] = "returned"]
          /\ result' = [result EXCEPT ![j] = "skipped"]
          /\ UNCHANGED <<runDate, delivered, faults>>
      BY <2>3, <1>11 DEF Claim
    <3>2. \A i \in Jobs : job[i] \in {"send", "plain", "release"} => FALSE
      BY <1>11 DEF Claim
    <3>3. faults = 0 => \A d \in sentKey : delivered[d] = 1
      BY <3>2
    <3>4. KeyStandsForMessage'
      BY <3>1, <3>3
    <3>5. ReportsAreTrue'
      BY <2>3, <3>1, <3>3
    <3> QED
      BY <2>1, <3>4, <3>5
  <2> QED
    BY <2>2, <2>3
<1>12. ASSUME NEW j \in Jobs, Delivered(j) PROVE TrueReports'
  BY <1>12 DEF Delivered, ReachesTheChat
<1>13. ASSUME NEW j \in Jobs, MarkdownRefused(j) PROVE TrueReports'
  BY <1>13 DEF MarkdownRefused
<1>14. ASSUME NEW j \in Jobs, Refused(j) PROVE TrueReports'
  BY <1>14 DEF Refused, GivesUp
<1>15. ASSUME NEW j \in Jobs, ResetFailureCounter(j) PROVE TrueReports'
  BY <1>15 DEF ResetFailureCounter
<1>16. ASSUME NEW j \in Jobs, ReleaseKey(j) PROVE TrueReports'
  BY <1>16 DEF ReleaseKey
<1>17. ASSUME NEW j \in Jobs, Count(j) PROVE TrueReports'
  <2>1. ResetAfterSend'
    BY <1>17 DEF Count
  <2>2. KeyStandsForMessage'
    BY <1>17 DEF Count
  <2>3. ReportsAreTrue'
    BY <1>17 DEF Count
  <2> QED
    BY <2>1, <2>2, <2>3
<1>18. ASSUME NEW j \in Jobs, ExpireAndAlarm(j) PROVE TrueReports'
  <2>1. ResetAfterSend'
    BY <1>18 DEF ExpireAndAlarm
  <2>2. KeyStandsForMessage'
    BY <1>18 DEF ExpireAndAlarm
  <2>3. ReportsAreTrue'
    BY <1>18 DEF ExpireAndAlarm
  <2> QED
    BY <2>1, <2>2, <2>3
<1>19. ASSUME NEW j \in Jobs, ClaimFails(j) PROVE TrueReports'
  BY <1>19 DEF ClaimFails
<1>20. ASSUME NEW j \in Jobs, AnswerLost(j) PROVE TrueReports'
  BY <1>20 DEF AnswerLost, GivesUp, ReachesTheChat
<1>21. ASSUME NEW j \in Jobs, ResetFails(j) PROVE TrueReports'
  BY <1>21 DEF ResetFails
<1>22. ASSUME NEW j \in Jobs, ReleaseFails(j) PROVE TrueReports'
  BY <1>22 DEF ReleaseFails
<1>23. ASSUME NEW j \in Jobs, CountFails(j) PROVE TrueReports'
  BY <1>23 DEF CountFails
<1>24. ASSUME NEW j \in Jobs, ExpireFails(j) PROVE TrueReports'
  BY <1>24 DEF ExpireFails
<1>25. ASSUME NEW j \in Jobs, Crash(j) PROVE TrueReports'
  BY <1>25 DEF Crash
<1>26. CASE UNCHANGED vars
  BY <1>26 DEF vars
<1> QED
  BY <1>1, <1>2, <1>3, <1>4, <1>5, <1>6, <1>7, <1>8, <1>9, <1>10, <1>11, <1>12, <1>13,
     <1>14, <1>15, <1>16, <1>17, <1>18, <1>19, <1>20, <1>21, <1>22, <1>23, <1>24, <1>25, <1>26
  DEF Next, WorkerStep, DispatchStep, DispatchFault

\* The counter, the streak and the alarm.
LEMMA CounterStep == Shape /\ CounterIsStreak /\ [Next]_vars => CounterIsStreak'
<1> SUFFICES ASSUME Shape, CounterIsStreak, [Next]_vars PROVE CounterIsStreak'
  OBVIOUS
<1> USE ThresholdAssumption, MaxFaultsAssumption DEF Shape, TypeOK, CounterIsStreak
<1>1. ASSUME DayPasses PROVE CounterIsStreak'
  BY <1>1 DEF DayPasses
<1>2. ASSUME ConfigReloaded PROVE CounterIsStreak'
  BY <1>2 DEF ConfigReloaded
<1>3. ASSUME CounterLapses PROVE CounterIsStreak'
  BY <1>3 DEF CounterLapses, CounterIsDue, ToBeCounted
<1>4. ASSUME CounterLapsesUncounted PROVE CounterIsStreak'
  BY <1>4 DEF CounterLapsesUncounted, CounterIsDue
<1>5. ASSUME NEW d \in Days, SentKeyLapses(d) PROVE CounterIsStreak'
  BY <1>5 DEF SentKeyLapses
<1>6. ASSUME NEW j \in Jobs, Enqueue(j) PROVE CounterIsStreak'
  BY <1>6 DEF Enqueue
<1>7. ASSUME NEW j \in Jobs, Start(j) PROVE CounterIsStreak'
  BY <1>7 DEF Start, StartWith, WorkerIsFree
<1>8. ASSUME NEW j \in Jobs, StartSwitchedOff(j) PROVE CounterIsStreak'
  BY <1>8 DEF StartSwitchedOff, StartWith, WorkerIsFree
<1>9. ASSUME NEW j \in Jobs, Settle(j) PROVE CounterIsStreak'
  BY <1>9 DEF Settle
<1>10. ASSUME NEW j \in Jobs, Recover(j) PROVE CounterIsStreak'
  BY <1>10 DEF Recover
<1>11. ASSUME NEW j \in Jobs, Claim(j) PROVE CounterIsStreak'
  BY <1>11 DEF Claim
<1>12. ASSUME NEW j \in Jobs, Delivered(j) PROVE CounterIsStreak'
  BY <1>12 DEF Delivered, ReachesTheChat
<1>13. ASSUME NEW j \in Jobs, MarkdownRefused(j) PROVE CounterIsStreak'
  BY <1>13 DEF MarkdownRefused
<1>14. ASSUME NEW j \in Jobs, Refused(j) PROVE CounterIsStreak'
  BY <1>14 DEF Refused, GivesUp
<1>15. ASSUME NEW j \in Jobs, ResetFailureCounter(j) PROVE CounterIsStreak'
  BY <1>15 DEF ResetFailureCounter
<1>16. ASSUME NEW j \in Jobs, ReleaseKey(j) PROVE CounterIsStreak'
  BY <1>16 DEF ReleaseKey
<1>17. ASSUME NEW j \in Jobs, Count(j) PROVE CounterIsStreak'
  BY <1>17 DEF Count
<1>18. ASSUME NEW j \in Jobs, ExpireAndAlarm(j) PROVE CounterIsStreak'
  <2> SUFFICES ASSUME faults = 0 PROVE CounterIsStreak'
    BY <1>18 DEF ExpireAndAlarm
  <2>1. streak = failures /\ count = failures /\ (alarmed <=> streak > Threshold)
    BY <1>18 DEF ExpireAndAlarm
  <2>2. streak' = streak /\ failures' = failures /\ alarmed' = (alarmed \/ count >= Threshold)
    BY <1>18 DEF ExpireAndAlarm
  <2>3. streak' = failures' /\ (alarmed' <=> streak' >= Threshold)
    <3>1. alarmed => count >= Threshold
      BY <2>1
    <3>2. alarmed' <=> count >= Threshold
      BY <3>1, <2>2, Zenon
    <3>3. streak' = failures' /\ streak' = count
      BY <2>1, <2>2
    <3> QED
      BY <3>2, <3>3
  <2>4. \A i \in Jobs : job'[i] \notin {"reset", "release", "count", "ttl"}
    BY <1>18 DEF ExpireAndAlarm
  <2> QED
    BY <2>3, <2>4
<1>19. ASSUME NEW j \in Jobs, ClaimFails(j) PROVE CounterIsStreak'
  BY <1>19 DEF ClaimFails
<1>20. ASSUME NEW j \in Jobs, AnswerLost(j) PROVE CounterIsStreak'
  BY <1>20 DEF AnswerLost, GivesUp, ReachesTheChat
<1>21. ASSUME NEW j \in Jobs, ResetFails(j) PROVE CounterIsStreak'
  BY <1>21 DEF ResetFails
<1>22. ASSUME NEW j \in Jobs, ReleaseFails(j) PROVE CounterIsStreak'
  BY <1>22 DEF ReleaseFails
<1>23. ASSUME NEW j \in Jobs, CountFails(j) PROVE CounterIsStreak'
  BY <1>23 DEF CountFails
<1>24. ASSUME NEW j \in Jobs, ExpireFails(j) PROVE CounterIsStreak'
  BY <1>24 DEF ExpireFails
<1>25. ASSUME NEW j \in Jobs, Crash(j) PROVE CounterIsStreak'
  BY <1>25 DEF Crash
<1>26. CASE UNCHANGED vars
  BY <1>26 DEF vars
<1> QED
  BY <1>1, <1>2, <1>3, <1>4, <1>5, <1>6, <1>7, <1>8, <1>9, <1>10, <1>11, <1>12, <1>13,
     <1>14, <1>15, <1>16, <1>17, <1>18, <1>19, <1>20, <1>21, <1>22, <1>23, <1>24, <1>25, <1>26
  DEF Next, WorkerStep, DispatchStep, DispatchFault

\* The switch.
LEMMA SwitchStep == Shape /\ OffIsQuiet /\ [Next]_vars => OffIsQuiet'
<1> SUFFICES ASSUME Shape, OffIsQuiet, [Next]_vars PROVE OffIsQuiet'
  OBVIOUS
<1> USE DEF Shape, TypeOK, OffIsQuiet, SwitchOffStops
<1>1. ASSUME DayPasses PROVE OffIsQuiet'
  BY <1>1 DEF DayPasses
<1>2. ASSUME ConfigReloaded PROVE OffIsQuiet'
  BY <1>2 DEF ConfigReloaded
<1>3. ASSUME CounterLapses PROVE OffIsQuiet'
  BY <1>3 DEF CounterLapses, CounterIsDue, ToBeCounted
<1>4. ASSUME CounterLapsesUncounted PROVE OffIsQuiet'
  BY <1>4 DEF CounterLapsesUncounted, CounterIsDue
<1>5. ASSUME NEW d \in Days, SentKeyLapses(d) PROVE OffIsQuiet'
  BY <1>5 DEF SentKeyLapses
<1>6. ASSUME NEW j \in Jobs, Enqueue(j) PROVE OffIsQuiet'
  BY <1>6 DEF Enqueue
<1>7. ASSUME NEW j \in Jobs, Start(j) PROVE OffIsQuiet'
  BY <1>7 DEF Start, StartWith, WorkerIsFree
<1>8. ASSUME NEW j \in Jobs, StartSwitchedOff(j) PROVE OffIsQuiet'
  BY <1>8 DEF StartSwitchedOff, StartWith, WorkerIsFree
<1>9. ASSUME NEW j \in Jobs, Settle(j) PROVE OffIsQuiet'
  BY <1>9 DEF Settle
<1>10. ASSUME NEW j \in Jobs, Recover(j) PROVE OffIsQuiet'
  BY <1>10 DEF Recover
<1>11. ASSUME NEW j \in Jobs, Claim(j) PROVE OffIsQuiet'
  BY <1>11 DEF Claim
<1>12. ASSUME NEW j \in Jobs, Delivered(j) PROVE OffIsQuiet'
  BY <1>12 DEF Delivered, ReachesTheChat
<1>13. ASSUME NEW j \in Jobs, MarkdownRefused(j) PROVE OffIsQuiet'
  BY <1>13 DEF MarkdownRefused
<1>14. ASSUME NEW j \in Jobs, Refused(j) PROVE OffIsQuiet'
  BY <1>14 DEF Refused, GivesUp
<1>15. ASSUME NEW j \in Jobs, ResetFailureCounter(j) PROVE OffIsQuiet'
  BY <1>15 DEF ResetFailureCounter
<1>16. ASSUME NEW j \in Jobs, ReleaseKey(j) PROVE OffIsQuiet'
  BY <1>16 DEF ReleaseKey
<1>17. ASSUME NEW j \in Jobs, Count(j) PROVE OffIsQuiet'
  BY <1>17 DEF Count
<1>18. ASSUME NEW j \in Jobs, ExpireAndAlarm(j) PROVE OffIsQuiet'
  BY <1>18 DEF ExpireAndAlarm
<1>19. ASSUME NEW j \in Jobs, ClaimFails(j) PROVE OffIsQuiet'
  BY <1>19 DEF ClaimFails
<1>20. ASSUME NEW j \in Jobs, AnswerLost(j) PROVE OffIsQuiet'
  BY <1>20 DEF AnswerLost, GivesUp, ReachesTheChat
<1>21. ASSUME NEW j \in Jobs, ResetFails(j) PROVE OffIsQuiet'
  BY <1>21 DEF ResetFails
<1>22. ASSUME NEW j \in Jobs, ReleaseFails(j) PROVE OffIsQuiet'
  BY <1>22 DEF ReleaseFails
<1>23. ASSUME NEW j \in Jobs, CountFails(j) PROVE OffIsQuiet'
  BY <1>23 DEF CountFails
<1>24. ASSUME NEW j \in Jobs, ExpireFails(j) PROVE OffIsQuiet'
  BY <1>24 DEF ExpireFails
<1>25. ASSUME NEW j \in Jobs, Crash(j) PROVE OffIsQuiet'
  BY <1>25 DEF Crash
<1>26. CASE UNCHANGED vars
  BY <1>26 DEF vars
<1> QED
  BY <1>1, <1>2, <1>3, <1>4, <1>5, <1>6, <1>7, <1>8, <1>9, <1>10, <1>11, <1>12, <1>13,
     <1>14, <1>15, <1>16, <1>17, <1>18, <1>19, <1>20, <1>21, <1>22, <1>23, <1>24, <1>25, <1>26
  DEF Next, WorkerStep, DispatchStep, DispatchFault

-----------------------------------------------------------------------------
(* The theorems.                                                           *)

LEMMA InitIInv == Init => IInv
<1> SUFFICES ASSUME Init PROVE IInv
  OBVIOUS
<1> USE LastDayAssumption, MaxAttemptsAssumption, ThresholdAssumption, MaxFaultsAssumption
    DEF Init
<1>1. TypeOK
  <2>1. /\ today \in Days /\ runDate \in [Jobs -> 0..today]
        /\ counterDay \in 0..today /\ sentKey \subseteq 1..today
    OBVIOUS
  <2>2. /\ tries \in [Jobs -> 0..MaxAttempts] /\ stalls \in [Jobs -> 0..2]
        /\ faults \in 0..MaxFaults /\ delivered \in [Days -> Nat]
    OBVIOUS
  <2>3. job \in [Jobs -> JobStates] /\ result \in [Jobs -> Results]
    OBVIOUS
  <2>4. enabled \in BOOLEAN /\ alarmed \in BOOLEAN
    BY Zenon
  <2> QED
    BY <2>1, <2>2, <2>3, <2>4 DEF TypeOK
<1>2. Limits
  <2>1. \A j \in Jobs : tries[j] = 0 /\ stalls[j] = 0
    OBVIOUS
  <2>2. \A j \in Jobs : job[j] = "unqueued" /\ result[j] = "none"
    OBVIOUS
  <2> HIDE DEF Init
  <2>3. 0 < MaxAttempts /\ 0 <= 1
    OBVIOUS
  <2>4. \A j \in Jobs : tries[j] < MaxAttempts /\ stalls[j] <= 1
    BY <2>1, <2>3, Zenon
  <2> QED
    BY <2>2, <2>4 DEF Limits
<1>3. Messages
  BY DEF Messages, OneMessagePerDate, KeyHeld, Paid
<1>4. TrueReports
  BY DEF TrueReports, ResetAfterSend, KeyStandsForMessage, ReportsAreTrue
<1>5. CounterIsStreak
  BY DEF CounterIsStreak
<1>6. OffIsQuiet
  BY DEF OffIsQuiet, SwitchOffStops
<1> QED
  BY <1>1, <1>2, <1>3, <1>4, <1>5, <1>6 DEF IInv, Shape

LEMMA InductiveStep == IInv /\ [Next]_vars => IInv'
<1> SUFFICES ASSUME IInv, [Next]_vars PROVE IInv'
  OBVIOUS
<1>1. Shape /\ Messages /\ TrueReports /\ CounterIsStreak /\ OffIsQuiet
  BY DEF IInv
<1>2. Shape'
  BY <1>1, ShapeStep
<1>3. Messages'
  BY <1>1, MessagesStep
<1>4. TrueReports'
  BY <1>1, <1>3, ReportsStep
<1>5. CounterIsStreak'
  BY <1>1, CounterStep
<1>6. OffIsQuiet'
  BY <1>1, SwitchStep
<1> QED
  BY <1>2, <1>3, <1>4, <1>5, <1>6 DEF IInv

\* The invariant holds in every reachable state.
THEOREM Invariance == Spec => []IInv
  BY InitIInv, InductiveStep, PTL DEF Spec

\* Every variable keeps its type, one job at a time holds the worker, and no job
\* is tried or found stalled more often than BullMQ allows.
THEOREM TypeCorrect == Spec => []TypeOK
<1>1. IInv => TypeOK
  BY DEF IInv, Shape
<1> QED
  BY <1>1, Invariance, PTL

\* However many jobs and attempts there are, the chat receives one message for a
\* date, and one more at most for each fault.
THEOREM OneMessagePerDateHolds == Spec => []OneMessagePerDate
<1>1. IInv => OneMessagePerDate
  BY DEF IInv, Messages
<1> QED
  BY <1>1, Invariance, PTL

\* A run that reports "sent" has sent, and without faults one that reports
\* "skipped" was preceded by the message of its date.
THEOREM ReportsAreTrueHolds == Spec => []ReportsAreTrue
<1>1. IInv => ReportsAreTrue
  BY DEF IInv, TrueReports
<1> QED
  BY <1>1, Invariance, PTL

\* Without faults no key is left behind without a message.
THEOREM KeyStandsForMessageHolds == Spec => []KeyStandsForMessage
<1>1. IInv => KeyStandsForMessage
  BY DEF IInv, TrueReports
<1> QED
  BY <1>1, Invariance, PTL

\* Without faults the alarm is raised exactly when the streak of failures reaches
\* the threshold, whatever the threshold, the attempts and the lapses.
THEOREM AlarmAtThresholdHolds == Spec => []AlarmAtThreshold
<1>1. IInv => AlarmAtThreshold
  <2> SUFFICES ASSUME IInv, faults = 0,
                      \A j \in Jobs : job[j] \notin {"release", "count", "ttl"}
               PROVE  alarmed <=> streak >= Threshold
    BY DEF AlarmAtThreshold
  <2>1. CASE \E j \in Jobs : job[j] = "reset"
    <3>1. streak = 0 /\ ~alarmed
      BY <2>1 DEF IInv, CounterIsStreak
    <3> QED
      BY <3>1, ThresholdAssumption
  <2>2. CASE \A j \in Jobs : job[j] # "reset"
    BY <2>2 DEF IInv, CounterIsStreak
  <2> QED
    BY <2>1, <2>2
<1> QED
  BY <1>1, Invariance, PTL

\* After the switch went off at most one message arrives, whatever faults,
\* retries and re-runs there are.
THEOREM SwitchOffStopsHolds == Spec => []SwitchOffStops
<1>1. IInv => SwitchOffStops
  BY DEF IInv, OffIsQuiet
<1> QED
  BY <1>1, Invariance, PTL
=============================================================================
