--------------------------- MODULE ScheduleProofs ---------------------------
(***************************************************************************)
(* Proofs about ProactiveSchedule, for any configurations and crons, any   *)
(* number of polls, reconciliations, edits and mishaps.                    *)
(*                                                                         *)
(* Two facts carry the argument.  What the module remembers is in the      *)
(* queue, unless some reconciliation is clearing it and will make the      *)
(* module forget (Remembered).  And what the snapshot asks for is there,   *)
(* or some reconciliation for the snapshot has yet to see to it: to come   *)
(* to the channel of a job that is missing, or to remove a job it listed   *)
(* or will list (Pursued).                                                 *)
(***************************************************************************)
EXTENDS ProactiveSchedule, TLAPS

RunRecords ==
  [at : Steps, next : Configs \cup {NoConfig}, kind : Kinds,
   listed : SUBSET Jobs, boot : BOOLEAN]

\* Where a reconciliation that is under way can be.
Placed(r) ==
  /\ run[r].at \in IF run[r].next.enabled THEN {"channel", "disable", "replace", "add"}
                                          ELSE {"list", "clear"}
  /\ run[r].at = "disable" => ~run[r].next.channel[run[r].kind].enabled

Clearing == \E r \in Runs : run[r].at = "clear"

Remembered ==
  \A k \in Kinds : tracked[k] # NoCron => <<k, tracked[k]>> \in repeatables \/ Clearing

\* A reconciliation for the snapshot.
Current(r) == Busy(r) /\ run[r].next = current

\* Run r comes to the kind, or is at it.
Coming(r, kind) == Current(r) /\ (kind = "digest" \/ run[r].kind = "briefing")

\* Run r removes the job.
Removing(r, job) == Current(r) /\ (run[r].at = "list" \/ job \in run[r].listed)

Pursued ==
  /\ \A r \in Runs : Busy(r) => run[r].next.enabled = current.enabled
  /\ current.enabled =>
       \A k \in Kinds : current.channel[k].enabled =>
         \/ <<k, current.channel[k].cron>> \in repeatables
         \/ \E r \in Runs : Coming(r, k)
  /\ ~current.enabled => \A j \in repeatables : \E r \in Runs : Removing(r, j)

\* A process that does not poll runs nothing and remembers nothing.
Quiet ==
  /\ AllEnded
  /\ refresh = [p \in Polls |-> NotReading]
  /\ tracked = [k \in Kinds |-> NoCron]

Lives ==
  IF Polling
    THEN /\ current \in Configs
         /\ \A r \in Runs : Busy(r) => run[r].next \in Configs /\ Placed(r)
    ELSE Quiet

Follows == Polling /\ trouble = "none" => Pursued

IInv == TypeOK /\ Lives /\ Remembered /\ Follows

-----------------------------------------------------------------------------
(* What the steps have in common.                                          *)

LEMMA NoRunTyped == NoRun \in RunRecords /\ NoRun.at = "ended"
BY DEF NoRun, RunRecords, Steps, Kinds

LEMMA ConfigTyped ==
  ASSUME NEW config \in Configs, NEW kind \in Kinds
  PROVE  /\ config.enabled \in BOOLEAN
         /\ config.channel[kind].enabled \in BOOLEAN
         /\ config.channel[kind].cron \in Crons
         /\ config.channel[kind].cron # NoCron
BY ConfigsAssumption, CronsAssumption

LEMMA RunsTyped ==
  ASSUME TypeOK, NEW r \in Runs, NEW q \in RunRecords, run' = [run EXCEPT ![r] = q]
  PROVE  /\ run' \in [Runs -> RunRecords]
         /\ run'[r] = q
         /\ \A s \in Runs \ {r} : run'[s] = run[s]
BY DEF TypeOK, RunRecords

\* What a reconciliation that is under way can rely on.
LEMMA UnderWay ==
  ASSUME IInv, NEW r \in Runs, Busy(r)
  PROVE  /\ run[r] \in RunRecords
         /\ Polling /\ current \in Configs /\ run[r].next \in Configs
         /\ Placed(r)
<1>1. run[r] \in RunRecords
  BY DEF IInv, TypeOK, RunRecords
<1>2. Polling
  BY DEF IInv, Lives, Quiet, AllEnded
<1> QED
  BY <1>1, <1>2 DEF IInv, Lives

\* One run goes on, or ends; the process and its snapshot go on.
LEMMA LivesOn ==
  ASSUME IInv, NEW r \in Runs, Busy(r), NEW q \in RunRecords,
         run' = [run EXCEPT ![r] = q],
         q.at # "ended" => q.next = run[r].next /\ Placed(r)',
         UNCHANGED current, phase' \in {phase, "up"}
  PROVE  Lives'
<1>1. Polling'
  BY UnderWay DEF Polling
<1>2. ASSUME NEW s \in Runs, Busy(s)' PROVE run'[s].next \in Configs /\ Placed(s)'
  <2>1. CASE s = r
    BY <1>2, <2>1, RunsTyped, UnderWay DEF IInv, Busy
  <2>2. CASE s # r
    BY <1>2, <2>2, RunsTyped, UnderWay DEF IInv, Busy, Placed
  <2> QED
    BY <2>1, <2>2
<1> QED
  BY <1>1, <1>2, UnderWay DEF Lives

\* Runs other than r go on as they were.
LEMMA OthersGoOn ==
  ASSUME TypeOK, NEW r \in Runs, NEW q \in RunRecords, run' = [run EXCEPT ![r] = q],
         UNCHANGED current, NEW s \in Runs, s # r
  PROVE  /\ Busy(s)' <=> Busy(s)
         /\ Current(s)' <=> Current(s)
         /\ \A k : Coming(s, k)' <=> Coming(s, k)
         /\ \A j : Removing(s, j)' <=> Removing(s, j)
<1>1. run'[s] = run[s]
  BY RunsTyped
<1> QED
  BY <1>1 DEF Busy, Current, Coming, Removing

\* A step of run r keeps up what is pursued if what r gives up is in the queue,
\* or out of it.
LEMMA PursuedOn ==
  ASSUME TypeOK, Pursued, UNCHANGED current,
         NEW r \in Runs, Busy(r), NEW q \in RunRecords, run' = [run EXCEPT ![r] = q],
         q.at # "ended" => q.next = run[r].next,
         current.enabled =>
           /\ repeatables \subseteq repeatables'
           /\ \A k \in Kinds : current.channel[k].enabled /\ Coming(r, k) =>
                Coming(r, k)' \/ <<k, current.channel[k].cron>> \in repeatables',
         ~current.enabled =>
           /\ repeatables' \subseteq repeatables
           /\ \A j \in repeatables' : Removing(r, j) => Removing(r, j)'
  PROVE  Pursued'
<1>1. ASSUME NEW s \in Runs, Busy(s)' PROVE run'[s].next.enabled = current'.enabled
  <2>1. CASE s = r
    BY <1>1, <2>1, RunsTyped DEF Busy, Pursued
  <2>2. CASE s # r
    BY <1>1, <2>2, RunsTyped DEF Busy, Pursued
  <2> QED
    BY <2>1, <2>2
<1>2. ASSUME current.enabled, NEW k \in Kinds, current.channel[k].enabled
      PROVE  \/ <<k, current.channel[k].cron>> \in repeatables'
             \/ \E s \in Runs : Coming(s, k)'
  <2>1. CASE <<k, current.channel[k].cron>> \in repeatables
    BY <1>2, <2>1
  <2>2. ASSUME NEW s \in Runs, Coming(s, k)
        PROVE  \/ <<k, current.channel[k].cron>> \in repeatables'
               \/ \E t \in Runs : Coming(t, k)'
    <3>1. CASE s = r
      BY <1>2, <2>2, <3>1
    <3>2. CASE s # r
      BY <2>2, <3>2, OthersGoOn
    <3> QED
      BY <3>1, <3>2
  <2> QED
    BY <1>2, <2>1, <2>2 DEF Pursued
<1>3. ASSUME ~current.enabled, NEW j \in repeatables'
      PROVE  \E s \in Runs : Removing(s, j)'
  <2>1. PICK s \in Runs : Removing(s, j)
    BY <1>3 DEF Pursued
  <2>2. CASE s = r
    BY <1>3, <2>1, <2>2
  <2>3. CASE s # r
    BY <2>1, <2>3, OthersGoOn
  <2> QED
    BY <2>2, <2>3
<1> QED
  BY <1>1, <1>2, <1>3 DEF Pursued

\* A run that is not clearing the queue leaves those that are.
LEMMA ClearingGoesOn ==
  ASSUME TypeOK, NEW r \in Runs, run[r].at # "clear", NEW q \in RunRecords,
         run' = [run EXCEPT ![r] = q]
  PROVE  Clearing => Clearing'
<1>1. ASSUME NEW s \in Runs, run[s].at = "clear" PROVE run'[s].at = "clear"
  BY <1>1, RunsTyped
<1> QED
  BY <1>1 DEF Clearing

LEMMA RememberedOn ==
  ASSUME Remembered, Clearing => Clearing', repeatables \subseteq repeatables',
         \A k \in Kinds : \/ tracked'[k] \in {NoCron, tracked[k]}
                         \/ <<k, tracked'[k]>> \in repeatables'
  PROVE  Remembered'
BY DEF Remembered

\* A reconciliation of a configuration that is not switched off.
LEMMA Filling ==
  ASSUME IInv, NEW r \in Runs, run[r].at \in {"channel", "disable", "replace", "add"}
  PROVE  /\ Busy(r) /\ run[r].next.enabled = TRUE
         /\ Polling
         /\ trouble = "none" => Pursued /\ current.enabled
<1>1. Busy(r)
  BY DEF Busy
<1>2. Placed(r) /\ Polling /\ run[r].next \in Configs /\ current \in Configs
  BY <1>1, UnderWay
<1>3. run[r].next.enabled \in BOOLEAN /\ current.enabled \in BOOLEAN
  BY <1>2, ConfigTyped, ConfigsAssumption
<1>4. run[r].next.enabled = TRUE
  BY <1>2, <1>3 DEF Placed
<1>5. ASSUME trouble = "none" PROVE Pursued /\ current.enabled
  BY <1>1, <1>2, <1>4, <1>5 DEF IInv, Follows, Pursued
<1> QED
  BY <1>1, <1>2, <1>4, <1>5

LEMMA Emptying ==
  ASSUME IInv, NEW r \in Runs, run[r].at \in {"list", "clear"}
  PROVE  /\ Busy(r) /\ run[r].next.enabled = FALSE
         /\ Polling
         /\ trouble = "none" => Pursued /\ ~current.enabled
<1>1. Busy(r)
  BY DEF Busy
<1>2. Placed(r) /\ Polling /\ run[r].next \in Configs /\ current \in Configs
  BY <1>1, UnderWay
<1>3. run[r].next.enabled \in BOOLEAN /\ current.enabled \in BOOLEAN
  BY <1>2, ConfigTyped, ConfigsAssumption
<1>4. run[r].next.enabled = FALSE
  BY <1>2, <1>3 DEF Placed
<1>5. ASSUME trouble = "none" PROVE Pursued /\ ~current.enabled
  BY <1>1, <1>2, <1>4, <1>5 DEF IInv, Follows, Pursued
<1> QED
  BY <1>1, <1>2, <1>4, <1>5

\* A channel is done with: on to the digest, or out of reconcile().
LEMMA ChannelIsDone ==
  ASSUME IInv, NEW r \in Runs, run[r].at \in {"channel", "disable", "add"}, ChannelDone(r),
         UNCHANGED <<current, trouble>>, repeatables \subseteq repeatables',
         NEW kind \in Kinds, run[r].kind = kind,
         trouble = "none" /\ current = run[r].next /\ current.channel[kind].enabled
           => <<kind, current.channel[kind].cron>> \in repeatables'
  PROVE  /\ run' \in [Runs -> RunRecords] /\ tzKnown' \in BOOLEAN /\ phase' \in Phases
         /\ Lives' /\ Follows' /\ (Clearing => Clearing')
<1>1. run[r] \in RunRecords /\ current \in Configs /\ Placed(r) /\ TypeOK /\ Busy(r)
  BY UnderWay DEF IInv, Busy
<1>2. run[r].next.enabled = TRUE /\ (trouble = "none" => Pursued /\ current.enabled)
  BY Filling
<1>3. CASE kind = "briefing"
  <2> DEFINE q == [run[r] EXCEPT !.kind = "digest", !.at = "channel"]
  <2>1. run' = [run EXCEPT ![r] = q]
    BY <1>3 DEF ChannelDone
  <2>2. /\ q \in RunRecords /\ q.kind = "digest" /\ q.at = "channel"
        /\ q.next = run[r].next
    BY <1>1 DEF RunRecords, Kinds, Steps
  <2> HIDE DEF q
  <2>3. run' \in [Runs -> RunRecords] /\ run'[r] = q
    BY <1>1, <2>1, <2>2, RunsTyped
  <2>4. UNCHANGED <<phase, tzKnown>>
    BY <1>3 DEF ChannelDone
  <2>5. Placed(r)'
    BY <1>2, <2>2, <2>3 DEF Placed
  <2>6. Lives'
    BY <1>1, <2>1, <2>2, <2>4, <2>5, LivesOn
  <2>7. ASSUME trouble = "none" PROVE Pursued'
    <3>1. ASSUME NEW k \in Kinds, current.channel[k].enabled, Coming(r, k)
          PROVE  Coming(r, k)' \/ <<k, current.channel[k].cron>> \in repeatables'
      <4>1. CASE k = "briefing"
        BY <1>3, <2>7, <3>1, <4>1 DEF Coming, Current
      <4>2. CASE k = "digest"
        BY <2>2, <2>3, <3>1, <4>2 DEF Coming, Current, Busy
      <4> QED
        BY <4>1, <4>2 DEF Kinds
    <3> QED
      BY <1>1, <1>2, <2>1, <2>2, <2>7, <3>1, PursuedOn
  <2>8. Clearing => Clearing'
    BY <1>1, <2>1, <2>2, ClearingGoesOn
  <2> QED
    BY <1>1, <2>3, <2>4, <2>6, <2>7, <2>8 DEF TypeOK, Follows
<1>4. CASE kind = "digest"
  <2>1. run' = [run EXCEPT ![r] = NoRun] /\ tzKnown' = TRUE /\ phase' \in {phase, "up"}
    BY <1>4 DEF ChannelDone
  <2>2. run' \in [Runs -> RunRecords]
    BY <1>1, <2>1, NoRunTyped, RunsTyped
  <2>3. Lives'
    BY <1>1, <2>1, NoRunTyped, LivesOn
  <2>4. ASSUME trouble = "none" PROVE Pursued'
    <3>1. ASSUME NEW k \in Kinds, current.channel[k].enabled, Coming(r, k)
          PROVE  <<k, current.channel[k].cron>> \in repeatables'
      BY <1>4, <2>4, <3>1 DEF Coming, Current
    <3> QED
      BY <1>1, <1>2, <2>1, <2>4, <3>1, NoRunTyped, PursuedOn
  <2>5. Clearing => Clearing'
    BY <1>1, <2>1, NoRunTyped, ClearingGoesOn
  <2> QED
    BY <1>1, <2>1, <2>2, <2>3, <2>4, <2>5 DEF TypeOK, Phases, Follows
<1> QED
  BY <1>3, <1>4 DEF Kinds

-----------------------------------------------------------------------------
(* The configuration and its polls.                                        *)

LEMMA InitIInv == Init => IInv
<1> SUFFICES ASSUME Init PROVE IInv
  OBVIOUS
<1>1. run \in [Runs -> RunRecords]
  BY NoRunTyped DEF Init
<1>2. refresh \in [Polls -> Configs \cup {Invalid, NotReading}]
  BY DEF Init
<1>3. tracked \in [Kinds -> Crons \cup {NoCron}] /\ {edits, mishaps} \subseteq Nat
  BY DEF Init
<1>4. TypeOK
  BY <1>1, <1>2, <1>3 DEF Init, TypeOK, RunRecords, Phases
<1>5. Lives
  BY NoRunTyped DEF Init, Lives, Polling, Quiet, AllEnded, Busy
<1>6. Remembered /\ Follows
  BY DEF Init, Follows, Polling, Remembered
<1> QED
  BY <1>4, <1>5, <1>6 DEF IInv

\* A step that touches neither runs, nor the snapshot, nor the queue.
LEMMA NothingRuns ==
  ASSUME IInv, UNCHANGED <<phase, current, run, tracked, repeatables, trouble>>,
         Polling \/ UNCHANGED refresh
  PROVE  Lives' /\ Remembered' /\ Follows'
<1>1. Lives'
  BY DEF IInv, Lives, Polling, Quiet, AllEnded, Busy, Placed
<1>2. Remembered' /\ Follows'
  BY DEF IInv, Follows, Remembered, Clearing, Polling, Pursued, Coming, Removing, Current, Busy
<1> QED
  BY <1>1, <1>2

LEMMA PollingUnlessQuiet ==
  ASSUME IInv, NEW poll \in Polls, refresh[poll] # NotReading
  PROVE  Polling
BY DEF IInv, Lives, Quiet

\* reconcile() starts for a snapshot that has just been set: it has everything
\* before it, whatever the runs there are leave undone.
LEMMA ReconcileStarted ==
  ASSUME IInv, NEW config \in Configs, NEW boot \in BOOLEAN,
         ReconcileStarts(config, boot), current' = config, Polling',
         UNCHANGED <<tracked, repeatables>>
  PROVE  /\ run' \in [Runs -> RunRecords]
         /\ trouble' \in {"none", "failed", "overlapped"}
         /\ Lives' /\ Remembered' /\ Follows'
<1> DEFINE q == [NoRun EXCEPT !.at = IF config.enabled THEN "channel" ELSE "list",
                              !.next = config, !.boot = boot]
<1>1. /\ q \in RunRecords /\ q.next = config /\ q.kind = "briefing"
      /\ q.at = IF config.enabled THEN "channel" ELSE "list"
  BY DEF NoRun, RunRecords, Steps, Kinds
<1>2. run' = [run EXCEPT ![FreeRun] = q]
  BY DEF ReconcileStarts
<1> HIDE DEF q
<1>3. FreeRun \in Runs /\ ~Busy(FreeRun)
  BY DEF FreeRun, ReconcileStarts
<1>4. PICK r \in Runs : r = FreeRun
  BY <1>3
<1>5. /\ run' \in [Runs -> RunRecords] /\ run'[r] = q
      /\ \A s \in Runs \ {r} : run'[s] = run[s]
  BY <1>1, <1>2, <1>4, RunsTyped DEF IInv
<1>6. ASSUME NEW s \in Runs, Busy(s)', s # r
      PROVE  Busy(s) /\ run'[s].next = run[s].next /\ run'[s].next \in Configs /\ Placed(s)'
  BY <1>5, <1>6, UnderWay DEF Busy, Placed
<1>7. Lives'
  <2>1. Placed(r)'
    BY <1>1, <1>5 DEF Placed
  <2> QED
    BY <1>1, <1>5, <1>6, <2>1 DEF Lives
<1>8. Remembered'
  <2>1. run[r].at # "clear"
    BY <1>3, <1>4 DEF Busy
  <2>2. Clearing => Clearing'
    BY <1>1, <1>2, <1>4, <2>1, ClearingGoesOn DEF IInv
  <2> QED
    BY <2>2, RememberedOn DEF IInv
<1>9. ASSUME trouble' = "none" PROVE Pursued'
  <2>1. \A s \in Runs : Busy(s) => run[s].next.enabled = config.enabled
    BY <1>9 DEF ReconcileStarts, Overlaps
  <2>2. \A s \in Runs : Busy(s)' => run'[s].next.enabled = current'.enabled
    BY <1>1, <1>5, <1>6, <2>1
  <2>3. Current(r)'
    BY <1>1, <1>5 DEF Current, Busy
  <2>4. \A k \in Kinds : Coming(r, k)'
    BY <1>1, <1>5, <2>3 DEF Coming
  <2>5. ~config.enabled => \A j \in repeatables : Removing(r, j)'
    BY <1>1, <1>5, <2>3 DEF Removing
  <2> QED
    BY <2>2, <2>4, <2>5 DEF Pursued
<1> QED
  BY <1>5, <1>7, <1>8, <1>9 DEF ReconcileStarts, Follows

LEMMA FirstLoadStep ==
  ASSUME IInv, FirstLoad
  PROVE  IInv'
<1>1. file \in Configs /\ Polling' /\ ReconcileStarts(file, TRUE)
  BY DEF FirstLoad, IInv, TypeOK, Polling
<1>2. UNCHANGED <<tracked, repeatables>> /\ current' = file
  BY DEF FirstLoad, moduleVars
<1>3. /\ run' \in [Runs -> RunRecords]
      /\ trouble' \in {"none", "failed", "overlapped"}
      /\ Lives' /\ Remembered' /\ Follows'
  BY <1>1, <1>2, ReconcileStarted
<1>4. TypeOK'
  BY <1>1, <1>3 DEF FirstLoad, moduleVars, IInv, TypeOK, RunRecords, Phases
<1> QED
  BY <1>3, <1>4 DEF IInv

LEMMA PollNotifiesStep ==
  ASSUME IInv, NEW poll \in Polls, PollNotifies(poll)
  PROVE  IInv'
<1>1. PICK config \in Configs : config = refresh[poll]
  BY DEF PollNotifies
<1>2. Polling
  BY <1>1, DistinctAssumption, PollingUnlessQuiet
<1>3. /\ Polling' /\ UNCHANGED <<tracked, repeatables>> /\ current' = config
      /\ ReconcileStarts(config, FALSE)
  BY <1>1, <1>2 DEF PollNotifies, Polling, moduleVars
<1>4. /\ run' \in [Runs -> RunRecords]
      /\ trouble' \in {"none", "failed", "overlapped"}
      /\ Lives' /\ Remembered' /\ Follows'
  BY <1>3, ReconcileStarted
<1>5. TypeOK'
  BY <1>1, <1>3, <1>4 DEF PollNotifies, moduleVars, IInv, TypeOK, RunRecords
<1> QED
  BY <1>4, <1>5 DEF IInv

LEMMA PollStep ==
  ASSUME IInv, NEW poll \in Polls, PollStarts(poll) \/ PollKeeps(poll)
  PROVE  IInv'
<1>1. Polling
  <2>1. ASSUME PollKeeps(poll) PROVE refresh[poll] # NotReading
    BY <2>1, DistinctAssumption DEF PollKeeps, IInv, TypeOK
  <2> QED
    BY <2>1, PollingUnlessQuiet DEF PollStarts
<1>2. UNCHANGED <<phase, current, run, tracked, repeatables, trouble>>
  BY DEF PollStarts, PollKeeps, moduleVars, queueVars
<1>3. TypeOK'
  BY DEF PollStarts, PollKeeps, moduleVars, queueVars, IInv, TypeOK
<1> QED
  BY <1>1, <1>2, <1>3, NothingRuns DEF IInv

LEMMA EditStep ==
  ASSUME IInv, Edit
  PROVE  IInv'
<1>1. TypeOK'
  BY DEF Edit, moduleVars, queueVars, IInv, TypeOK
<1> QED
  BY <1>1, NothingRuns DEF Edit, moduleVars, queueVars, IInv

\* The process starts, or will not poll: nothing runs before and after.
LEMMA StartStep ==
  ASSUME IInv, Start \/ FirstLoadFails
  PROVE  IInv'
<1>1. TypeOK'
  BY DEF Start, FirstLoadFails, serviceVars, moduleVars, queueVars, IInv, TypeOK, Phases
<1>2. UNCHANGED <<run, tracked, repeatables, refresh, current, trouble>> /\ ~Polling /\ ~Polling'
  BY DEF Start, FirstLoadFails, serviceVars, moduleVars, queueVars, Polling
<1>3. Lives' /\ Remembered' /\ Follows'
  BY <1>2 DEF IInv, Lives, Follows, Quiet, AllEnded, Busy, Remembered, Clearing
<1> QED
  BY <1>1, <1>3 DEF IInv

-----------------------------------------------------------------------------
(* reconcile()                                                             *)

\* A run goes to its next await and nothing else changes: it still has before it
\* what it had.
LEMMA GoesOn ==
  ASSUME IInv, NEW r \in Runs, run[r].at \in {"channel", "replace"},
         NEW at \in {"disable", "replace", "add"},
         run' = [run EXCEPT ![r].at = at],
         at = "disable" => ~run[r].next.channel[run[r].kind].enabled,
         UNCHANGED <<phase, current, tracked, repeatables, trouble>>
  PROVE  /\ run' \in [Runs -> RunRecords]
         /\ Lives' /\ Remembered' /\ Follows'
<1>1. run[r] \in RunRecords /\ current \in Configs /\ Placed(r) /\ TypeOK /\ Busy(r)
  BY UnderWay DEF IInv, Busy
<1>2. run[r].next.enabled = TRUE /\ (trouble = "none" => Pursued /\ current.enabled)
  BY Filling
<1> DEFINE q == [run[r] EXCEPT !.at = at]
<1>3. run' = [run EXCEPT ![r] = q]
  OBVIOUS
<1>4. /\ q \in RunRecords /\ q.at = at /\ q.next = run[r].next /\ q.kind = run[r].kind
      /\ q.listed = run[r].listed
  BY <1>1 DEF RunRecords, Steps
<1> HIDE DEF q
<1>5. run' \in [Runs -> RunRecords] /\ run'[r] = q
  BY <1>1, <1>3, <1>4, RunsTyped
<1>6. Placed(r)'
  BY <1>2, <1>4, <1>5 DEF Placed
<1>7. Lives'
  BY <1>1, <1>3, <1>4, <1>6, LivesOn
<1>8. Remembered'
  BY <1>1, <1>3, <1>4, ClearingGoesOn, RememberedOn DEF IInv
<1>9. ASSUME trouble = "none" PROVE Pursued'
  <2>1. \A k : Coming(r, k) => Coming(r, k)'
    BY <1>4, <1>5 DEF Coming, Current, Busy
  <2> QED
    BY <1>1, <1>2, <1>3, <1>4, <1>9, <2>1, PursuedOn
<1> QED
  BY <1>5, <1>7, <1>8, <1>9, <1>2, Filling DEF Follows

\* A channel is skipped only if the module remembers its cron, and then its job
\* is in the queue: nothing is being cleared while there is no trouble.
LEMMA ChannelStartsStep ==
  ASSUME IInv, NEW r \in Runs, ChannelStarts(r)
  PROVE  IInv'
<1>1. run[r].at = "channel" /\ Busy(r)
  BY DEF ChannelStarts, Busy
<1>2. run[r] \in RunRecords /\ current \in Configs /\ run[r].next \in Configs
  BY <1>1, UnderWay
<1>3. PICK kind \in Kinds : kind = run[r].kind
  BY <1>2 DEF RunRecords
<1>4. PICK channel : channel = run[r].next.channel[kind]
  OBVIOUS
<1>5. channel.cron \in Crons /\ channel.cron # NoCron
  BY <1>2, <1>4, ConfigTyped
<1>6. UNCHANGED <<tracked, mishaps, file, current, refresh, edits, repeatables, trouble>>
  BY DEF ChannelStarts, serviceVars, queueVars
<1>7. ASSUME run' \in [Runs -> RunRecords], tzKnown' \in BOOLEAN, phase' \in Phases
      PROVE  TypeOK'
  BY <1>6, <1>7 DEF IInv, TypeOK, RunRecords
<1>8. CASE channel.enabled /\ tracked[kind] = channel.cron /\ ChannelDone(r)
  <2>1. <<kind, channel.cron>> \in repeatables \/ Clearing
    BY <1>5, <1>8 DEF IInv, Remembered
  <2>2. Clearing => trouble # "none"
    BY <1>1, Filling, Emptying DEF Clearing
  <2>3. /\ run' \in [Runs -> RunRecords] /\ tzKnown' \in BOOLEAN /\ phase' \in Phases
        /\ Lives' /\ Follows' /\ (Clearing => Clearing')
    BY <1>1, <1>3, <1>4, <1>6, <1>8, <2>1, <2>2, ChannelIsDone
  <2>4. Remembered'
    BY <1>6, <2>3, RememberedOn DEF IInv
  <2> QED
    BY <1>7, <2>3, <2>4 DEF IInv
<1>9. ASSUME NEW at \in {"disable", "replace", "add"}, GoesTo(r, at),
             UNCHANGED <<phase, tzKnown>>,
             at = "disable" => ~channel.enabled
      PROVE  IInv'
  <2>1. run' \in [Runs -> RunRecords] /\ Lives' /\ Remembered' /\ Follows'
    BY <1>1, <1>3, <1>4, <1>6, <1>9, GoesOn DEF GoesTo
  <2>2. tzKnown' \in BOOLEAN /\ phase' \in Phases
    BY <1>9 DEF IInv, TypeOK
  <2> QED
    BY <1>7, <2>1, <2>2 DEF IInv
<1>10. CASE ~channel.enabled
  BY <1>3, <1>4, <1>9, <1>10 DEF ChannelStarts
<1>11. CASE channel.enabled /\ ~(tracked[kind] = channel.cron /\ tzKnown)
  BY <1>3, <1>4, <1>9, <1>11 DEF ChannelStarts
<1> QED
  BY <1>3, <1>4, <1>8, <1>10, <1>11 DEF ChannelStarts

LEMMA DisableStep ==
  ASSUME IInv, NEW r \in Runs, Disable(r)
  PROVE  IInv'
<1>1. run[r].at = "disable" /\ Busy(r)
  BY DEF Disable, Busy
<1>2. run[r] \in RunRecords /\ Placed(r)
  BY <1>1, UnderWay
<1>3. PICK kind \in Kinds : kind = run[r].kind
  BY <1>2 DEF RunRecords
<1>4. /\ tracked' = [tracked EXCEPT ![kind] = NoCron]
      /\ tracked' \in [Kinds -> Crons \cup {NoCron}]
      /\ UNCHANGED <<file, current, refresh, edits, repeatables, trouble, mishaps>>
  BY <1>3 DEF Disable, RemoveByOwnKey, serviceVars, IInv, TypeOK
<1>5. ~run[r].next.channel[kind].enabled
  BY <1>1, <1>2, <1>3 DEF Placed
<1>6. /\ run' \in [Runs -> RunRecords] /\ tzKnown' \in BOOLEAN /\ phase' \in Phases
      /\ Lives' /\ Follows' /\ (Clearing => Clearing')
  BY <1>1, <1>3, <1>4, <1>5, ChannelIsDone DEF Disable
<1>7. \A k \in Kinds : tracked'[k] \in {NoCron, tracked[k]}
  BY <1>4 DEF IInv, TypeOK
<1>8. Remembered'
  BY <1>4, <1>6, <1>7, RememberedOn DEF IInv
<1>9. TypeOK'
  BY <1>4, <1>6 DEF IInv, TypeOK, RunRecords
<1> QED
  BY <1>6, <1>8, <1>9 DEF IInv

LEMMA ReplaceStep ==
  ASSUME IInv, NEW r \in Runs, Replace(r)
  PROVE  IInv'
<1>1. /\ run[r].at = "replace" /\ run' = [run EXCEPT ![r].at = "add"]
      /\ UNCHANGED <<phase, file, current, refresh, edits, tracked, tzKnown, repeatables,
                     trouble, mishaps>>
  BY DEF Replace, GoesTo, RemoveByOwnKey, serviceVars, moduleVars
<1>2. run' \in [Runs -> RunRecords] /\ Lives' /\ Remembered' /\ Follows'
  BY <1>1, GoesOn
<1>3. TypeOK'
  BY <1>1, <1>2 DEF IInv, TypeOK, RunRecords
<1> QED
  BY <1>2, <1>3 DEF IInv

LEMMA AddStep ==
  ASSUME IInv, NEW r \in Runs, Add(r)
  PROVE  IInv'
<1>1. run[r].at = "add" /\ Busy(r)
  BY DEF Add, Busy
<1>2. run[r] \in RunRecords /\ run[r].next \in Configs
  BY <1>1, UnderWay
<1>3. PICK kind \in Kinds : kind = run[r].kind
  BY <1>2 DEF RunRecords
<1>4. PICK cron \in Crons : cron = Cron(r)
  BY <1>2, <1>3, ConfigTyped DEF Cron
<1>5. /\ repeatables' = repeatables \cup {<<kind, cron>>} /\ repeatables' \subseteq Jobs
      /\ tracked' = [tracked EXCEPT ![kind] = cron]
      /\ tracked' \in [Kinds -> Crons \cup {NoCron}]
      /\ UNCHANGED <<file, current, refresh, edits, trouble, mishaps>>
  BY <1>3, <1>4 DEF Add, serviceVars, IInv, TypeOK, Jobs
<1>6. current = run[r].next => <<kind, current.channel[kind].cron>> \in repeatables'
  BY <1>3, <1>4, <1>5 DEF Cron
<1>7. /\ run' \in [Runs -> RunRecords] /\ tzKnown' \in BOOLEAN /\ phase' \in Phases
      /\ Lives' /\ Follows' /\ (Clearing => Clearing')
  BY <1>1, <1>3, <1>5, <1>6, ChannelIsDone DEF Add
<1>8. \A k \in Kinds : tracked'[k] = tracked[k] \/ <<k, tracked'[k]>> \in repeatables'
  BY <1>5 DEF IInv, TypeOK
<1>9. Remembered'
  BY <1>5, <1>7, <1>8, RememberedOn DEF IInv
<1>10. TypeOK'
  BY <1>5, <1>7 DEF IInv, TypeOK, RunRecords
<1> QED
  BY <1>7, <1>9, <1>10 DEF IInv

LEMMA ListStep ==
  ASSUME IInv, NEW r \in Runs, List(r)
  PROVE  IInv'
<1>1. run[r].at = "list"
  BY DEF List
<1>2. /\ Busy(r) /\ run[r].next.enabled = FALSE /\ Polling
      /\ trouble = "none" => Pursued /\ ~current.enabled
  BY <1>1, Emptying
<1>3. run[r] \in RunRecords /\ TypeOK
  BY <1>2, UnderWay DEF IInv
<1>4. UNCHANGED <<phase, mishaps, file, current, refresh, edits, tracked, tzKnown,
                 repeatables, trouble>>
  BY DEF List, serviceVars, moduleVars, queueVars
<1> DEFINE q == [run[r] EXCEPT !.at = "clear", !.listed = repeatables]
<1>5. run' = [run EXCEPT ![r] = q]
  BY DEF List
<1>6. /\ q \in RunRecords /\ q.at = "clear" /\ q.next = run[r].next /\ q.listed = repeatables
  BY <1>3 DEF RunRecords, Steps, TypeOK
<1> HIDE DEF q
<1>7. run' \in [Runs -> RunRecords] /\ run'[r] = q
  BY <1>3, <1>5, <1>6, RunsTyped
<1>8. Lives'
  <2>1. Placed(r)'
    BY <1>2, <1>6, <1>7 DEF Placed
  <2> QED
    BY <1>2, <1>4, <1>5, <1>6, <2>1, LivesOn
<1>9. Remembered'
  BY <1>4, <1>6, <1>7 DEF Remembered, Clearing, IInv
<1>10. ASSUME trouble = "none" PROVE Pursued'
  <2>1. \A j \in repeatables' : Removing(r, j)'  <=> Removing(r, j)
    BY <1>1, <1>4, <1>6, <1>7 DEF Removing, Current, Busy
  <2> QED
    BY <1>2, <1>3, <1>4, <1>5, <1>6, <1>10, <2>1, PursuedOn
<1>11. TypeOK'
  BY <1>4, <1>7 DEF IInv, TypeOK, RunRecords
<1> QED
  BY <1>4, <1>8, <1>9, <1>10, <1>11 DEF IInv, Follows, Polling

LEMMA FaultNoted ==
  ASSUME IInv, NEW r \in Runs, Fault(r)
  PROVE  /\ trouble' \in {"none", "failed", "overlapped"} /\ {edits, mishaps'} \subseteq Nat
         /\ trouble' = "none" => trouble = "none" /\ ~Current(r)
<1>1. edits \in Nat /\ mishaps \in Nat /\ mishaps' = mishaps + 1
  BY DEF Fault, IInv, TypeOK
<1>2. trouble \in {"none", "failed", "overlapped"}
  BY DEF IInv, TypeOK
<1> QED
  BY <1>1, <1>2 DEF Fault, Current

\* One job less, or a failure that is known if it matters.
LEMMA ClearStep ==
  ASSUME IInv, NEW r \in Runs, Clear(r)
  PROVE  IInv'
<1>1. run[r].at = "clear"
  BY DEF Clear
<1>2. /\ Busy(r) /\ run[r].next.enabled = FALSE /\ Polling
      /\ trouble = "none" => Pursued /\ ~current.enabled
  BY <1>1, Emptying
<1>3. run[r] \in RunRecords /\ TypeOK
  BY <1>2, UnderWay DEF IInv
<1>4. PICK job \in run[r].listed :
         /\ run' = [run EXCEPT ![r].listed = @ \ {job}]
         /\ \/ repeatables' = repeatables \ {job} /\ UNCHANGED <<trouble, mishaps>>
            \/ Fault(r) /\ UNCHANGED repeatables
  BY DEF Clear
<1>5. UNCHANGED <<phase, file, current, refresh, edits, tracked, tzKnown>>
  BY DEF Clear, serviceVars, moduleVars
<1> DEFINE q == [run[r] EXCEPT !.listed = @ \ {job}]
<1>6. run' = [run EXCEPT ![r] = q]
  BY <1>4
<1>7. /\ q \in RunRecords /\ q.at = "clear" /\ q.next = run[r].next
      /\ q.listed = run[r].listed \ {job}
  BY <1>1, <1>3 DEF RunRecords
<1> HIDE DEF q
<1>8. run' \in [Runs -> RunRecords] /\ run'[r] = q
  BY <1>3, <1>6, <1>7, RunsTyped
<1>9. /\ trouble' \in {"none", "failed", "overlapped"} /\ {edits, mishaps'} \subseteq Nat
      /\ repeatables' \subseteq repeatables
      /\ trouble' = "none" => /\ trouble = "none"
                              /\ Current(r) => repeatables' = repeatables \ {job}
  <2>1. CASE repeatables' = repeatables \ {job} /\ UNCHANGED <<trouble, mishaps>>
    BY <1>3, <2>1 DEF TypeOK
  <2>2. CASE Fault(r) /\ UNCHANGED repeatables
    BY <2>2, FaultNoted
  <2> QED
    BY <1>4, <2>1, <2>2
<1>10. Lives'
  <2>1. Placed(r)'
    BY <1>2, <1>7, <1>8 DEF Placed
  <2> QED
    BY <1>2, <1>5, <1>6, <1>7, <2>1, LivesOn
<1>11. Remembered'
  BY <1>7, <1>8 DEF Remembered, Clearing
<1>12. ASSUME trouble' = "none" PROVE Pursued'
  <2>1. ASSUME NEW j \in repeatables', Removing(r, j) PROVE Removing(r, j)'
    <3>1. Current(r) /\ j \in run[r].listed
      BY <1>1, <2>1 DEF Removing
    <3>2. repeatables' = repeatables \ {job}
      BY <1>9, <1>12, <3>1
    <3>3. j \in run'[r].listed
      BY <1>7, <1>8, <2>1, <3>1, <3>2
    <3>4. Current(r)'
      BY <1>5, <1>7, <1>8, <3>1 DEF Current, Busy
    <3> QED
      BY <3>3, <3>4 DEF Removing
  <2>2. Pursued /\ ~current.enabled
    BY <1>2, <1>9, <1>12
  <2>3. UNCHANGED current
    BY <1>5
  <2> QED
    BY <1>2, <1>3, <1>6, <1>7, <1>9, <2>1, <2>2, <2>3, PursuedOn
<1>13. TypeOK'
  BY <1>5, <1>8, <1>9 DEF IInv, TypeOK, RunRecords
<1> QED
  BY <1>10, <1>11, <1>12, <1>13 DEF IInv, Follows

\* It has removed all it listed, and makes the module forget.
LEMMA ClearedStep ==
  ASSUME IInv, NEW r \in Runs, Cleared(r)
  PROVE  IInv'
<1>1. run[r].at = "clear" /\ run[r].listed = {}
  BY DEF Cleared
<1>2. /\ Busy(r) /\ Polling
      /\ trouble = "none" => Pursued /\ ~current.enabled
  BY <1>1, Emptying
<1>3. TypeOK
  BY DEF IInv
<1>4. /\ run' = [run EXCEPT ![r] = NoRun] /\ phase' \in {phase, "up"}
      /\ tracked' = [k \in Kinds |-> NoCron]
      /\ UNCHANGED <<mishaps, file, current, refresh, edits, tzKnown, repeatables, trouble>>
  BY DEF Cleared, serviceVars, queueVars
<1>5. run' \in [Runs -> RunRecords] /\ Lives'
  BY <1>2, <1>3, <1>4, NoRunTyped, RunsTyped, LivesOn
<1>6. Remembered'
  BY <1>4 DEF Remembered
<1>7. ASSUME trouble = "none" PROVE Pursued'
  <2>1. \A j : ~Removing(r, j)
    BY <1>1 DEF Removing
  <2> QED
    BY <1>2, <1>3, <1>4, <1>7, <2>1, NoRunTyped, PursuedOn
<1>8. TypeOK'
  BY <1>4, <1>5 DEF IInv, TypeOK, RunRecords, Phases
<1> QED
  BY <1>2, <1>4, <1>5, <1>6, <1>7, <1>8 DEF IInv, Follows

\* The process has ended.
LEMMA AllForgotten ==
  ASSUME TypeOK, Forgotten, phase' = "down", UNCHANGED <<file, edits>>, mishaps' \in Nat,
         trouble' \in {"none", "failed", "overlapped"}, repeatables' \subseteq Jobs
  PROVE  IInv'
<1>1. run' \in [Runs -> RunRecords] /\ AllEnded'
  BY NoRunTyped DEF Forgotten, AllEnded, Busy
<1>2. TypeOK'
  BY <1>1 DEF Forgotten, TypeOK, RunRecords, Phases
<1>3. Lives' /\ Remembered' /\ Follows'
  BY <1>1 DEF Forgotten, Lives, Remembered, Follows, Polling, Quiet
<1> QED
  BY <1>2, <1>3 DEF IInv

LEMMA CrashStep ==
  ASSUME IInv, Crash
  PROVE  IInv'
<1>1. mishaps' \in Nat
  BY DEF Crash, IInv, TypeOK
<1> QED
  BY <1>1, AllForgotten DEF Crash, IInv, TypeOK

\* A command that fails for the snapshot is known; one that fails for an older
\* content leaves nothing undone.
LEMMA RejectedStep ==
  ASSUME IInv, NEW r \in Runs, Rejected(r)
  PROVE  IInv'
<1>1. run[r].at \in {"add", "list"} /\ Busy(r)
  BY DEF Rejected, Busy
<1>2. /\ run[r] \in RunRecords /\ run[r].next \in Configs /\ TypeOK
  BY <1>1, UnderWay DEF IInv
<1>3. Cron(r) \in Crons /\ run[r].kind \in Kinds
  BY <1>2, ConfigTyped DEF Cron, RunRecords
<1>4. /\ trouble' \in {"none", "failed", "overlapped"} /\ {edits, mishaps'} \subseteq Nat
      /\ trouble' = "none" => trouble = "none" /\ ~Current(r)
  BY FaultNoted DEF Rejected
<1>5. /\ repeatables \subseteq repeatables' /\ repeatables' \subseteq Jobs
      /\ run[r].at = "list" => repeatables' = repeatables
  BY <1>2, <1>3 DEF Rejected, TypeOK, Jobs
<1>6. UNCHANGED <<file, edits>>
  BY DEF Rejected
<1>7. CASE Forgotten /\ phase' = "down"
  BY <1>2, <1>4, <1>5, <1>6, <1>7, AllForgotten
<1>8. CASE /\ run' = [run EXCEPT ![r] = NoRun]
           /\ UNCHANGED <<phase, current, refresh, tracked, tzKnown>>
  <2>1. run' \in [Runs -> RunRecords] /\ Lives'
    BY <1>1, <1>2, <1>8, NoRunTyped, RunsTyped, LivesOn
  <2>2. Remembered'
    BY <1>1, <1>2, <1>5, <1>8, NoRunTyped, ClearingGoesOn, RememberedOn DEF IInv
  <2>3. ASSUME trouble' = "none" PROVE Pursued'
    <3>1. /\ Pursued /\ \A k : ~Coming(r, k)
          /\ \A j : ~Removing(r, j)
          /\ ~current.enabled => run[r].at = "list"
      BY <1>1, <1>4, <2>3, Filling, Emptying DEF Coming, Removing
    <3> QED
      BY <1>1, <1>2, <1>5, <1>8, <3>1, NoRunTyped, PursuedOn
  <2>4. TypeOK'
    BY <1>4, <1>5, <1>6, <1>8, <2>1 DEF IInv, TypeOK, RunRecords
  <2> QED
    BY <2>1, <2>2, <2>3, <2>4 DEF IInv, Follows
<1> QED
  BY <1>7, <1>8 DEF Rejected

-----------------------------------------------------------------------------

LEMMA InductiveStep == IInv /\ [Next]_vars => IInv'
<1> SUFFICES ASSUME IInv, [Next]_vars PROVE IInv'
  OBVIOUS
<1>1. CASE Edit
  BY <1>1, EditStep
<1>2. CASE ServiceStep
  BY <1>2, StartStep, FirstLoadStep, PollStep, PollNotifiesStep DEF ServiceStep
<1>3. CASE Crash
  BY <1>3, CrashStep
<1>4. CASE \E r \in Runs : RunStep(r)
  BY <1>4, ChannelStartsStep, DisableStep, ReplaceStep, AddStep, ListStep, ClearStep,
     ClearedStep, RejectedStep DEF RunStep
<1>5. CASE UNCHANGED vars
  <2>1. TypeOK'
    BY <1>5 DEF vars, IInv, TypeOK
  <2> QED
    BY <1>5, <2>1, NothingRuns DEF vars, IInv
<1> QED
  BY <1>1, <1>2, <1>3, <1>4, <1>5 DEF Next

LEMMA Invariance == Spec => []IInv
BY InitIInv, InductiveStep, PTL DEF Spec

\* The variables have their types, and the snapshot is always a content the schema
\* accepts (ProactiveConfigService.loadOnce).
THEOREM TypeCorrect == Spec => []TypeOK
<1>1. IInv => TypeOK
  BY DEF IInv
<1> QED
  BY <1>1, Invariance, PTL

\* Between reconciliations the queue has what the module remembers, and what the
\* snapshot asks for unless a command for it failed or a clearing reconciliation
\* overlapped a filling one (reconcile and removeRepeatables in
\* proactive.module.ts).
THEOREM ScheduleHoldsConfigHolds == Spec => []ScheduleHoldsConfig
<1>1. ASSUME IInv, phase = "up", AllEnded PROVE ~Clearing /\ Polling
  BY <1>1 DEF AllEnded, Busy, Clearing, Polling
<1>2. ASSUME IInv, phase = "up", AllEnded, trouble = "none" PROVE Holds(current)
  <2>1. Pursued /\ current \in Configs
    BY <1>1, <1>2 DEF IInv, Follows, Lives
  <2>2. ASSUME NEW j \in Wanted(current) PROVE j \in repeatables
    <3>1. PICK k \in Kinds, c \in Crons : j = <<k, c>>
      BY DEF Wanted, Jobs
    <3>2. current.enabled /\ current.channel[k].enabled /\ current.channel[k].cron = c
      BY <3>1 DEF Wanted
    <3> QED
      BY <1>2, <2>1, <3>1, <3>2 DEF Pursued, Coming, Current, AllEnded
  <2>3. ASSUME ~current.enabled PROVE repeatables = {}
    BY <1>2, <2>1, <2>3 DEF Pursued, Removing, Current, AllEnded
  <2> QED
    BY <2>2, <2>3 DEF Holds
<1>3. IInv => ScheduleHoldsConfig
  BY <1>1, <1>2 DEF IInv, Remembered, ScheduleHoldsConfig
<1> QED
  BY <1>3, Invariance, PTL
=============================================================================
