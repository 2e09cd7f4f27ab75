------------------------- MODULE ProactiveSchedule -------------------------
(***************************************************************************)
(* How the repeatable jobs in BullMQ follow the proactive configuration.   *)
(*                                                                         *)
(* ProactiveConfigService reads a file at boot and polls it afterwards; a  *)
(* poll that finds a new valid content replaces the snapshot and notifies  *)
(* ProactiveModule, which does not await the reconciliation it starts.  A  *)
(* reconciliation compares the configuration with the crons the module     *)
(* remembers having scheduled, and adds repeatable jobs, one awaited queue *)
(* command after the other.  It also asks for the removal of the job of a  *)
(* channel that is off and of a cron that changed, by a key it puts        *)
(* together itself.  BullMQ knows its jobs by other keys, so this removes  *)
(* nothing: only the switch that turns everything off, which lists the     *)
(* jobs with their keys, does.                                             *)
(*                                                                         *)
(* Polls may overlap (a slow read), and so may reconciliations (a slow     *)
(* Redis).  What the module remembers is lost when the process ends, the   *)
(* queue is not.  The timezone of a configuration is a literal, so the     *)
(* only thing to remember about it is whether it was set.                  *)
(***************************************************************************)
EXTENDS Naturals

CONSTANTS
  Crons,         \* cron patterns
  Configs,       \* the valid contents of the file
  Invalid,       \* a file that is missing, not YAML or off the schema
  NoConfig,      \* the snapshot before the first load
  NotReading,    \* a poll that is not under way
  Polls,         \* refresh() calls that can be under way at once
  Runs,          \* reconcile() calls that can be under way at once
  MaxEdits,      \* bound on changes of the file
  MaxMishaps     \* bound on the ends of the process and the queue commands
                 \* that fail

Kinds == {"briefing", "digest"}

NoCron == "no cron"

ASSUME CronsAssumption == NoCron \notin Crons
ASSUME ConfigsAssumption ==
  Configs \subseteq [enabled : BOOLEAN,
                     channel : [Kinds -> [enabled : BOOLEAN, cron : Crons]]]
ASSUME DistinctAssumption ==
  /\ {Invalid, NoConfig, NotReading} \cap Configs = {}
  /\ Invalid # NoConfig /\ Invalid # NotReading /\ NoConfig # NotReading
ASSUME BoundsAssumption == {MaxEdits, MaxMishaps} \subseteq Nat

VARIABLES
  phase,        \* of the process
  file,         \* what the configuration file holds
  current,      \* ProactiveConfigService.current
  refresh,      \* what each refresh() under way has read
  run,          \* each reconcile(): where it is, for which configuration
  tracked,      \* currentBriefingCron and currentDigestCron
  tzKnown,      \* currentTz is not null
  repeatables,  \* the repeatable jobs in BullMQ: kind and cron
  trouble,      \* history, since a reconciliation last began alone: "failed" if
                \* a queue command for the snapshot failed, "overlapped" if one
                \* that clears the queue ran beside one that fills it, or "none"
  edits,
  mishaps

serviceVars == <<file, current, refresh, edits>>
queueVars == <<repeatables, trouble>>
moduleVars == <<tracked, tzKnown>>
vars == <<phase, file, current, refresh, run, tracked, tzKnown, repeatables,
          trouble, edits, mishaps>>

Jobs == Kinds \X Crons

\* "loading": start() awaits the first read; "booting": the first
\* reconciliation runs before the worker; "idle": the first load failed.
Phases == {"down", "loading", "booting", "up", "idle"}

Polling == phase \in {"booting", "up"}

\* The await a reconciliation is at; "channel" is before reconcileChannel(kind).
Steps == {"ended", "channel", "disable", "replace", "add", "list", "clear"}

NoRun == [at |-> "ended", next |-> NoConfig, kind |-> "briefing",
          listed |-> {}, boot |-> FALSE]

Wanted(config) ==
  {j \in Jobs : /\ config.enabled
                /\ config.channel[j[1]].enabled
                /\ config.channel[j[1]].cron = j[2]}

\* Every job of the configuration is there; switched off, no other is either.
Holds(config) ==
  /\ Wanted(config) \subseteq repeatables
  /\ ~config.enabled => repeatables = {}

Busy(r) == run[r].at # "ended"

AllEnded == \A r \in Runs : ~Busy(r)

Init ==
  /\ phase = "down"
  /\ file \in Configs \cup {Invalid}
  /\ current = NoConfig
  /\ refresh = [p \in Polls |-> NotReading]
  /\ run = [r \in Runs |-> NoRun]
  /\ tracked = [k \in Kinds |-> NoCron]
  /\ tzKnown = FALSE
  /\ repeatables = {}
  /\ trouble = "none"
  /\ edits = 0
  /\ mishaps = 0

-----------------------------------------------------------------------------
(* The configuration file and its polls. *)

\* An operator, or the Vault agent, writes the file.
Edit ==
  /\ edits < MaxEdits
  /\ edits' = edits + 1
  /\ \E content \in (Configs \cup {Invalid}) \ {file} : file' = content
  /\ UNCHANGED <<phase, current, refresh, run, mishaps>>
  /\ UNCHANGED <<moduleVars, queueVars>>

\* A reconciliation that clears the queue and one that fills it.
Overlaps(config) == \E s \in Runs : Busy(s) /\ run[s].next.enabled # config.enabled

\* Slots of calls are alike: a call takes any one that is free.
FreeRun == CHOOSE r \in Runs : ~Busy(r)

\* reconcile() up to its first await.
ReconcileStarts(config, boot) ==
  /\ \E r \in Runs : ~Busy(r)
  /\ run' = [run EXCEPT ![FreeRun] = [NoRun EXCEPT
                !.at = IF config.enabled THEN "channel" ELSE "list",
                !.next = config,
                !.boot = boot]]
  /\ trouble' = IF Overlaps(config) \/ (~AllEnded /\ trouble = "overlapped")
                  THEN "overlapped" ELSE "none"

Start ==
  /\ phase = "down"
  /\ phase' = "loading"
  /\ UNCHANGED <<run, mishaps>>
  /\ UNCHANGED <<serviceVars, moduleVars, queueVars>>

\* The first read resolves: the snapshot is set before anyone listens, the
\* polls begin, and the bootstrap awaits its own reconciliation.
FirstLoad ==
  /\ phase = "loading"
  /\ file # Invalid
  /\ phase' = "booting"
  /\ current' = file
  /\ ReconcileStarts(file, TRUE)
  /\ UNCHANGED <<file, refresh, repeatables, edits, mishaps>>
  /\ UNCHANGED moduleVars

\* The application runs on without polls and without a worker.
FirstLoadFails ==
  /\ phase = "loading"
  /\ file = Invalid
  /\ phase' = "idle"
  /\ UNCHANGED <<run, mishaps>>
  /\ UNCHANGED <<serviceVars, moduleVars, queueVars>>

PollStarts(p) ==
  /\ Polling
  /\ refresh[p] = NotReading
  /\ p = CHOOSE q \in Polls : refresh[q] = NotReading
  /\ refresh' = [refresh EXCEPT ![p] = file]
  /\ UNCHANGED <<phase, file, current, run, edits, mishaps>>
  /\ UNCHANGED <<moduleVars, queueVars>>

\* Mutant: a poll that reads an invalid file never returns.
PollKeepsThrown(p) ==
  /\ refresh[p] = current
  /\ refresh' = [refresh EXCEPT ![p] = NotReading]
  /\ UNCHANGED <<phase, file, current, run, edits, mishaps>>
  /\ UNCHANGED <<moduleVars, queueVars>>

\* The read was invalid, or it equals the snapshot.
PollKeeps(p) ==
  /\ refresh[p] \in {Invalid, current}
  /\ refresh' = [refresh EXCEPT ![p] = NotReading]
  /\ UNCHANGED <<phase, file, current, run, edits, mishaps>>
  /\ UNCHANGED <<moduleVars, queueVars>>

\* Mutant: a reload that does not look at the outcome of the schema.
PollNotifiesUnparsed(p) ==
  /\ refresh[p] \notin {NotReading, current}
  /\ current' = refresh[p]
  /\ refresh' = [refresh EXCEPT ![p] = NotReading]
  /\ UNCHANGED <<phase, file, run, edits, mishaps>>
  /\ UNCHANGED <<moduleVars, queueVars>>

PollNotifies(p) ==
  /\ refresh[p] \in Configs \ {current}
  /\ current' = refresh[p]
  /\ refresh' = [refresh EXCEPT ![p] = NotReading]
  /\ ReconcileStarts(refresh[p], FALSE)
  /\ UNCHANGED <<phase, file, repeatables, edits, mishaps>>
  /\ UNCHANGED moduleVars

-----------------------------------------------------------------------------
(* reconcile() *)

\* The run goes to its next await or channel.
GoesTo(r, at) == run' = [run EXCEPT ![r].at = at]

\* reconcileChannel returns: on to the digest, or out of reconcile().
ChannelDone(r) ==
  IF run[r].kind = "briefing"
    THEN /\ run' = [run EXCEPT ![r].kind = "digest", ![r].at = "channel"]
         /\ UNCHANGED <<phase, tzKnown>>
    ELSE /\ run' = [run EXCEPT ![r] = NoRun]
         /\ tzKnown' = TRUE
         /\ phase' = IF run[r].boot THEN "up" ELSE phase

Cron(r) == run[r].next.channel[run[r].kind].cron

\* reconcileChannel up to its first await.
ChannelStarts(r) ==
  LET kind == run[r].kind
      channel == run[r].next.channel[kind]
      known == tracked[kind]
      Awaits(at) == GoesTo(r, at) /\ UNCHANGED <<phase, tzKnown>>
  IN
  /\ run[r].at = "channel"
  /\ \/ /\ ~channel.enabled
        /\ Awaits("disable")
     \/ /\ channel.enabled
        /\ known = channel.cron /\ tzKnown
        /\ ChannelDone(r)
     \/ /\ channel.enabled
        /\ ~(known = channel.cron /\ tzKnown)
        /\ Awaits(IF known # NoCron THEN "replace" ELSE "add")
  /\ UNCHANGED <<tracked, mishaps>>
  /\ UNCHANGED <<serviceVars, queueVars>>

\* A queue command fails.  What it leaves undone matters if it was done for the
\* snapshot.
Fault(r) ==
  /\ mishaps < MaxMishaps
  /\ mishaps' = mishaps + 1
  /\ trouble' = IF trouble = "none" /\ run[r].next = current THEN "failed" ELSE trouble

\* removeRepeatableByKey with a key made of the kind, a cron and the timezone.
\* BullMQ 5 keys a repeatable job by a hash of its name, job id, end date,
\* timezone and pattern: the command finds nothing to remove, and that, like an
\* error, goes unnoticed.
RemoveByOwnKey == UNCHANGED <<repeatables, trouble, mishaps>>

\* The removal of a channel that is off.
Disable(r) ==
  /\ run[r].at = "disable"
  /\ RemoveByOwnKey
  /\ tracked' = [tracked EXCEPT ![run[r].kind] = NoCron]
  /\ ChannelDone(r)
  /\ UNCHANGED serviceVars

\* The removal of the cron that was scheduled before.
Replace(r) ==
  /\ run[r].at = "replace"
  /\ RemoveByOwnKey
  /\ GoesTo(r, "add")
  /\ UNCHANGED phase
  /\ UNCHANGED <<serviceVars, moduleVars>>

\* queue.add with the same kind and cron replaces the job there is.
Add(r) ==
  /\ run[r].at = "add"
  /\ repeatables' = repeatables \cup {<<run[r].kind, Cron(r)>>}
  /\ tracked' = [tracked EXCEPT ![run[r].kind] = Cron(r)]
  /\ ChannelDone(r)
  /\ UNCHANGED <<trouble, mishaps>>
  /\ UNCHANGED serviceVars

\* removeRepeatables: every job BullMQ lists is removed by its own key.
List(r) ==
  /\ run[r].at = "list"
  /\ run' = [run EXCEPT ![r].at = "clear", ![r].listed = repeatables]
  /\ UNCHANGED <<phase, mishaps>>
  /\ UNCHANGED <<serviceVars, moduleVars, queueVars>>

Clear(r) ==
  /\ run[r].at = "clear"
  /\ \E j \in run[r].listed :
       /\ run' = [run EXCEPT ![r].listed = @ \ {j}]
       /\ \/ repeatables' = repeatables \ {j} /\ UNCHANGED <<trouble, mishaps>>
          \/ Fault(r) /\ UNCHANGED repeatables
  /\ UNCHANGED phase
  /\ UNCHANGED <<serviceVars, moduleVars>>

\* Mutant: removeRepeatables without the two assignments at its end.
ClearedKeepsCrons(r) ==
  /\ run[r].at = "clear"
  /\ run[r].listed = {}
  /\ run' = [run EXCEPT ![r] = NoRun]
  /\ phase' = IF run[r].boot THEN "up" ELSE phase
  /\ UNCHANGED <<tracked, tzKnown, mishaps>>
  /\ UNCHANGED <<serviceVars, queueVars>>

\* The remembered crons are dropped, the remembered timezone is not.
Cleared(r) ==
  /\ run[r].at = "clear"
  /\ run[r].listed = {}
  /\ run' = [run EXCEPT ![r] = NoRun]
  /\ tracked' = [k \in Kinds |-> NoCron]
  /\ phase' = IF run[r].boot THEN "up" ELSE phase
  /\ UNCHANGED <<tzKnown, mishaps>>
  /\ UNCHANGED <<serviceVars, queueVars>>

Forgotten ==
  /\ run' = [r \in Runs |-> NoRun]
  /\ refresh' = [p \in Polls |-> NotReading]
  /\ current' = NoConfig
  /\ tracked' = [k \in Kinds |-> NoCron]
  /\ tzKnown' = FALSE

\* queue.add or getRepeatableJobs fails: the listener logs it; at boot it ends
\* the process.
Rejected(r) ==
  /\ run[r].at \in {"add", "list"}
  /\ Fault(r)
  /\ \/ UNCHANGED repeatables
     \/ /\ run[r].at = "add"
        /\ repeatables' = repeatables \cup {<<run[r].kind, Cron(r)>>}
  /\ IF run[r].boot
       THEN Forgotten /\ phase' = "down"
       ELSE /\ run' = [run EXCEPT ![r] = NoRun]
            /\ UNCHANGED <<phase, current, refresh, tracked, tzKnown>>
  /\ UNCHANGED <<file, edits>>

\* The process ends, at any moment, and its memory with it.  A reconciliation
\* it was in is not taken up again.
Crash ==
  /\ phase # "down"
  /\ mishaps < MaxMishaps
  /\ mishaps' = mishaps + 1
  /\ phase' = "down"
  /\ Forgotten
  /\ UNCHANGED <<file, repeatables, trouble, edits>>

ServiceStep ==
  \/ Start \/ FirstLoad \/ FirstLoadFails
  \/ \E p \in Polls : PollStarts(p) \/ PollKeeps(p) \/ PollNotifies(p)

RunStep(r) ==
  \/ ChannelStarts(r) \/ Disable(r) \/ Replace(r) \/ Add(r)
  \/ List(r) \/ Clear(r) \/ Cleared(r) \/ Rejected(r)

Next == Edit \/ ServiceStep \/ Crash \/ \E r \in Runs : RunStep(r)

Spec == Init /\ [][Next]_vars

\* Node polls on its timer and every read and queue command is answered; nobody
\* has to edit the file, and nothing has to fail.
Fairness ==
  /\ WF_vars(Start) /\ WF_vars(FirstLoad) /\ WF_vars(FirstLoadFails)
  /\ \A p \in Polls :
       WF_vars(PollStarts(p)) /\ WF_vars(PollKeeps(p)) /\ WF_vars(PollNotifies(p))
  /\ \A r \in Runs : WF_vars(RunStep(r))

FairSpec == Spec /\ Fairness

-----------------------------------------------------------------------------
(* Properties. *)

\* The snapshot is always one of the contents the schema accepts, and every
\* other variable has its type.
TypeOK ==
  /\ phase \in Phases
  /\ file \in Configs \cup {Invalid}
  /\ current \in Configs \cup {NoConfig}
  /\ refresh \in [Polls -> Configs \cup {Invalid, NotReading}]
  /\ run \in [Runs -> [at : Steps, next : Configs \cup {NoConfig}, kind : Kinds,
                       listed : SUBSET Jobs, boot : BOOLEAN]]
  /\ tracked \in [Kinds -> Crons \cup {NoCron}]
  /\ tzKnown \in BOOLEAN
  /\ repeatables \subseteq Jobs
  /\ trouble \in {"none", "failed", "overlapped"}
  /\ {edits, mishaps} \subseteq Nat

\* When no reconciliation is under way, the queue has every job the module
\* remembers, whatever failed, overlapped or was lost in a restart; and it has
\* every job the snapshot asks for, and none at all if everything is switched
\* off, unless since a reconciliation last began alone a command for the snapshot
\* failed or one that clears the queue ran beside one that fills it (reconcile in
\* proactive.module.ts).  So the next change makes both good.
ScheduleHoldsConfig ==
  phase = "up" /\ AllEnded =>
    /\ \A k \in Kinds : tracked[k] # NoCron => <<k, tracked[k]>> \in repeatables
    /\ trouble = "none" => Holds(current)

\* A file that stays as it is comes into force, in the snapshot and in the queue,
\* if the first load succeeded (ProactiveConfigService.refresh with the listener
\* of ProactiveModule): a late poll with an older content, an invalid content, a
\* crash or a boot in the middle of it do not prevent it.
QueueFollowsFile ==
  \A c \in Configs :
    <>[](file = c /\ phase # "idle" /\ trouble = "none")
      => <>[](current = c /\ Holds(c))

\* What the module logs when a channel goes off, "channel ... disabled -
\* repeatable removed" (proactive.module.ts:205).  It does not hold.
DisabledIsRemoved ==
  phase = "up" /\ AllEnded /\ trouble = "none" /\ current.enabled =>
    \A j \in repeatables : current.channel[j[1]].enabled
=============================================================================
