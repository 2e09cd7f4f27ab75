# Arcanada Assistant: a TLA+ verification project

This directory models `apps/assistant` of the repository, a NestJS Telegram bot
that answers users, runs write commands after a human approves them, and sends a
daily briefing and digest. It holds TLA+ modules, TLC configurations and proofs
for TLAPS. Paths below are relative to the repository; `A/` stands for
`apps/assistant/src/`.

## 1. Inventory

One Node process, Redis (state with expiry, BullMQ's queue), Postgres (only
pinged), and five services over HTTP: Telegram, Muneral, Ops Bot, Scrutator and
Model Connector. JavaScript runs one handler at a time, and handlers interleave
at every `await`.

| Component | State it keeps | Operations | What is hard | What makes it correct |
|---|---|---|---|---|
| Webhook and router (`A/webhook`, `A/telegram/handlers/command-router.handler.ts`) | none | acknowledge an update, dispatch it by command word | the update is acknowledged before it is handled: a crash loses the handler | every update is dispatched to one handler |
| Approval (`A/approval`, `approval-callback.handler.ts`, `task.handler.ts`, `ops-command.handler.ts`) | in Redis: envelope with a TTL, claim row; in memory: SHA of the claim script | propose, store, show the keyboard, claim, read the claim, route, answer | concurrent taps, lost answers, NOSCRIPT, expiry, crash between claim and route | a command runs at most once, only after an approve, and what users are told is true |
| Approval policy (`A/approval/approval-policy.*`, `predicate-*`) | the policy file, read at boot | decide whether a tool call is gated | defaults, conditions over missing fields | undeclared tools are gated |
| Proactive dispatch (`A/proactive/proactive-dispatcher.service.ts`, `proactive.processor.ts`, `proactive-telegram.sender.ts`) | in Redis: a key per kind and date, a failure counter with an expiry | claim the date, send, fall back to plain text, release, count, raise the alarm | retries, crash between claim and send, lost answers, midnight, two-command counters | one message per date, true reports, an alarm at the third failure |
| Proactive scheduling (`A/proactive/proactive.module.ts`, `proactive-config.service.ts`) | in memory: configuration, tracked crons and timezone; in BullMQ: repeatable jobs | poll the file, reconcile the repeatable jobs | overlapping reloads, removals that remove nothing, restart forgets what is tracked | every enabled kind has a job with the current cron; none when all is off |
| Work item reader (`A/proactive/muneral-reader.service.ts`) | none | page through Muneral's digest | the board changes between pages | a result not marked truncated has every row once |
| Ops Bot client and agent (`packages/core/src/clients/ops-bot.client.ts`, `A/agents/ops-agent`) | circuit breaker; a cached snapshot in Redis | emit an event, read the snapshot, execute a command with audit events | half-open slot, a breaker read after an await, best-effort audits, timeouts of calls that were carried out | a command is sent at most once, what its caller is told is true, the breaker closes again |
| Munera client and agent (`A/agents/munera`) | circuit breaker, last verdict on the credential | create, update, read tasks | retries, late answers overwriting the credential state, the breaker masking reasons | a write is never retried; health tells the fault |
| Scrutator, Transcriber, Model Connector, Dreamer clients | circuit breakers | recall, transcribe, complete, remember | retries inside a breaker | calls end, errors are classified |
| Dialog and chat (`A/orchestrator/dialog.context.ts`, `A/chat`) | none | recall, complete, answer | degradation when a service is out | a turn always gets a reply |
| Registry and orchestrator (`A/orchestrator`) | intents and their owners | register, route | refused registration | one owner per intent, registration all or nothing |
| Fatal reporting (`A/lifecycle`) | times of recent emissions | emit at most ten per minute | window boundary | never more than the limit in any window |
| Access, authentication, boot gates (`A/aal`, `A/auth`, `A/config`, `A/munera-check.ts`) | registered probes, strategies | run the probes, authenticate, refuse to boot | first answer wins, no fall-through | a rejected credential is never overruled |
| Health (`A/health`) | none | aggregate probes, gate 503 | reported-only faults | 503 exactly when an owned dependency fails |
| Deployment scripts (`scripts/ci`) | none | date the deployment lag, compare digests, retry on network errors | reverted changes | red when production lags |

Interactions. The webhook hands a message to the router; write commands go
through Approval, which calls the Munera or Ops Bot agent through the
orchestrator. Proactive scheduling puts jobs on BullMQ's queue; the dispatcher
sends through Telegram and raises alarms through the Ops Bot client. The Munera
client's breaker is shared by tasks, briefing and digest; the Ops Bot client's by
commands, audits, alarms and fatal reports.

`PROJECT.json` lists the hazards of this code, each at the line where it bites,
with the properties that would catch it.

## 2. Plan

Built, in this order:

1. `Approval`, refining `OneShotAction`: checked and proved.
2. `ProactiveDispatch`: checked, its invariants proved.
3. `ProactiveSchedule`: the repeatable jobs and the configuration file.
4. `ClientPolicies`, pure operators: what each of the five HTTP clients throws,
   retries, excuses and says. Two modules use it: `ServiceClient`, one client with
   its breaker and concurrent calls, and `Conversation`, the handlers that need no
   approval, which see of a client every answer the policies allow.
5. `Board`: briefing and digest, read from a board that changes.
6. `Deployment`: CI runs, the gate after a deployment, the watchdog.
7. `Boot`: the boot gate, the stages after it, `munera-check` beside it.

Every safety invariant and every action property of a passing run is proved (section
4), each from an inductive invariant over the module's own variables. What the
proofs can still gain: theorems of their own for safety halves of liveness
properties, as `NeverAnsweredTwice` is for `AnsweredOnce` (that a call of
`ServiceClient` is told once, that a reconciliation has a bounded number of awaits
left), and the ranking arguments behind `MessageComposes` and `EveryCallEnds` as
step lemmas. No module declares a RECURSIVE operator; `Among` of `Board` is a
recursive function, so that it can be proved about.

Abstract specifications: `OneShotAction` is what approval promises. Where a module
has one sentence to keep ("the queue follows the file", "what is not marked as
partial is whole") the sentence is its property; a machine of its own would say
no more.

## 3. What is modelled

### Approval

Source: `A/approval/{approval.service,redis-idempotency.service,telegram-callback.parser}.ts`,
`A/telegram/handlers/{approval-callback,task,ops-command}.handler.ts`.

| Model | Code |
|---|---|
| `cmd[p]`, `Propose` .. `UngatedReturns` | `TaskHandler.handle` / `OpsCommandHandler.handle`: propose, createEnvelope, keyboard, or the ungated route |
| `envelope[p]` | `approval:<id>`, `SET ... EX`; `live` is present, `lapsed` and `deleted` are the two ways it goes |
| `claimRow[p]` | `approval:claim:<id>`, written by the script with its own expiry |
| `pc[t]`, `on`, `verb`, `outcome`, `reply` | the locals of `ApprovalCallbackHandler.handle` for one callback update |
| `scriptCached`, `claimSha` | Redis's script cache and the SHA the service remembers |
| `ClaimOutcome`, `RunClaimScript` | `CLAIM_LUA`, one atomic step |
| `EvalAnswerLost` | ioredis repeating EVALSHA after the connection broke |
| `attempts[p]`, `performed[p]` | calls to `orchestrator.route`; what Muneral or Ops Bot did (external) |
| `decision[p]` | history: the verb the claim was taken with |

Each action is the code between two awaits. A crash (`Crash`) loses every
handler and the remembered SHA; Redis keeps its keys. That Redis is durable is an
assumption: `docker-compose.yml` runs it with the defaults. Several users, chats
and messages add nothing: a tap is its pending id and its verb.

`OneShotAction` says what approval promises: a command is offered, lapses or is
decided once, is issued only when approved (or not gated) and takes effect at
most once. `Promise` is the refinement.

### ProactiveDispatch

Source: `A/proactive/{proactive-dispatcher.service,proactive.processor,proactive-telegram.sender,proactive.controller,proactive.module}.ts`.

| Model | Code |
|---|---|
| `job[j]` | BullMQ's state of the job; while it runs, the await `dispatch` is at: `claim` (SET NX), `send` and `plain` (Telegram), `reset` (DEL counter), `release` (DEL key), `count` (INCR), `ttl` (EXPIRE and alarm), `returned` |
| `tries`, `stalls`, `Settle`, `Recover` | three attempts with backoff; a stalled job is run again once without counting an attempt (BullMQ, external) |
| `runDate[j]`, `today` | `todayIstanbul()` at the moment an attempt runs |
| `enabled` | `snapshot()`: the global and the channel's switch together |
| `sentKey`, `SentKeyLapses` | `proactive:<kind>:<date>:sent`, 36 hours |
| `failures`, `counterDay`, `count` | `proactive:<kind>:consecutive_failures`, the day its expiry was set on, and the answer of INCR |
| `delivered`, `sentSinceOff`, `streak`, `alarmed` | histories: messages the chat received, and what the failure counter is meant to count |
| `*Fails`, `AnswerLost`, `Crash` | a Redis command that throws, carried out or not, or that is repeated; a send that arrived but reads as 500; the death of the process |

Refusals by Telegram are not faults: they come as often as they like. Composing
the text is part of the wait before the claim: both aggregators turn every error
of their sources into text. The configuration is loaded before the worker
starts, so "config-not-loaded" does not occur there.

### ProactiveSchedule

Source: `A/proactive/{proactive.module,proactive-config.service}.ts`.

| Model | Code |
|---|---|
| `current`, `refresh[p]` | `ProactiveConfigService.current`; a `refresh()` call with what it has read, from the end of the read to the comparison |
| `Start`, `FirstLoad`, `FirstLoadFails` | `onApplicationBootstrap`: a failed first load returns before the worker and the polls |
| `PollKeeps`, `PollNotifies` | `refresh`: an invalid or equal content is dropped, another one replaces the snapshot and is notified |
| `run[r]` | a `reconcile()` call: the configuration it was given, the channel it is at and the queue command it awaits |
| `tracked`, `tzKnown` | `currentBriefingCron`, `currentDigestCron`; `currentTz` is not null |
| `repeatables` | BullMQ's repeatable jobs (external), one per kind and cron |
| `RemoveByOwnKey` | `removeRepeatableByKey` with `kind:cron::tz`, at `proactive.module.ts:201` and `:211`: it removes nothing |
| `ChannelStarts` .. `Cleared`, `Rejected` | the code between two awaits of `reconcileChannel` and `removeRepeatables`; `Rejected` at boot ends the process |
| `trouble` | history, since a reconciliation last began alone: a queue command for the snapshot failed, or one that clears the queue ran beside one that fills it |

BullMQ 5, which `package.json` asks for, keys a repeatable job by a hash of its name,
job id, end date, timezone and pattern (external; a job id is passed at `:214`). The
key that `reconcileChannel` puts together names none, so the removals of a channel
that goes off and of a cron that changes do nothing, silently. Only
`removeRepeatables` (`List`, `Clear`) uses the keys BullMQ lists. What can be relied on
is therefore that the jobs asked for are there, and that there are none once
everything is off (`Holds`), not that no other job is.

The timezone is a literal in the schema, so only whether it was set is kept.

### ClientPolicies and ServiceClient

Source: `A/agents/munera/munera.client.ts`, `packages/core/src/clients/{ops-bot,scrutator}.client.ts`,
`A/agents/claude/claude.client.ts`, `A/agents/transcriber/transcriber.client.ts` and the agents
that call them.

| Model | Code |
|---|---|
| `Answers` | the classes of HTTP answers the clients tell apart; a timeout reads as `failed` |
| `*Thrown`, `*Retried`, `*Excused`, `*Said` | what `doFetch`/`doRequest` throws, the retry loop's condition, `errorFilter`, the mapping in `callBreaker` and in the methods behind it |
| `*Prechecked` | operations whose agent looks at `isCircuitOpen` first |
| `breaker`, `slot`, `window` | opossum (external) as the clients configure it: volume, threshold, rolling window of two buckets, one probe when half open |
| `Fire`, `TurnedAway`, `Serve`, `AnswerRetried`, `Backoff`, `AnswerEnds` | `breaker.fire`, the precheck, the request, the loop of `executeRequest`, the result: first an event of the breaker, then `breaker.opened` is read for the caller's reply |
| `Reports` | the self-heal event Ops Bot's client emits through its own breaker when it closes |
| `credential` | `MuneraClient.lastCredentialState` |
| `told` | the reply of the latest step, with how often its request was carried out |

A command of Ops Bot and its two audit events are three calls of `ServiceClient`
in any order and number, which includes the order of `runCommand`.

### Conversation

Source: `A/telegram/handlers/*.handler.ts` without the approval ones,
`A/chat/chat.service.ts`, `A/orchestrator/{dialog.context,orchestrator.service}.ts`.

`message[m].at` is the await the handler is at; `Arrive` is the router and the
handler up to its first await; `AskAgent`, `Download`, `Transcribe`, `Extract`,
`Recall`, `Complete` and `Reply` are the code after each await. A content is a
record of what the handlers look at: sizes, kinds, lengths. `Told` is every reply a
client can give by `ClientPolicies`. `Crash` loses messages under way, because
the webhook acknowledged them.

### Board

Source: `A/proactive/{muneral-reader.service,work-items.reader,briefing.aggregator,digest.aggregator}.ts`.

`board`, `status`, `fresh` are Muneral's rows, the one updated last first (external, after the
query the reader sends); `Open` and `Continue` are a page each; `NextPage` is the
loop body of `fetchAll`; `Render*` are the sections, `Cause` is
`describeUnavailable`. `server = "short"` answers pages that hold less than they
could, empty ones included. `stayed` and `left` are histories that say what a whole
result would be.

### Deployment

Source: `.github/workflows/{ci,deploy-lag}.yml`,
`scripts/ci/{deployed-build-gate,deploy-lag-watchdog}.py`, `A/health/build-fingerprint.ts`.

`runs[c]` is the CI run of a commit; `Queued` is the concurrency group (one under
way, one waiting, a newer one cancels it); `Deploy` may fail, do nothing silently or
make a container whose declared inputs are not all there; `Gate` and `Watchdog` are
the verdicts; `Look` happens some time after `Trigger`, at the commit of the trigger.
Scheduled runs use the commit main had when they were triggered (GitHub, external).

### Boot

Source: `A/{munera-boot-preflight,munera-check,main}.ts`, `A/config/{munera.config,munera-boot-gate,configuration}.ts`.

`Gate`, `Config`, `Namespace`, `Connect` are the stages of the process, each with its
own look at environment and key file; `Restart` is Docker's. `Check` is `munera-check`
when its gate is all there is; with `--probe`, `Look` is the gate
(`munera-check.ts:43`), which keeps nothing of the key, `Ask` the second look at the key
file (`:57`) and the request, and `Answer` the exit code. `check.token` is what was sent
and may be no key: the file may be gone by then, and the second look is not tested.
`moved` is a history: for whom, the service or the check, the file changed since
the look that let it through. `Loads` and `Validates` are the two schemas, which treat a
blank variable differently.

## 4. What is checked and proved

### Runs

| Run | Instance | States | Shows |
|---|---|---|---|
| `approval` | one gated command, an ungated one, two taps, two faults | 61,324 | `TypeOK`, `AtMostOnce`, `OnlyApprovedRuns`, `OneTrueVerdict`, `DroppedOnlyByFault`, `DecisionIsFinal`, the refinement `Promise`; `EveryTapEnds`, `ApprovedRuns` under fairness |
| `approval_duplicate` | violation | | `DuplicateTapToldAlready` fails: finding 1 |
| `proactive` | two jobs, two dates, two attempts, threshold two, two faults | 1,243,237 | `TypeOK`, `OneMessagePerDate`, `ReportsAreTrue`, `KeyStandsForMessage`, `AlarmAtThreshold`, `SwitchOffStops`; `EveryJobSettles` under fairness |
| `proactive_skipped` | violation | | `AlreadySentIsTrue` fails: finding 2 |
| `schedule` | three contents of the file, two polls and two reconciliations at once, two edits, one mishap | 464,654 | `TypeOK`, `ScheduleHoldsConfig`; `QueueFollowsFile` under fairness |
| `schedule_disabled` | violation | | `DisabledIsRemoved` fails: finding 3 |
| `clients` | each of the five clients, two calls at once, two attempts, three calls per window, one change of the service | 221,587 | `TypeOK`, `WritesAreTrue`, `RefusalsNeverTrip`; `EveryCallEnds`, `BreakerRecovers`, `CredentialFollowsKey` under fairness |
| `conversation` | one message of any content, one crash | 6,482 | `OnlyReadableIsAsked`, `NoExcuseWithoutFault`; `AnsweredOnce` under fairness |
| `board` | three tasks, three statuses, pages of one row, two changes, two messages of three sections | 659,328 | `TypeOK`, `WholeUnlessLeft`, `TopIsTop`, `CauseTellsReason`; `MessageComposes` under fairness |
| `deployment` | four commits of three images, one run started again, a clock up to 3, lag 1, walk 3 | 929,708 | `TypeOK`, `OkIsDeployed`, `PassIsTrue`; `LagIsSeen` under fairness |
| `boot` | every Munera environment, two keys, two changes of file or services | 2,029,120 | `ListensWithKey`, `CheckIsTrue`; `ComesUp` under fairness |
| `boot_refused` | violation | | `RefusedKeyWasSent` fails: finding 4 |

Why these bounds are enough. Commands share only the script cache and the SHA, and
two taps are a winner and a loser, an approve and a reject, or a duplicate. Two jobs
of two attempts give four sends, enough for the alarm to be reached across jobs, for
a duplicate and a skip, and for retries on both sides of midnight; two dates let a
key and a counter lapse. Two faults show every single fault and every pair. What
these instances check of safety, the refinement included, is proved for all
numbers of commands, taps, jobs, attempts and faults; the runs are what the
proofs do not give: the liveness, and the evidence that the mutants are found. No
run uses symmetry, since each that could has temporal properties.

In `schedule` two polls and two reconciliations show every overlap of a pair, and
three contents are one that switches everything off, one that schedules both kinds
and one that moves one cron and switches the other kind off. `schedule_disabled` is a
short version, one poll, one reconciliation, one edit and no mishap, so that its
counterexample is the plain case. In `clients` two
calls are a probe and its rival, or a call in flight while another one opens the
breaker; with a volume of one and a threshold of 99 per cent the breaker opens at
the first bad window, and a window of three calls is enough for one that is bad
although a call succeeded. `conversation` needs one message: messages share only
how the process is wired. In `board` pages of one row make three rows three pages,
so two changes fall between any of them; two of the three tasks have the same
priority. In `deployment` four commits are one more than the walk, so production
may be older than it, and inside the walk two changes may be newer than
production, so that the oldest and the newest begin different lags; production is
one commit behind at the start. In `boot` the variables that play no role for each other
(timeout, project) have only the values that differ from each other in effect;
the project is blank as `docker-compose.yml` makes it. Two changes are enough for one
between each pair of the looks at the key file; `boot_refused` needs one.

Deadlock is not checked in the Approval runs, where everything ends when all taps
are answered, nor in `conversation`, `board` and `deployment`, where everything ends when the
message, the texts or the clock are through, nor in the schedule runs, where a process
whose first load failed idles for good. In ProactiveDispatch the configuration can always be switched, so
there is none to find.

Fairness. A handler at an `await` goes on: Redis, Telegram and the agents answer
or time out (`HandlerFairness`, weak fairness per command and per tap). The
worker goes on and takes waiting jobs, and BullMQ looks for stalled jobs, also
after a restart (`FairSpec` of ProactiveDispatch, weak fairness of the worker as a
whole); a restart is assumed to find the configuration readable, since the
worker is not started otherwise. Users, clocks, switches and faults are never
forced.

Every property of a passing run has a mutant in `PROJECT.json`: an operator in
the module that changes one definition the way a bug would, and that violates
the property under the run's own configuration.

### Findings

1. After a decision, a further tap is told that the waiting time ran out, not
   that the choice was already made: `CLAIM_LUA` looks at the envelope, which the
   first claim deleted, before it looks at the claim row
   (`A/approval/redis-idempotency.service.ts:27`). The e2e test that expects
   "already" uses a fake Redis with the opposite order. Safety is not affected:
   nothing runs twice.
2. A crash, or a lost answer, between the claim of a date and the send leaves a
   key without a message. The re-run, later attempts and manual triggers for that
   date report "already sent today" and the job completes
   (`A/proactive/proactive-dispatcher.service.ts:75`).
3. A channel that is switched off, or whose cron changes, keeps its old repeatable
   job: the removal uses a key of its own making, which BullMQ 5 does not know, and
   the log says "repeatable removed" all the same (`A/proactive/proactive.module.ts:201`,
   `:211`). The run shows it for a channel that goes off, whose job then fires for
   nothing: the processor skips it as `channel-disabled`. An old cron of a channel
   that is on still sends, at the old time; whichever of the two crons comes first
   takes the key of the date, and the other one is "already sent". Restarts change
   nothing about it. Switching everything off once clears the queue.
4. A probe of `munera-check` can tell "credential rejected" (exit 77) when no key was
   sent: the key file is read again after the gate, and a file that is gone by then
   makes the request go out with `Bearer null` (`A/munera-check.ts:57`).
   `munera-boot-gate.ts:13` says of 77 that the key reached Muneral. `CheckIsTrue` is
   therefore stated for a file that stayed since the gate.

Met while modelling, and not claims of a run:

- Schedule. A reconciliation that clears the queue and one that fills it can overlap
  (`:152` does not await) and leave the queue without jobs that are asked for; one
  that failed for the snapshot is not repeated before the next change. Both are
  `trouble`, the proviso of `ScheduleHoldsConfig` and `QueueFollowsFile`. A first load
  that fails is not repeated: the process runs on without polls and worker
  (`:148`).
- Munera's credential state is what the answer that arrived last said
  (`munera.client.ts:522`), not the request sent last: a slow old answer
  can overwrite a newer verdict until the next one. `CredentialFollowsKey` is
  therefore stated for keys that stay as they are.
- An ingest that Scrutator answers 200 with another body is told as stored
  (`ok unread` in `ScrutatorSaid`). Audit events of an Ops Bot command are best
  effort and use the command's breaker (`ops-bot.client.ts:220`, `:389`).
- `ClaudeService.handleTurn` rejects when Claude fails and its breaker is closed
  (`claude.client.ts:141`), and replies when it is open; the handlers catch the one
  and pass on the other. A PDF's text may have 400 000 characters for its handler
  and 100 000 for the completion request (`document.handler.ts:16`,
  `claude.schemas.ts:28`); the id of a transcription must be a UUID there and may be
  anything at the transcriber (`claude.schemas.ts:32`). Both end in an excuse;
  `Valid` is the proviso in `NoExcuseWithoutFault`.
- A task that leaves a listing, another that joins it and a touch between two pages
  cancel out in every number `fetchAll` compares: the proviso of
  `WholeUnlessLeft`. A day section whose page is empty is told as "none" even
  if the total is not zero (`digest.aggregator.ts:74`): the proviso on honest servers.
- The watchdog fails when production is ahead of the commit it was triggered at
  (`deploy-lag-watchdog.py:116`); a `verify` that is run again after a newer deployment
  compares with the newer container and fails. Both are false alarms, not false passes.
  So is a lag that `%ct` dates too early, since it is the date of the commit and not of
  its landing. A failing `Deploy` leaves production as it was in the model; `up` may
  fail after it has made the new container, which the model has only for a run that
  succeeded.
- A blank Munera variable is unset for the gate and a value for the schema behind it
  (`configuration.ts:81`): such a container exits 1 for ever, not 78. `ComesUp` is
  stated for environments without it; it says nothing of Redis, which the first
  reconciliation of the schedule waits for at bootstrap. After the key file is rotated, `munera-check` asks with the new key while
  the service holds the old one until it restarts.

### Theorems

The theorems about Approval are in `ApprovalProofs` and hold for every set of
commands and taps, every choice of the gated ones and every number of faults, from
the three assumptions named in `Approval` (`GatedAssumption`,
`NoProposalAssumption`, `MaxFaultsAssumption`).

The invariant `IInv` strengthens the properties. `AtMostOnce` is not inductive: it
holds because a handler may only route after its own claim was taken, a claim is
taken once, and the script deletes the envelope it takes. So `IInv` adds that at
most one tap holds the outcome `taken` for a command, that a row names the verb of
the decision, that a handler which is about to route belongs to an approve that was
taken, and that nothing has been attempted before it does. `InitIInv` shows it of
the initial states; `TypeStep`, `BookkeepingStep` and `InductiveStep` show it of
every step, one case per action. `Invariance` puts them together, and `TypeCorrect`,
`AtMostOnceHolds`, `OnlyApprovedRunsHolds`, `OneTrueVerdictHolds`,
`DroppedOnlyByFaultHolds` and `DecisionIsFinalHolds` follow. `PromiseKept` proves
the refinement: under `IInv` each step of Approval is a step of `OneShotAction` or
leaves its variables unchanged.

The theorems about ProactiveDispatch are in `ProactiveProofs` and hold for every set
of jobs, last day, number of attempts, threshold and number of faults, from the four
assumptions named in the module. `OneMessagePerDate` is not inductive: whether a
date may receive another message depends on its key and on the run that holds it.
`Paid` says that wherever a message can still come from (a date whose key is free, a
run before its send or after a failed one) the faults so far already pay for the
messages there are, and `KeyHeld` that a sending run holds its key. With no faults
the same argument gives `KeyStandsForMessage` and from it `ReportsAreTrue`.
`CounterIsStreak` relates the Redis counter to the streak at each await of the catch
block, which gives `AlarmAtThreshold`. `OffIsQuiet` gives `SwitchOffStops`. Each
group has its step lemma (`ShapeStep`, `MessagesStep`, `ReportsStep`, `CounterStep`,
`SwitchStep`), one case per action.

The theorems about ProactiveSchedule are in `ScheduleProofs`, for any
configurations, crons, polls, reconciliations and mishaps, from `CronsAssumption`,
`ConfigsAssumption` and `DistinctAssumption`. `ScheduleHoldsConfig` speaks of moments
when no reconciliation is under way; the invariant says what those under way have yet
to do, however many they are and however they interleave. What the module remembers is
in the queue, or some reconciliation is clearing it and will make the module forget
(`Remembered`). Without `trouble`, what the snapshot asks for is there, or a
reconciliation for the snapshot has yet to come to the channel of the missing job, or
to remove a job it listed or will list (`Pursued`); an older reconciliation beside it
only adds jobs or only removes them, as the newer one does. A process that does not poll
runs nothing and remembers nothing (`Quiet`), and a reconciliation is where its
configuration lets it be (`Placed`). TLC finds the invariant to hold with three
edits and two mishaps.

The theorems about ServiceClient are in `ServiceClientProofs`, for every client, any
number of calls, attempts and changes, any volume and threshold, from
`SubjectsAssumption` and `SizesAssumption`. What a caller is told rests on an answer
given before other calls moved the breaker, so the invariant keeps with each call
what its request did: `DoneAsAnswered` (an answer tells what it may have carried
out), `WritesOnce` (a write is never in the retry loop) and `AttemptLeft`. One lemma
per client, by cases over its policy, shows that no answer to a write is tried again
and that what is said of it is true. `NothingCounts` is the other half: while the
service was never in trouble no answer there is counts against the breaker (each
client's filter excuses every refusal), so the breaker never left "closed".

The theorems about Conversation are in `ConversationProofs`, for any messages and
crashes. Each await is reached only by contents that passed the checks before it
(`Checked`); what was asked was acceptable (`AskedIsAcceptable`), and a reply that
is no answer of Claude's has a reason from the moment it is chosen
(`PutOffForAReason`). `NeverAnsweredTwice` is the safety half of `AnsweredOnce`.

The theorems about Board are in `BoardProofs`, for any tasks, plans, sizes and
number of changes, from `TasksAssumption`, `SizesAssumption` and `PlansAssumption`.
`WholeUnlessLeft` is not inductive: `ReadHolds` says of a read under way that what
has stayed still matches, and that every row matches unless a task left. A read that
is not marked has as many rows as the total its last page repeated (`Truncated`),
which is the number of tasks that match; the rows differ, so they are all of them
(`WholeRead`). The argument counts and never looks at the order. `TopIsTop` follows
from `WholeRead` and from what `Ranked` and `FirstOf` return (`RankedProperties`,
`BestFirst`). `CauseTellsReason` is an action property: two refusals of one client
have different causes (`CausesDiffer`).

The theorems about Deployment are in `DeploymentProofs`, for any images, length of
main, lag and walk, from `ImagesAssumption` and `SizesAssumption`. A pass of the
watchdog is decided when it looks and held against what main showed within the lag
before it was triggered; the invariant orders the dates of the commits and bounds
them by the clock (`MainTyped`), and dates those after the trigger's head no earlier
than the trigger (`WatchTyped`). `PassIsShown` then goes through both ways to pass;
the second one takes the last commit of the walk with the reported image and the run
of equal images after it. `OneEach` gives the type invariant: at most one run is
under way, and one waits. `OkIsDeployed` is inductive with the types: only the gate
makes a run "ok".

The theorems about Boot are in `BootProofs`, for any keys, environments and changes.
Nothing a gate saw is an invariant, since the key file may change before the next
look. What holds is what each of the two processes got from its latest look:
`GivenKey`, a process past its namespace has the key it was given there;
`HeldIsCurrent`, that key is the file's as long as the file stays; `ProbedIsCurrent`,
while the file stays, what a probe sent is the key that its gate saw. An answer is about
what was sent, so `CheckIsTrue` follows for the file and for the service: the two
processes agree although neither tells the other. Where the file did not stay,
nothing of the kind holds: finding 4.

What the proofs found in the model. `TypeOK` of `Deployment` is false when main may
have a single commit, as it starts with two: `SizesAssumption` asks for more. An
image must differ from "no digest", and there must be two of them
(`ImagesAssumption`). Guards that overlapped in a CASE, which TLA+ leaves open, are
an IF with the order of the code (`ExitOf`, `Cause`, `Watchdog`). Filters of `Board`
that had been library operators without known facts are `Among`.

Induction over data. The induction theorems of the library cannot be instantiated
here, but a set of numbers that holds 0 and every successor up to n is 0..n, which
follows from well-foundedness (`LeastOf`, `UpTo`). With it `TakenExists` proves that
the recursive function of `Among` exists, and `AmongProperties` what it returns.

### Only model-checked

Liveness (`EveryTapEnds`, `ApprovedRuns`, `EveryJobSettles`, `QueueFollowsFile`,
`EveryCallEnds`, `BreakerRecovers`, `CredentialFollowsKey`, `AnsweredOnce`,
`MessageComposes`, `LagIsSeen`, `ComesUp`) is out of the prover's reach, as are
ENABLED and fairness; those properties stay with TLC, which also shows the two
violations. The theorems say nothing of what the modules abstract.

## 5. What is not modelled

The components marked `not_modelled` in `PROJECT.json`, each with its reason there:
Health, which keeps no state; fatal reporting, one synchronous function;
authentication and scopes, decisions about one request; the approval policy, whose
two proposed tools both require approval; the boot credential runner, for which no
probe is registered; and Dreamer, a skeleton that refuses every call.

Within the modules: the bytes of the callback data, the wording of replies, and the
rounding of the TTL (Approval); the second kind, which shares only the worker, the
metrics counters, which nothing reads, and how Ops Bot takes the alarm, since
`emitSelfHeal` swallows its errors (ProactiveDispatch); the cache of Ops Bot's snapshot
and the parser of its metrics (ServiceClient); escaping and layout of the texts and
the zoned day, which is a property of a row here (Board); retries of network
commands and the preflight of the runner, which decide within one step of a job
(Deployment); the namespaces of the other clients, which are one variable,
`rest` (Boot).
