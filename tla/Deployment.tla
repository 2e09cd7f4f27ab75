------------------------------ MODULE Deployment ------------------------------
(***************************************************************************)
(* What production runs, and the two scripts that look whether it runs     *)
(* main: the gate at the end of a deployment and the watchdog beside it.   *)
(*                                                                         *)
(* Commits land on main; the CI runs of main form a group in which one is  *)
(* under way and one waits; a run goes through its gates, deploys and      *)
(* verifies, any of which may fail and be run again from there.  A digest  *)
(* of the image's inputs stands for the image.  The watchdog is triggered  *)
(* at a commit and looks at production some time after.                    *)
(***************************************************************************)
EXTENDS Naturals, Sequences, FiniteSets, FiniteSetsExt

CONSTANTS
  Images,       \* the images that commits make
  MaxCommits,   \* bound on main
  MaxTime,      \* the clock stops; commits that land by then have had time to be
                \* deployed
  MaxReruns,    \* bound on runs that are started again
  MaxLag,       \* --max-lag
  MaxWalk       \* --max-walk

ASSUME ImagesAssumption ==
  /\ "no digest" \notin Images
  /\ \E i, j \in Images : i # j
ASSUME SizesAssumption ==
  /\ MaxCommits \in Nat \ {0, 1}
  /\ {MaxTime, MaxWalk} \subseteq Nat \ {0}
  /\ {MaxReruns, MaxLag} \subseteq Nat

VARIABLES
  main,         \* the commits: the image each makes and when it landed
  runs,         \* the CI run of every commit: the job it is at, how it stands
  reruns,
  production,   \* the container: its image and its files
  deployer,     \* history: the commit of the latest deployment, failed or not
  watch,        \* the watchdog under way
  verdict,      \* the verdict of the watchdog, if the latest step gave one
  clock

vars == <<main, runs, reruns, production, deployer, watch, verdict, clock>>

Jobs   == {"gates", "deploy", "verify"}
States == {"waiting", "running", "ok", "failed", "cancelled"}

\* The files of a container's image: all there, or a declared input is not there
\* or cannot be read.
Trees == {"whole", "incomplete"}

NoWatch   == [head |-> 0, at |-> 0]
NoVerdict == [says |-> "none", image |-> "none", shown |-> {}]

\* Production runs the first commit; the gates of the second failed.  Images are
\* alike.
Init ==
  /\ LET first  == CHOOSE i \in Images : TRUE
         second == CHOOSE i \in Images : i # first
     IN  /\ main = <<[image |-> first, at |-> 0], [image |-> second, at |-> 0]>>
         /\ production = [image |-> first, tree |-> "whole"]
  /\ runs = <<[job |-> "verify", state |-> "ok"], [job |-> "gates", state |-> "failed"]>>
  /\ reruns = 0
  /\ deployer = 1
  /\ watch = NoWatch
  /\ verdict = NoVerdict
  /\ clock = 0

Newest == main[Len(main)]

Busy == \E c \in DOMAIN runs : runs[c].state = "running"

\* A run that does not wait.
QueuedAtOnce(rs, c) == [rs EXCEPT ![c].state = "running"]

\* A run joins the group: a run that waits there already is cancelled.
Queued(rs, c) ==
  [d \in DOMAIN rs |->
     CASE d = c -> [rs[d] EXCEPT !.state = IF Busy THEN "waiting" ELSE "running"]
       [] d # c /\ Busy /\ rs[d].state = "waiting" -> [rs[d] EXCEPT !.state = "cancelled"]
       [] OTHER -> rs[d]]

Land(i) ==
  /\ Len(main) < MaxCommits
  /\ clock + MaxLag < MaxTime
  /\ main' = Append(main, [image |-> i, at |-> clock])
  /\ runs' = Queued(Append(runs, [job |-> "gates", state |-> "waiting"]), Len(runs) + 1)
  /\ verdict' = NoVerdict
  /\ UNCHANGED <<reruns, production, deployer, watch, clock>>

\* gh run rerun --failed: the jobs that were done are not done again.
Rerun(c) ==
  /\ reruns < MaxReruns
  /\ reruns' = reruns + 1
  /\ runs[c].state \in {"failed", "cancelled"}
  /\ runs' = Queued(runs, c)
  /\ verdict' = NoVerdict
  /\ UNCHANGED <<main, production, deployer, watch, clock>>

Promote(c) ==
  /\ ~Busy /\ runs[c].state = "waiting"
  /\ runs' = [runs EXCEPT ![c].state = "running"]
  /\ verdict' = NoVerdict
  /\ UNCHANGED <<main, reruns, production, deployer, watch, clock>>

Tick ==
  /\ clock < MaxTime
  /\ clock' = clock + 1
  /\ verdict' = NoVerdict
  /\ UNCHANGED <<main, runs, reruns, production, deployer, watch>>

-----------------------------------------------------------------------------
(* The scripts. *)

\* fingerprintOf in the container: a digest of everything, or none.
Fingerprint(container) ==
  IF container.tree = "whole" THEN container.image ELSE "no digest"

\* read_health and deployed_digest: what the service answers, or no digest.
Reported == {"no digest", Fingerprint(production)}

\* The gate's verdict on a commit.
GateUnproved(c, reported) == reported \in {main[c].image, "no digest"}

Gate(c, reported) == reported = main[c].image

\* input_commits: the commits up to head that change the image, the newest
\* ones.
InputCommits(head) ==
  LET all == {i \in 1..head : i = 1 \/ main[i].image # main[i - 1].image}
  IN  {i \in all : Cardinality({j \in all : j >= i}) <= MaxWalk}

\* A lag that begins with the newest change.
LagStartNewest(walked, reported) == Max(walked)

\* The walk of run, newest first, ends at the first commit of this image: the
\* lag begins with the commit after it.
LagStart(walked, reported) ==
  Min({i \in walked : i > Max({j \in walked : main[j].image = reported})})

\* What is not main's image is a lag; one that cannot be dated fails.
Watchdog(head, reported, now) ==
  LET walked == InputCommits(head)
  IN  IF reported = "no digest" THEN "unproved"
      ELSE IF reported = main[head].image THEN "pass"
      ELSE IF \A i \in walked : main[i].image # reported THEN "fail"
      ELSE IF now - main[LagStart(walked, reported)].at <= MaxLag THEN "pass"
      ELSE "fail"

-----------------------------------------------------------------------------
(* The jobs of a run. *)

At(c, job) == runs[c].state = "running" /\ runs[c].job = job

Failed(c) == runs' = [runs EXCEPT ![c].state = "failed"]

Gates(c) ==
  /\ At(c, "gates")
  /\ Failed(c) \/ runs' = [runs EXCEPT ![c].job = "deploy"]
  /\ verdict' = NoVerdict
  /\ UNCHANGED <<main, reruns, production, deployer, watch, clock>>

\* sync, build, up: the container is made anew, or the job fails, or nothing
\* happens and nothing says so.
Deploy(c) ==
  /\ At(c, "deploy")
  /\ \/ Failed(c) /\ UNCHANGED production
     \/ /\ runs' = [runs EXCEPT ![c].job = "verify"]
        /\ \/ UNCHANGED production
           \/ \E tree \in Trees :
                production' = [image |-> main[c].image, tree |-> tree]
  /\ deployer' = c
  /\ verdict' = NoVerdict
  /\ UNCHANGED <<main, reruns, watch, clock>>

Verify(c) ==
  /\ At(c, "verify")
  /\ \E reported \in Reported :
       IF Gate(c, reported)
         THEN runs' = [runs EXCEPT ![c].state = "ok"]
         ELSE Failed(c)
  /\ verdict' = NoVerdict
  /\ UNCHANGED <<main, reruns, production, deployer, watch, clock>>

Job(c) == Gates(c) \/ Deploy(c) \/ Verify(c)

-----------------------------------------------------------------------------
(* The watchdog. *)

\* Mutant: the watchdog follows a run that went well instead of a schedule.
TriggerAfterSuccess ==
  /\ watch = NoWatch
  /\ runs[Len(runs)].state = "ok"
  /\ watch' = [head |-> Len(main), at |-> clock]
  /\ verdict' = NoVerdict
  /\ UNCHANGED <<main, runs, reruns, production, deployer, clock>>

\* A scheduled run is for the commit that is main's when it is triggered.
Trigger ==
  /\ watch = NoWatch
  /\ watch' = [head |-> Len(main), at |-> clock]
  /\ verdict' = NoVerdict
  /\ UNCHANGED <<main, runs, reruns, production, deployer, clock>>

\* The images main has shown from a moment on.
ShownSince(since) ==
  {main[i].image : i \in {j \in DOMAIN main : j = Len(main) \/ main[j + 1].at >= since}}

Look ==
  /\ watch # NoWatch
  /\ \E reported \in Reported :
       verdict' =
         [says |-> Watchdog(watch.head, reported, clock),
          image |-> production.image,
          shown |-> ShownSince(IF watch.at < MaxLag THEN 0 ELSE watch.at - MaxLag)]
  /\ watch' = NoWatch
  /\ UNCHANGED <<main, runs, reruns, production, deployer, clock>>

Next ==
  \/ \E i \in Images : Land(i)
  \/ \E c \in DOMAIN runs : Rerun(c) \/ Promote(c) \/ Job(c)
  \/ Tick
  \/ Trigger
  \/ Look

\* Time passes, and the schedule of the watchdog is kept.
Spec == Init /\ [][Next]_vars /\ WF_vars(Tick) /\ WF_vars(Trigger) /\ WF_vars(Look)

-----------------------------------------------------------------------------
(* Properties. *)

\* The types of the variables; one run of main is under way, one waits.
TypeOK ==
  /\ \A c \in DOMAIN main : main[c].image \in Images /\ main[c].at \in 0..clock
  /\ DOMAIN runs = DOMAIN main /\ Len(main) \in 1..MaxCommits
  /\ \A c \in DOMAIN runs : runs[c].job \in Jobs /\ runs[c].state \in States
  /\ \A s \in {"waiting", "running"} : Cardinality({c \in DOMAIN runs : runs[c].state = s}) <= 1
  /\ production.image \in Images /\ production.tree \in Trees
  /\ verdict.says \in {"none", "pass", "fail", "unproved"}

\* A deployment that is found ok is in production until the next one: also if
\* it did nothing and did not say so, the service is silent, or an older run's
\* jobs are run again (the gate in verify, main runs being serial as a whole).
OkIsDeployed ==
  runs[deployer].state = "ok" => production.image = main[deployer].image

\* The watchdog passes only if production runs what main showed within the lag
\* before it was triggered, or later: a trickle of changes does not hide one
\* that was never deployed (the lag begins with the oldest).
PassIsTrue == verdict.says = "pass" => verdict.image \in verdict.shown

\* Production that stays behind main is noticed (run's for-else: what cannot
\* be dated fails).
LagIsSeen ==
  <>[](production.image # Newest.image) => <>(verdict.says \in {"fail", "unproved"})
=============================================================================
