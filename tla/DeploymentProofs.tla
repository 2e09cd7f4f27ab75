--------------------------- MODULE DeploymentProofs ---------------------------
(***************************************************************************)
(* Proofs about Deployment, for any images, any length of main, any lag    *)
(* and walk of the watchdog.                                               *)
(*                                                                         *)
(* What the watchdog passes on was decided at another moment than what it  *)
(* is held against: the invariant dates every commit (MainTyped), and      *)
(* those after the watchdog's trigger no earlier than it (WatchTyped).     *)
(* That a dated lag is the lag of production rests on input_commits        *)
(* leaving out no change between two it names (ShownUntil).                *)
(***************************************************************************)
EXTENDS Deployment, FiniteSetTheorems, SequenceTheorems, TLAPS

Commits == [image : Images, at : Nat]

RunRecords == [job : Jobs, state : States]

MainTyped ==
  /\ main \in Seq(Commits) /\ Len(main) \in 1..MaxCommits
  /\ clock \in Nat
  /\ \A i \in 1..Len(main) : main[i].at <= clock
  /\ \A i, j \in 1..Len(main) : i <= j => main[i].at <= main[j].at

\* At most one run is under way, and at most one waits.
OneEach(rs) ==
  \A state \in {"waiting", "running"} : \A c, d \in 1..Len(rs) :
    rs[c].state = state /\ rs[d].state = state => c = d

RunsTyped ==
  /\ runs \in Seq(RunRecords) /\ Len(runs) = Len(main)
  /\ OneEach(runs)

ProductionTyped ==
  /\ production.image \in Images /\ production.tree \in Trees
  /\ deployer \in 1..Len(main)
  /\ OkIsDeployed

WatchTyped ==
  watch = NoWatch \/
    /\ watch.head \in 1..Len(main) /\ watch.at \in 0..clock
    /\ \A i \in 1..Len(main) : i > watch.head => main[i].at >= watch.at

VerdictTrue ==
  /\ verdict.says \in {"none", "pass", "fail", "unproved"}
  /\ PassIsTrue

IInv == MainTyped /\ RunsTyped /\ ProductionTyped /\ WatchTyped /\ VerdictTrue

-----------------------------------------------------------------------------
(* Extremes.                                                               *)

\* A set of naturals has a least element, and Min finds it.
LEMMA LeastOf ==
  ASSUME NEW S, S \subseteq Nat, S # {}
  PROVE  Min(S) \in S /\ \A y \in S : Min(S) <= y
<1> DEFINE R == {ss \in Nat \X Nat : ss[1] < ss[2]}
<1>1. IsWellFoundedOn(R, Nat)
  BY NatLessThanWellFounded DEF OpToRel
<1>2. \A x, y \in Nat : <<y, x>> \in R <=> y < x
  OBVIOUS
<1> HIDE DEF R
<1>3. PICK x \in S : \A y \in S : ~(<<y, x>> \in R)
  BY <1>1, WFMin
<1>4. ASSUME NEW y \in S PROVE x <= y
  <2>1. x \in Nat /\ y \in Nat
    OBVIOUS
  <2>2. ~(y < x)
    BY <1>2, <1>3, <2>1
  <2> QED
    BY <2>1, <2>2
<1> QED
  BY <1>4 DEF Min

\* A set of naturals with a bound has a greatest element.
LEMMA GreatestOf ==
  ASSUME NEW n \in Nat, NEW S, S \subseteq 0..n, S # {}
  PROVE  Max(S) \in S /\ \A y \in S : y <= Max(S)
<1> DEFINE T == {n - y : y \in S}
<1>0. \A y \in S : n - y \in Nat
  OBVIOUS
<1>1. T \subseteq Nat /\ T # {}
  BY <1>0
<1>2. Min(T) \in T /\ \A y \in T : Min(T) <= y
  BY <1>1, LeastOf
<1>3. PICK x \in S : Min(T) = n - x
  BY <1>2
<1>4. \A y \in S : n - x <= n - y
  BY <1>2, <1>3
<1>5. \A y \in S : y <= x
  BY <1>4
<1> QED
  BY <1>5 DEF Max

-----------------------------------------------------------------------------
(* The runs and their group.                                               *)

LEMMA RunAt ==
  ASSUME RunsTyped, NEW c \in DOMAIN runs
  PROVE  c \in 1..Len(main) /\ runs[c] \in RunRecords /\ runs[c].state \in States
<1>1. c \in 1..Len(runs) /\ runs[c] \in RunRecords
  BY LenProperties, ElementOfSeq DEF RunsTyped
<1> QED
  BY <1>1 DEF RunsTyped, RunRecords

\* A run changes on its own: it does not come to wait or to run.
LEMMA OneRun ==
  ASSUME RunsTyped, NEW c \in DOMAIN runs, NEW r \in RunRecords,
         runs' = [runs EXCEPT ![c] = r],
         \/ r.state = runs[c].state
         \/ r.state = "running" /\ ~Busy
         \/ r.state \notin {"waiting", "running"}
  PROVE  /\ runs' \in Seq(RunRecords) /\ Len(runs') = Len(runs) /\ OneEach(runs')
         /\ \A d \in 1..Len(runs) : runs'[d] = IF d = c THEN r ELSE runs[d]
<1>1. runs \in Seq(RunRecords) /\ c \in 1..Len(runs) /\ DOMAIN runs = 1..Len(runs)
  BY DEF RunsTyped
<1>2. /\ runs' \in Seq(RunRecords) /\ Len(runs') = Len(runs)
      /\ \A d \in 1..Len(runs) : runs'[d] = IF d = c THEN r ELSE runs[d]
  BY <1>1, ExceptSeq
<1>3. OneEach(runs')
  BY <1>1, <1>2 DEF RunsTyped, OneEach, Busy
<1> QED
  BY <1>2, <1>3

\* Joining the group leaves one under way and one waiting.
LEMMA QueuedTyped ==
  ASSUME RunsTyped, NEW rs \in Seq(RunRecords), NEW c \in 1..Len(rs),
         \A d \in 1..Len(rs) : d # c => d \in 1..Len(runs) /\ rs[d] = runs[d],
         \A d \in 1..Len(runs) : runs[d].state = "running" => d \in 1..Len(rs) /\ d # c,
         NEW q, q = Queued(rs, c)
  PROVE  /\ q \in Seq(RunRecords) /\ Len(q) = Len(rs) /\ OneEach(q)
         /\ q[c].state # "ok"
         /\ \A d \in 1..Len(rs) : d # c /\ q[d].state = "ok" => runs[d].state = "ok"
<1>1. DOMAIN rs = 1..Len(rs) /\ Len(rs) \in Nat /\ DOMAIN runs = 1..Len(runs)
  BY LenProperties DEF RunsTyped
<1>2. \A d \in 1..Len(rs) : rs[d] \in RunRecords
  BY ElementOfSeq
<1>3. q[c] = [rs[c] EXCEPT !.state = IF Busy THEN "waiting" ELSE "running"]
  BY <1>1 DEF Queued
<1>4. \A d \in 1..Len(rs) : d # c =>
        q[d] = IF Busy /\ runs[d].state = "waiting" THEN [runs[d] EXCEPT !.state = "cancelled"]
                                                   ELSE runs[d]
  BY <1>1 DEF Queued
<1>5. q[c] \in RunRecords /\ q[c].state = IF Busy THEN "waiting" ELSE "running"
  BY <1>2, <1>3 DEF RunRecords, States
<1>6. ASSUME NEW d \in 1..Len(rs), d # c
      PROVE  /\ q[d] \in RunRecords
             /\ q[d].state = IF Busy /\ runs[d].state = "waiting" THEN "cancelled"
                                                                 ELSE runs[d].state
  <2>1. runs[d] \in RunRecords
    BY <1>2, <1>6
  <2>2. CASE Busy /\ runs[d].state = "waiting"
    BY <1>4, <1>6, <2>1, <2>2 DEF RunRecords, States
  <2>3. CASE ~(Busy /\ runs[d].state = "waiting")
    BY <1>4, <1>6, <2>1, <2>3
  <2> QED
    BY <2>2, <2>3
<1>7. q \in [1..Len(rs) -> RunRecords]
  BY <1>1, <1>5, <1>6 DEF Queued
<1>8. q \in Seq(RunRecords) /\ Len(q) = Len(rs)
  BY <1>1, <1>7
<1>9. OneEach(q)
  <2>1. ASSUME NEW d \in 1..Len(rs), NEW e \in 1..Len(rs), d # c, e # c,
               NEW state \in {"waiting", "running"}, q[d].state = state, q[e].state = state
        PROVE  d = e
    BY <1>6, <2>1 DEF RunsTyped, OneEach
  <2>2. ASSUME NEW d \in 1..Len(rs), d # c, NEW state \in {"waiting", "running"},
               q[d].state = state
        PROVE  q[c].state # state
    <3>1. CASE Busy
      BY <1>5, <1>6, <2>2, <3>1
    <3>2. CASE ~Busy
      BY <1>1, <1>5, <1>6, <2>2, <3>2 DEF Busy
    <3> QED
      BY <3>1, <3>2
  <2> QED
    BY <1>8, <2>1, <2>2 DEF OneEach
<1>10. ASSUME NEW d \in 1..Len(rs), d # c, q[d].state = "ok" PROVE runs[d].state = "ok"
  BY <1>6, <1>10
<1> QED
  BY <1>5, <1>8, <1>9, <1>10

-----------------------------------------------------------------------------
(* The walk of the watchdog.                                               *)

LEMMA MainDomain == MainTyped => DOMAIN main = 1..Len(main) /\ Len(main) \in Nat \ {0}
BY LenProperties DEF MainTyped

LEMMA CommitTyped ==
  ASSUME MainTyped, NEW i \in 1..Len(main)
  PROVE  main[i].image \in Images /\ main[i].at \in Nat
<1>1. main[i] \in Commits
  BY ElementOfSeq DEF MainTyped
<1> QED
  BY <1>1 DEF Commits

\* What the walk names is a commit up to head, and the walk leaves out no later
\* change.
LEMMA WalkedIsRecent ==
  ASSUME NEW head \in Nat
  PROVE  /\ InputCommits(head) \subseteq 1..head
         /\ \A i \in InputCommits(head), j \in 1..head :
              j > i /\ main[j].image # main[j - 1].image => j \in InputCommits(head)
<1> DEFINE all == {i \in 1..head : i = 1 \/ main[i].image # main[i - 1].image}
           from(i) == {j \in all : j >= i}
<1>1. InputCommits(head) = {i \in all : Cardinality(from(i)) <= MaxWalk}
  BY DEF InputCommits
<1>2. ASSUME NEW i \in all, NEW j \in all, j > i, Cardinality(from(i)) <= MaxWalk
      PROVE  Cardinality(from(j)) <= MaxWalk
  <2>1. i \in Nat /\ j \in Nat /\ MaxWalk \in Nat
    BY SizesAssumption
  <2>2. from(i) \subseteq 1..head /\ from(j) \subseteq from(i)
    BY <1>2, <2>1
  <2>3. IsFiniteSet(1..head)
    BY FS_Interval
  <2> HIDE DEF from
  <2>4. IsFiniteSet(from(i))
    BY <2>2, <2>3, FS_Subset
  <2>5. /\ Cardinality(from(j)) <= Cardinality(from(i))
        /\ Cardinality(from(i)) \in Nat /\ Cardinality(from(j)) \in Nat
    BY <2>2, <2>4, FS_Subset, FS_CardinalityType
  <2> QED
    BY <1>2, <2>1, <2>5
<1>3. InputCommits(head) \subseteq all
  BY <1>1
<1>4. all \subseteq 1..head
  OBVIOUS
<1>5. ASSUME NEW i \in InputCommits(head), NEW j \in 1..head, j > i,
             main[j].image # main[j - 1].image
      PROVE  j \in InputCommits(head)
  <2>1. i \in all /\ Cardinality(from(i)) <= MaxWalk
    BY <1>1
  <2>2. j \in all
    BY <1>5
  <2> HIDE DEF all, from
  <2>3. Cardinality(from(j)) <= MaxWalk
    BY <1>2, <1>5, <2>1, <2>2
  <2> QED
    BY <1>1, <2>2, <2>3
<1> QED
  BY <1>3, <1>4, <1>5

LEMMA ShownUntil ==
  ASSUME MainTyped, NEW since \in Nat, NEW k \in 1..Len(main),
         k = Len(main) \/ main[k + 1].at >= since
  PROVE  main[k].image \in ShownSince(since)
BY MainDomain DEF ShownSince

\* Whatever image the watchdog passes on, main has shown it within the lag.
LEMMA PassIsShown ==
  ASSUME MainTyped, NEW head \in 1..Len(main), NEW reported, NEW since \in Nat,
         \A i \in 1..Len(main) : i > head => main[i].at >= since,
         since = 0 \/ since + MaxLag <= clock,
         Watchdog(head, reported, clock) = "pass"
  PROVE  reported \in ShownSince(since)
<1>1. head \in Nat /\ Len(main) \in Nat /\ clock \in Nat /\ MaxLag \in Nat
  BY MainDomain, SizesAssumption DEF MainTyped
<1>2. CASE reported = main[head].image
  <2>1. head = Len(main) \/ main[head + 1].at >= since
    BY <1>1
  <2> QED
    BY <1>2, <2>1, ShownUntil
<1>3. CASE reported # main[head].image
  <2> DEFINE walked == InputCommits(head)
             same == {j \in walked : main[j].image = reported}
             after(n) == {i \in walked : i > n}
             still(n) == {k \in n..head : main[k].image = reported}
  <2>1. /\ \E i \in walked : main[i].image = reported
        /\ clock - main[Min(after(Max(same)))].at <= MaxLag
    BY <1>3 DEF Watchdog, LagStart
  <2>2. walked \subseteq 1..head /\ same # {} /\ same \subseteq 0..head
    BY <1>1, <2>1, WalkedIsRecent
  <2>3. Max(same) \in same
    <3> HIDE DEF same
    <3> QED
      BY <1>1, <2>2, GreatestOf
  <2>4. PICK newest \in walked : newest = Max(same) /\ main[newest].image = reported
    BY <2>3
  <2>5. newest \in 1..head
    BY <2>2
  <2>6. still(newest) # {} /\ still(newest) \subseteq 0..head
    <3>1. newest \in newest..head
      BY <1>1, <2>5
    <3>2. newest..head \subseteq 0..head
      BY <1>1, <2>5
    <3>3. newest \in still(newest)
      BY <2>4, <3>1
    <3> QED
      BY <3>2, <3>3
  <2>7. PICK k \in still(newest) : \A j \in still(newest) : j <= k
    <3> HIDE DEF still
    <3> QED
      BY <1>1, <2>6, GreatestOf
  <2>8. k \in newest..head /\ main[k].image = reported /\ k # head
    BY <1>3, <2>7
  <2>9. k + 1 \in 1..head /\ k + 1 > newest /\ main[k + 1].image # reported
    <3>1. k + 1 \in 1..head /\ k + 1 \in newest..head /\ k + 1 > newest
      BY <1>1, <2>5, <2>8
    <3>2. k + 1 \notin still(newest)
      BY <1>1, <2>5, <2>7, <2>8
    <3> QED
      BY <3>1, <3>2
  <2>10. k + 1 \in walked
    <3>1. (k + 1) - 1 = k
      BY <1>1, <2>5, <2>8
    <3>2. main[k + 1].image # main[(k + 1) - 1].image
      BY <2>8, <2>9, <3>1
    <3> QED
      BY <1>1, <2>4, <2>9, <3>2, WalkedIsRecent
  <2>11. k + 1 \in after(newest) /\ after(newest) \subseteq Nat
    BY <2>2, <2>9, <2>10
  <2>12. PICK start \in after(newest) :
           start = Min(after(newest)) /\ start <= k + 1
    <3> HIDE DEF after
    <3> QED
      BY <2>11, LeastOf
  <2>13. clock - main[start].at <= MaxLag
    BY <2>1, <2>4, <2>12
  <2>14. start \in 1..Len(main) /\ k + 1 \in 1..Len(main) /\ k \in 1..Len(main)
    BY <1>1, <2>2, <2>5, <2>8, <2>9, <2>12
  <2>15. /\ main[start].at <= main[k + 1].at
         /\ main[start].at \in Nat /\ main[k + 1].at \in Nat
    BY <2>12, <2>14, CommitTyped DEF MainTyped
  <2>16. main[k + 1].at >= since
    <3>1. PICK a \in Nat : a = main[start].at
      BY <2>15
    <3>2. PICK b \in Nat : b = main[k + 1].at
      BY <2>15
    <3>3. a <= b /\ clock - a <= MaxLag
      BY <2>13, <2>15, <3>1, <3>2
    <3>4. b >= since
      BY <1>1, <3>3
    <3> QED
      BY <3>2, <3>4
  <2> QED
    BY <2>8, <2>14, <2>16, ShownUntil
<1> QED
  BY <1>2, <1>3

-----------------------------------------------------------------------------
(* The actions.                                                            *)

LEMMA NoVerdictIsTrue ==
  ASSUME verdict' = NoVerdict
  PROVE  VerdictTrue'
BY DEF NoVerdict, VerdictTrue, PassIsTrue

LEMMA InitIInv == Init => IInv
<1> SUFFICES ASSUME Init PROVE IInv
  OBVIOUS
<1> USE SizesAssumption
<1>1. PICK first \in Images, second \in Images :
        /\ main = <<[image |-> first, at |-> 0], [image |-> second, at |-> 0]>>
        /\ production = [image |-> first, tree |-> "whole"]
  <2>1. (CHOOSE i \in Images : TRUE) \in Images
    BY ImagesAssumption
  <2>2. (CHOOSE i \in Images : i # CHOOSE j \in Images : TRUE) \in Images
    BY ImagesAssumption
  <2> QED
    BY <2>1, <2>2 DEF Init
<1>2. /\ main \in Seq(Commits) /\ Len(main) = 2
      /\ main[1] = [image |-> first, at |-> 0] /\ main[2] = [image |-> second, at |-> 0]
  BY <1>1 DEF Commits
<1>3. /\ runs \in Seq(RunRecords) /\ Len(runs) = 2
      /\ runs[1] = [job |-> "verify", state |-> "ok"]
      /\ runs[2] = [job |-> "gates", state |-> "failed"]
  BY DEF Init, RunRecords, Jobs, States
<1>4. MainTyped
  BY <1>2 DEF Init, MainTyped
<1>5. RunsTyped
  BY <1>2, <1>3 DEF RunsTyped, OneEach
<1>6. ProductionTyped
  BY <1>1, <1>2 DEF Init, ProductionTyped, OkIsDeployed, Trees
<1>7. WatchTyped /\ VerdictTrue
  BY DEF Init, WatchTyped, VerdictTrue, PassIsTrue, NoVerdict
<1> QED
  BY <1>4, <1>5, <1>6, <1>7 DEF IInv

\* A step that only changes one run leaves the rest of the invariant alone.
LEMMA OnlyRuns ==
  ASSUME IInv, UNCHANGED <<main, watch, clock>>, verdict' = NoVerdict,
         runs' \in Seq(RunRecords), Len(runs') = Len(runs), OneEach(runs'),
         ProductionTyped'
  PROVE  IInv'
<1>1. MainTyped' /\ WatchTyped'
  BY DEF IInv, MainTyped, WatchTyped
<1>2. RunsTyped'
  BY DEF IInv, RunsTyped, OneEach
<1> QED
  BY <1>1, <1>2, NoVerdictIsTrue DEF IInv

\* What is deployed stays as found, if no run is newly found ok.
LEMMA StillDeployed ==
  ASSUME IInv, UNCHANGED <<main, production, deployer>>,
         runs'[deployer].state = "ok" => runs[deployer].state = "ok"
  PROVE  ProductionTyped'
BY DEF IInv, ProductionTyped, OkIsDeployed

LEMMA TypesAt ==
  ASSUME IInv, NEW c \in DOMAIN runs
  PROVE  /\ c \in 1..Len(main) /\ c \in 1..Len(runs) /\ deployer \in 1..Len(runs)
         /\ runs[c] \in RunRecords
         /\ \A job \in Jobs : [runs[c] EXCEPT !.job = job] \in RunRecords
         /\ \A state \in States : [runs[c] EXCEPT !.state = state] \in RunRecords
<1>1. /\ c \in 1..Len(main) /\ c \in 1..Len(runs) /\ deployer \in 1..Len(runs)
      /\ runs[c] \in RunRecords
  BY RunAt DEF IInv, RunsTyped, ProductionTyped
<1> QED
  BY <1>1 DEF RunRecords

\* A run comes to another job, or stands otherwise.
LEMMA RunSteps ==
  ASSUME IInv, NEW c \in DOMAIN runs, NEW r \in RunRecords,
         runs' = [runs EXCEPT ![c] = r],
         \/ r.state = runs[c].state
         \/ r.state = "running" /\ ~Busy
         \/ r.state \notin {"waiting", "running"},
         r.state = "ok" => c # deployer \/ runs[c].state = "ok",
         UNCHANGED <<main, production, deployer, watch, clock>>, verdict' = NoVerdict
  PROVE  IInv'
<1>1. /\ runs' \in Seq(RunRecords) /\ Len(runs') = Len(runs) /\ OneEach(runs')
      /\ \A d \in 1..Len(runs) : runs'[d] = IF d = c THEN r ELSE runs[d]
  BY OneRun DEF IInv
<1>2. ProductionTyped'
  BY <1>1, TypesAt, StillDeployed
<1> QED
  BY <1>1, <1>2, OnlyRuns

LEMMA FailedStep ==
  ASSUME IInv, NEW c \in DOMAIN runs, Failed(c),
         UNCHANGED <<main, production, deployer, watch, clock>>, verdict' = NoVerdict
  PROVE  IInv'
<1> DEFINE r == [runs[c] EXCEPT !.state = "failed"]
<1>1. r \in RunRecords /\ r.state = "failed"
  BY TypesAt DEF States, RunRecords
<1>2. runs' = [runs EXCEPT ![c] = r]
  BY DEF Failed
<1> HIDE DEF r
<1> QED
  BY <1>1, <1>2, RunSteps

LEMMA GatesStep ==
  ASSUME IInv, NEW c \in DOMAIN runs, Gates(c)
  PROVE  IInv'
<1>1. CASE Failed(c)
  BY <1>1, FailedStep DEF Gates
<1>2. CASE runs' = [runs EXCEPT ![c].job = "deploy"]
  <2> DEFINE r == [runs[c] EXCEPT !.job = "deploy"]
  <2>1. r \in RunRecords /\ r.state = runs[c].state
    BY TypesAt DEF Jobs, RunRecords
  <2>2. runs' = [runs EXCEPT ![c] = r]
    BY <1>2
  <2> HIDE DEF r
  <2> QED
    BY <2>1, <2>2, RunSteps DEF Gates
<1> QED
  BY <1>1, <1>2 DEF Gates

\* The latest deployment is not found ok yet.
LEMMA DeployStep ==
  ASSUME IInv, NEW c \in DOMAIN runs, Deploy(c)
  PROVE  IInv'
<1>1. PICK r \in RunRecords :
        /\ runs' = [runs EXCEPT ![c] = r]
        /\ r.state \in {runs[c].state, "failed"} /\ r.state # "ok"
  <2>1. runs[c].state = "running"
    BY DEF Deploy, At
  <2>2. CASE Failed(c)
    <3> DEFINE r == [runs[c] EXCEPT !.state = "failed"]
    <3>1. r \in RunRecords /\ r.state = "failed"
      BY TypesAt DEF States, RunRecords
    <3>2. runs' = [runs EXCEPT ![c] = r]
      BY <2>2 DEF Failed
    <3> HIDE DEF r
    <3> QED
      BY <3>1, <3>2
  <2>3. CASE runs' = [runs EXCEPT ![c].job = "verify"]
    <3> DEFINE r == [runs[c] EXCEPT !.job = "verify"]
    <3>1. r \in RunRecords /\ r.state = runs[c].state
      BY TypesAt DEF Jobs, RunRecords
    <3>2. runs' = [runs EXCEPT ![c] = r]
      BY <2>3
    <3> HIDE DEF r
    <3> QED
      BY <2>1, <3>1, <3>2
  <2> QED
    BY <2>2, <2>3 DEF Deploy
<1>2. /\ runs' \in Seq(RunRecords) /\ Len(runs') = Len(runs) /\ OneEach(runs')
      /\ \A d \in 1..Len(runs) : runs'[d] = IF d = c THEN r ELSE runs[d]
  BY <1>1, OneRun DEF IInv
<1>3. production'.image \in Images /\ production'.tree \in Trees
  <2>1. main[c].image \in Images
    BY TypesAt, CommitTyped DEF IInv
  <2> QED
    BY <2>1 DEF Deploy, IInv, ProductionTyped
<1>4. deployer' = c /\ UNCHANGED <<main, watch, clock>> /\ verdict' = NoVerdict
  BY DEF Deploy
<1>5. c \in 1..Len(main) /\ runs'[c].state # "ok"
  BY <1>1, <1>2, TypesAt
<1>6. ProductionTyped'
  BY <1>3, <1>4, <1>5 DEF ProductionTyped, OkIsDeployed
<1> QED
  BY <1>2, <1>4, <1>6, OnlyRuns

\* A run is found ok when production reports its image.
LEMMA VerifyStep ==
  ASSUME IInv, NEW c \in DOMAIN runs, Verify(c)
  PROVE  IInv'
<1>1. UNCHANGED <<main, production, deployer, watch, clock>> /\ verdict' = NoVerdict
  BY DEF Verify
<1>2. CASE Failed(c)
  BY <1>1, <1>2, FailedStep
<1>3. CASE /\ runs' = [runs EXCEPT ![c].state = "ok"]
           /\ \E reported \in Reported : Gate(c, reported)
  <2>1. production.image = main[c].image
    <3>1. main[c].image \in Images
      BY TypesAt, CommitTyped DEF IInv
    <3> QED
      BY <1>3, <3>1, ImagesAssumption DEF Gate, Reported, Fingerprint
  <2> DEFINE r == [runs[c] EXCEPT !.state = "ok"]
  <2>2. r \in RunRecords /\ r.state = "ok"
    BY TypesAt DEF States, RunRecords
  <2>3. runs' = [runs EXCEPT ![c] = r]
    BY <1>3
  <2> HIDE DEF r
  <2>4. /\ runs' \in Seq(RunRecords) /\ Len(runs') = Len(runs) /\ OneEach(runs')
        /\ \A d \in 1..Len(runs) : runs'[d] = IF d = c THEN r ELSE runs[d]
    BY <2>2, <2>3, OneRun DEF IInv
  <2>5. ProductionTyped'
    BY <1>1, <2>1, <2>4, TypesAt DEF IInv, ProductionTyped, OkIsDeployed
  <2> QED
    BY <1>1, <2>4, <2>5, OnlyRuns
<1> QED
  BY <1>2, <1>3 DEF Verify

LEMMA PromoteStep ==
  ASSUME IInv, NEW c \in DOMAIN runs, Promote(c)
  PROVE  IInv'
<1> DEFINE r == [runs[c] EXCEPT !.state = "running"]
<1>1. r \in RunRecords /\ r.state = "running"
  BY TypesAt DEF States, RunRecords
<1>2. runs' = [runs EXCEPT ![c] = r]
  BY DEF Promote
<1> HIDE DEF r
<1> QED
  BY <1>1, <1>2, RunSteps DEF Promote

LEMMA RerunStep ==
  ASSUME IInv, NEW c \in DOMAIN runs, Rerun(c)
  PROVE  IInv'
<1>1. /\ runs[c].state \in {"failed", "cancelled"} /\ runs' = Queued(runs, c)
      /\ UNCHANGED <<main, production, deployer, watch, clock>> /\ verdict' = NoVerdict
  BY DEF Rerun
<1>2. c \in 1..Len(runs) /\ runs \in Seq(RunRecords) /\ RunsTyped
  BY TypesAt DEF IInv, RunsTyped
<1>3. /\ runs' \in Seq(RunRecords) /\ Len(runs') = Len(runs) /\ OneEach(runs')
      /\ runs'[c].state # "ok"
      /\ \A d \in 1..Len(runs) : d # c /\ runs'[d].state = "ok" => runs[d].state = "ok"
  BY <1>1, <1>2, QueuedTyped
<1>4. ProductionTyped'
  BY <1>1, <1>3, TypesAt, StillDeployed
<1> QED
  BY <1>1, <1>3, <1>4, OnlyRuns

LEMMA LandStep ==
  ASSUME IInv, NEW i \in Images, Land(i)
  PROVE  IInv'
<1> DEFINE commit == [image |-> i, at |-> clock]
           new == [job |-> "gates", state |-> "waiting"]
           n == Len(main)
<1>1. /\ main \in Seq(Commits) /\ runs \in Seq(RunRecords) /\ clock \in Nat
      /\ n \in 1..MaxCommits /\ Len(runs) = n /\ MaxCommits \in Nat
  BY SizesAssumption DEF IInv, MainTyped, RunsTyped
<1>2. commit \in Commits /\ new \in RunRecords
  BY <1>1 DEF Commits, RunRecords, Jobs, States
<1>3. /\ main' = Append(main, commit) /\ runs' = Queued(Append(runs, new), Len(runs) + 1)
      /\ n < MaxCommits
      /\ UNCHANGED <<production, deployer, watch, clock>> /\ verdict' = NoVerdict
  BY DEF Land
<1>4. commit.at = clock
  OBVIOUS
<1> HIDE DEF commit, new
<1>5. /\ main' \in Seq(Commits) /\ Len(main') = n + 1
      /\ main'[n + 1] = commit /\ \A k \in 1..n : main'[k] = main[k]
  BY <1>1, <1>2, <1>3
<1>6. /\ Append(runs, new) \in Seq(RunRecords) /\ Len(Append(runs, new)) = n + 1
      /\ \A k \in 1..n : Append(runs, new)[k] = runs[k]
  BY <1>1, <1>2
<1>7. MainTyped'
  <2>1. \A k \in 1..n : main[k].at <= clock /\ main[k].at \in Nat
    BY CommitTyped DEF IInv, MainTyped
  <2>2. Len(main') \in 1..MaxCommits
    BY <1>1, <1>3, <1>5
  <2>3. \A k \in 1..Len(main') : main'[k].at <= clock
    BY <1>1, <1>4, <1>5, <2>1
  <2>4. ASSUME NEW k \in 1..Len(main'), NEW m \in 1..Len(main'), k <= m
        PROVE  main'[k].at <= main'[m].at
    <3>1. CASE m = n + 1
      BY <1>4, <1>5, <2>3, <3>1
    <3>2. CASE m # n + 1
      <4>1. k \in 1..n /\ m \in 1..n
        BY <1>1, <1>5, <2>4, <3>2
      <4> QED
        BY <1>5, <2>4, <4>1 DEF IInv, MainTyped
    <3> QED
      BY <3>1, <3>2
  <2> QED
    BY <1>1, <1>3, <1>5, <2>2, <2>3, <2>4 DEF MainTyped
<1>8. /\ runs' \in Seq(RunRecords) /\ Len(runs') = n + 1 /\ OneEach(runs')
      /\ \A d \in 1..n : runs'[d].state = "ok" => runs[d].state = "ok"
  <2>1. \A d \in 1..n + 1 : d # n + 1 => d \in 1..n
    BY <1>1
  <2>2. \A d \in 1..n : d \in 1..n + 1 /\ d # n + 1
    BY <1>1
  <2>3. n + 1 \in 1..n + 1
    BY <1>1
  <2>4. PICK rs \in Seq(RunRecords) : rs = Append(runs, new)
    BY <1>6
  <2>5. /\ runs' = Queued(rs, n + 1) /\ Len(rs) = n + 1
        /\ \A k \in 1..n : rs[k] = runs[k]
    BY <1>1, <1>3, <1>6, <2>4
  <2>6. /\ runs' \in Seq(RunRecords) /\ Len(runs') = Len(rs) /\ OneEach(runs')
        /\ \A d \in 1..Len(rs) : d # n + 1 /\ runs'[d].state = "ok" => runs[d].state = "ok"
    BY <1>1, <2>1, <2>2, <2>3, <2>5, QueuedTyped DEF IInv
  <2> QED
    BY <2>2, <2>5, <2>6
<1>9. RunsTyped'
  BY <1>5, <1>8 DEF RunsTyped, OneEach
<1>10. ProductionTyped'
  <2>1. deployer \in 1..n /\ deployer \in 1..n + 1
    BY <1>1 DEF IInv, ProductionTyped
  <2> QED
    BY <1>3, <1>5, <1>8, <2>1 DEF IInv, ProductionTyped, OkIsDeployed
<1>11. WatchTyped'
  <2>1. CASE watch = NoWatch
    BY <1>3, <2>1 DEF WatchTyped
  <2>2. CASE watch # NoWatch
    <3>1. watch.head \in 1..n + 1 /\ watch.at \in 0..clock
      BY <1>1, <2>2 DEF IInv, WatchTyped
    <3>2. ASSUME NEW k \in 1..n + 1, k > watch.head PROVE main'[k].at >= watch.at
      <4>1. CASE k = n + 1
        BY <1>1, <1>4, <1>5, <3>1, <4>1
      <4>2. CASE k # n + 1
        <5>1. k \in 1..n
          BY <1>1, <3>2, <4>2
        <5> QED
          BY <1>5, <2>2, <3>2, <5>1 DEF IInv, WatchTyped
      <4> QED
        BY <4>1, <4>2
    <3> QED
      BY <1>3, <1>5, <3>1, <3>2 DEF WatchTyped
  <2> QED
    BY <2>1, <2>2
<1> QED
  BY <1>3, <1>7, <1>9, <1>10, <1>11, NoVerdictIsTrue DEF IInv

LEMMA TickStep ==
  ASSUME IInv, Tick
  PROVE  IInv'
<1>1. UNCHANGED <<main, runs, production, deployer, watch>> /\ verdict' = NoVerdict
  BY DEF Tick
<1>2. clock \in Nat /\ clock' = clock + 1
  BY DEF Tick, IInv, MainTyped
<1>3. MainTyped'
  <2>1. ASSUME NEW i \in 1..Len(main) PROVE main[i].at <= clock + 1
    <3>1. main[i].at \in Nat /\ main[i].at <= clock
      BY CommitTyped DEF IInv, MainTyped
    <3> QED
      BY <1>2, <3>1
  <2> QED
    BY <1>1, <1>2, <2>1 DEF IInv, MainTyped
<1>4. RunsTyped' /\ ProductionTyped'
  BY <1>1 DEF IInv, RunsTyped, OneEach, ProductionTyped, OkIsDeployed
<1>5. WatchTyped'
  <2>1. \A at \in 0..clock : at \in 0..(clock + 1)
    BY <1>2
  <2> QED
    BY <1>1, <1>2, <2>1 DEF IInv, WatchTyped
<1> QED
  BY <1>1, <1>3, <1>4, <1>5, NoVerdictIsTrue DEF IInv

LEMMA TriggerStep ==
  ASSUME IInv, Trigger
  PROVE  IInv'
<1>1. /\ UNCHANGED <<main, runs, production, deployer, clock>> /\ verdict' = NoVerdict
      /\ watch' = [head |-> Len(main), at |-> clock]
  BY DEF Trigger
<1>2. Len(main) \in 1..MaxCommits /\ MaxCommits \in Nat /\ clock \in Nat
  BY SizesAssumption DEF IInv, MainTyped
<1>3. /\ watch'.head \in 1..Len(main) /\ watch'.at \in 0..clock
      /\ \A i \in 1..Len(main) : ~(i > watch'.head)
  BY <1>1, <1>2
<1>4. MainTyped' /\ RunsTyped' /\ ProductionTyped'
  BY <1>1 DEF IInv, MainTyped, RunsTyped, OneEach, ProductionTyped, OkIsDeployed
<1>5. WatchTyped'
  BY <1>1, <1>3 DEF WatchTyped
<1> QED
  BY <1>1, <1>4, <1>5, NoVerdictIsTrue DEF IInv

LEMMA WatchdogSays ==
  ASSUME NEW head, NEW reported, NEW now
  PROVE  /\ Watchdog(head, reported, now) \in {"pass", "fail", "unproved"}
         /\ Watchdog(head, reported, now) = "pass" => reported # "no digest"
BY DEF Watchdog

LEMMA LookStep ==
  ASSUME IInv, Look
  PROVE  IInv'
<1> DEFINE since == IF watch.at < MaxLag THEN 0 ELSE watch.at - MaxLag
<1>1. PICK reported \in Reported :
        verdict' = [says |-> Watchdog(watch.head, reported, clock),
                    image |-> production.image, shown |-> ShownSince(since)]
  BY DEF Look
<1>2. UNCHANGED <<main, runs, production, deployer, clock>> /\ watch' = NoWatch
  BY DEF Look
<1>3. /\ watch.head \in 1..Len(main) /\ watch.at \in 0..clock
      /\ \A i \in 1..Len(main) : i > watch.head => main[i].at >= watch.at
  BY DEF Look, IInv, WatchTyped
<1>4. MaxLag \in Nat /\ clock \in Nat
  BY SizesAssumption DEF IInv, MainTyped
<1>5. since \in Nat /\ since <= watch.at /\ (since = 0 \/ since + MaxLag <= clock)
  BY <1>3, <1>4
<1> HIDE DEF since
<1>6. \A i \in 1..Len(main) : i > watch.head => main[i].at >= since
  <2>1. \A i \in 1..Len(main) : main[i].at \in Nat
    BY CommitTyped DEF IInv
  <2> QED
    BY <1>3, <1>4, <1>5, <2>1
<1>7. ASSUME Watchdog(watch.head, reported, clock) = "pass"
      PROVE  production.image \in ShownSince(since)
  <2>1. reported = production.image
    BY <1>1, <1>7, WatchdogSays DEF Reported, Fingerprint
  <2>2. reported \in ShownSince(since)
    BY <1>3, <1>5, <1>6, <1>7, PassIsShown DEF IInv
  <2> QED
    BY <2>1, <2>2
<1>8. VerdictTrue'
  BY <1>1, <1>7, WatchdogSays DEF VerdictTrue, PassIsTrue
<1>9. MainTyped' /\ RunsTyped' /\ ProductionTyped' /\ WatchTyped'
  BY <1>2 DEF IInv, MainTyped, RunsTyped, OneEach, ProductionTyped, OkIsDeployed, WatchTyped
<1> QED
  BY <1>8, <1>9 DEF IInv

-----------------------------------------------------------------------------
(* The theorems.                                                           *)

LEMMA InductiveStep ==
  ASSUME IInv, [Next]_vars
  PROVE  IInv'
<1>1. ASSUME NEW c \in DOMAIN runs, Rerun(c) \/ Promote(c) \/ Job(c) PROVE IInv'
  BY <1>1, RerunStep, PromoteStep, GatesStep, DeployStep, VerifyStep DEF Job
<1>2. CASE UNCHANGED vars
  BY <1>2 DEF vars, IInv, MainTyped, RunsTyped, OneEach, ProductionTyped, OkIsDeployed,
     WatchTyped, VerdictTrue, PassIsTrue
<1> QED
  BY <1>1, <1>2, LandStep, TickStep, TriggerStep, LookStep DEF Next

LEMMA Invariance == Spec => []IInv
<1>1. Init => IInv
  BY InitIInv
<1>2. IInv /\ [Next]_vars => IInv'
  BY InductiveStep
<1> QED
  BY <1>1, <1>2, PTL DEF Spec

\* Every variable has its type, and at most one run of main is under way and one
\* waits.
THEOREM TypeCorrect == Spec => []TypeOK
<1>1. ASSUME IInv PROVE TypeOK
  <2>1. /\ DOMAIN main = 1..Len(main) /\ DOMAIN runs = 1..Len(main)
        /\ Len(runs) = Len(main) /\ Len(main) \in Nat
    BY <1>1, MainDomain, LenProperties DEF IInv, RunsTyped
  <2>2. \A c \in 1..Len(main) : main[c].image \in Images /\ main[c].at \in 0..clock
    BY <1>1, CommitTyped DEF IInv, MainTyped
  <2>3. \A c \in DOMAIN runs : runs[c].job \in Jobs /\ runs[c].state \in States
    BY <1>1, TypesAt DEF RunRecords
  <2>4. ASSUME NEW state \in {"waiting", "running"}
        PROVE  Cardinality({c \in DOMAIN runs : runs[c].state = state}) <= 1
    <3> DEFINE S == {c \in DOMAIN runs : runs[c].state = state}
    <3>1. \A c, d \in S : c = d
      BY <1>1, <2>1 DEF IInv, RunsTyped, OneEach
    <3> HIDE DEF S
    <3>2. CASE S = {}
      BY <3>2, FS_EmptySet DEF S
    <3>3. CASE S # {}
      <4>1. PICK c : S = {c}
        BY <3>1, <3>3
      <4> QED
        BY <4>1, FS_Singleton DEF S
    <3> QED
      BY <3>2, <3>3
  <2> QED
    BY <1>1, <2>1, <2>2, <2>3, <2>4 DEF IInv, MainTyped, ProductionTyped, VerdictTrue, TypeOK
<1> QED
  BY <1>1, Invariance, PTL

\* A deployment that was found ok is what production runs until the next one,
\* whatever is run again, and whatever its jobs left undone.
THEOREM OkIsDeployedHolds == Spec => []OkIsDeployed
<1>1. IInv => OkIsDeployed
  BY DEF IInv, ProductionTyped
<1> QED
  BY <1>1, Invariance, PTL

\* The watchdog's pass is true of every production, lag and walk.
THEOREM PassIsTrueHolds == Spec => []PassIsTrue
<1>1. IInv => PassIsTrue
  BY DEF IInv, VerdictTrue
<1> QED
  BY <1>1, Invariance, PTL
=============================================================================
