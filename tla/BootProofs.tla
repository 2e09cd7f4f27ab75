----------------------------- MODULE BootProofs -----------------------------
(***************************************************************************)
(* Proofs about Boot, for any keys, environments and number of changes.    *)
(*                                                                         *)
(* The key file may change between any two looks at it, so nothing that a  *)
(* gate saw is an invariant.  What holds is what each of the two processes *)
(* got from its last look: the service its key (GivenKey), which is the    *)
(* file's as long as the file has not changed since (HeldIsCurrent), and a *)
(* probe, while the file stays, a key that both its looks saw              *)
(* (ProbedIsCurrent).                                                      *)
(***************************************************************************)
EXTENDS Boot, TLAPS

Loaded == phase \in {"connect", "listening"}

GivenKey == Loaded /\ Integrated => held \in Keys

HeldIsCurrent == Loaded /\ Integrated /\ "service" \notin moved => held = Credential

ProbedIsCurrent ==
  check # Idle /\ "check" \notin moved =>
    /\ Credential \in Keys
    /\ check.at = "asking" => check.token = Credential

IInv == GivenKey /\ HeldIsCurrent /\ ProbedIsCurrent /\ CheckIsTrue

-----------------------------------------------------------------------------

\* A configuration that loads resolves, if it has to.
LEMMA LoadedHasKey == Loads /\ Integrated => Credential \in Keys
BY DEF Loads, Credential

\* What resolves is up to the environment and the file.
LEMMA CredentialStays ==
  ASSUME UNCHANGED <<env, file>>
  PROVE  Credential' = Credential /\ (Integrated' <=> Integrated)
BY DEF Credential, Integrated

LEMMA EnvironmentStays ==
  ASSUME UNCHANGED env
  PROVE  Integrated' <=> Integrated
BY DEF Integrated

LEMMA NothingTold ==
  ASSUME checked.probed = FALSE
  PROVE  CheckIsTrue
BY DEF CheckIsTrue

LEMMA InitIInv == Init => IInv
<1> SUFFICES ASSUME Init PROVE IInv
  OBVIOUS
<1>1. GivenKey /\ HeldIsCurrent /\ ProbedIsCurrent
  BY DEF Init, GivenKey, HeldIsCurrent, ProbedIsCurrent, Loaded
<1>2. CheckIsTrue
  BY NothingTold DEF Init, NoResult, Result
<1> QED
  BY <1>1, <1>2 DEF IInv

\* The steps of the process that do not load: what it holds stays, or it has not
\* loaded.
LEMMA ProcessStep ==
  ASSUME IInv, Outside, UNCHANGED moved,
         ~Loaded' \/ (Loaded /\ UNCHANGED held)
  PROVE  IInv'
<1>1. Credential' = Credential /\ (Integrated' <=> Integrated)
  BY CredentialStays DEF Outside
<1>2. GivenKey' /\ HeldIsCurrent'
  BY <1>1 DEF IInv, GivenKey, HeldIsCurrent
<1>3. ProbedIsCurrent'
  BY <1>1 DEF IInv, Outside, ProbedIsCurrent, Idle
<1>4. CheckIsTrue'
  BY NothingTold DEF Outside, NoResult, Result, CheckIsTrue
<1> QED
  BY <1>2, <1>3, <1>4 DEF IInv

\* Loading looks at the file: what the service is given is what is there.
LEMMA NamespaceStep ==
  ASSUME IInv, Namespace
  PROVE  IInv'
<1>1. Credential' = Credential /\ (Integrated' <=> Integrated)
  BY CredentialStays DEF Namespace, Outside
<1>2. GivenKey' /\ HeldIsCurrent'
  <2>1. CASE Loads
    <3>1. held' = (IF Integrated THEN Credential ELSE NoKey)
      BY <2>1 DEF Namespace
    <3> QED
      BY <1>1, <2>1, <3>1, LoadedHasKey DEF GivenKey, HeldIsCurrent
  <2>2. CASE ~Loads
    BY <2>2 DEF Namespace, Exit, GivenKey, HeldIsCurrent, Loaded
  <2> QED
    BY <2>1, <2>2
<1>3. ProbedIsCurrent'
  <2>1. UNCHANGED check /\ ("check" \in moved' <=> "check" \in moved)
    BY DEF Namespace, Outside, Looks
  <2> QED
    BY <1>1, <2>1 DEF IInv, ProbedIsCurrent, Idle
<1>4. CheckIsTrue'
  BY NothingTold DEF Namespace, Outside, NoResult, Result, CheckIsTrue
<1> QED
  BY <1>2, <1>3, <1>4 DEF IInv

\* munera-check leaves the process alone, and the service's look at the file.
LEMMA CheckStep ==
  ASSUME IInv, UNCHANGED Elsewhere, "service" \in moved' <=> "service" \in moved
  PROVE  /\ GivenKey' /\ HeldIsCurrent'
         /\ Credential' = Credential /\ (Integrated' <=> Integrated)
<1>1. Credential' = Credential /\ (Integrated' <=> Integrated)
  BY CredentialStays DEF Elsewhere
<1> QED
  BY <1>1 DEF IInv, Elsewhere, GivenKey, HeldIsCurrent, Loaded

LEMMA LookStep ==
  ASSUME IInv, Look
  PROVE  IInv'
<1>1. /\ GivenKey' /\ HeldIsCurrent'
      /\ Credential' = Credential
  BY CheckStep DEF Look, Looks
<1>2. check' = [at |-> "gated", token |-> NoKey]
  BY DEF Look, Idle
<1>3. ProbedIsCurrent'
  BY <1>1, <1>2, LoadedHasKey DEF Look, ProbedIsCurrent
<1>4. CheckIsTrue'
  BY NothingTold DEF Look, NoResult, Result, CheckIsTrue
<1> QED
  BY <1>1, <1>3, <1>4 DEF IInv

LEMMA AskStep ==
  ASSUME IInv, Ask
  PROVE  IInv'
<1>1. /\ GivenKey' /\ HeldIsCurrent'
      /\ Credential' = Credential
  BY CheckStep DEF Ask
<1>2. check # Idle /\ UNCHANGED moved
  BY DEF Ask, Idle
<1>3. check' = [at |-> "asking", token |-> Credential]
  BY DEF Ask
<1>4. ProbedIsCurrent'
  BY <1>1, <1>2, <1>3 DEF IInv, ProbedIsCurrent
<1>5. CheckIsTrue'
  BY NothingTold DEF Ask, NoResult, Result, CheckIsTrue
<1> QED
  BY <1>1, <1>4, <1>5 DEF IInv

\* The answer is about the token sent, which is the key of the file and of the
\* service where these have not changed.
LEMMA AnswerStep ==
  ASSUME IInv, Answer
  PROVE  IInv'
<1>1. /\ GivenKey' /\ HeldIsCurrent'
      /\ Credential' = Credential /\ (Integrated' <=> Integrated)
  BY CheckStep DEF Answer
<1>2. check.at = "asking" /\ check # Idle /\ check' = Idle /\ UNCHANGED <<moved, world, phase, held>>
  BY DEF Answer, Idle, Elsewhere
<1>3. ProbedIsCurrent'
  BY <1>2 DEF ProbedIsCurrent, Idle
<1>4. /\ ExitOf = 77 => check.token \notin world.valid
      /\ ExitOf = 0 => check.token \in world.valid
  BY DEF ExitOf
<1>5. checked'.code = ExitOf
  BY DEF Answer, Result
<1>6. ASSUME "check" \notin moved PROVE check.token = Credential /\ Credential \in Keys
  BY <1>2, <1>6 DEF IInv, ProbedIsCurrent
<1>7. ASSUME phase = "listening", Integrated, "service" \notin moved PROVE held = Credential
  BY <1>7 DEF IInv, HeldIsCurrent, Loaded
<1>8. CheckIsTrue'
  BY <1>1, <1>2, <1>4, <1>5, <1>6, <1>7 DEF CheckIsTrue
<1> QED
  BY <1>1, <1>3, <1>8 DEF IInv

LEMMA FileChangesStep ==
  ASSUME IInv, FileChanges
  PROVE  IInv'
<1>1. GivenKey'
  BY EnvironmentStays DEF FileChanges, IInv, GivenKey, Loaded
<1>2. HeldIsCurrent' /\ ProbedIsCurrent'
  BY DEF FileChanges, HeldIsCurrent, ProbedIsCurrent
<1>3. CheckIsTrue'
  BY NothingTold DEF FileChanges, NoResult, Result, CheckIsTrue
<1> QED
  BY <1>1, <1>2, <1>3 DEF IInv

LEMMA InductiveStep == IInv /\ [Next]_vars => IInv'
<1> SUFFICES ASSUME IInv, [Next]_vars PROVE IInv'
  OBVIOUS
<1>1. CASE Gate
  BY <1>1, ProcessStep DEF Gate, Goes, Exit, Loaded
<1>2. CASE Config
  BY <1>2, ProcessStep DEF Config, Goes, Exit, Loaded
<1>3. CASE Namespace
  BY <1>3, NamespaceStep
<1>4. CASE Connect
  BY <1>4, ProcessStep DEF Connect, Goes, Exit, Loaded
<1>5. CASE Restart
  BY <1>5, ProcessStep DEF Restart, Loaded
<1>6. CASE Check
  <2>1. GivenKey' /\ HeldIsCurrent' /\ Credential' = Credential
    BY <1>6, CheckStep DEF Check
  <2>2. ProbedIsCurrent'
    BY <1>6 DEF Check, ProbedIsCurrent, Idle
  <2>3. CheckIsTrue'
    BY <1>6, NothingTold DEF Check, Result, CheckIsTrue
  <2> QED
    BY <2>1, <2>2, <2>3 DEF IInv
<1>7. CASE Look
  BY <1>7, LookStep
<1>8. CASE Ask
  BY <1>8, AskStep
<1>9. CASE Answer
  BY <1>9, AnswerStep
<1>10. CASE FileChanges
  BY <1>10, FileChangesStep
<1>11. CASE WorldChanges
  <2>1. Credential' = Credential /\ (Integrated' <=> Integrated)
    BY <1>11, CredentialStays DEF WorldChanges
  <2>2. GivenKey' /\ HeldIsCurrent' /\ ProbedIsCurrent'
    BY <1>11, <2>1 DEF WorldChanges, IInv, GivenKey, HeldIsCurrent, ProbedIsCurrent, Loaded,
       Idle
  <2>3. CheckIsTrue'
    BY <1>11, NothingTold DEF WorldChanges, NoResult, Result, CheckIsTrue
  <2> QED
    BY <2>2, <2>3 DEF IInv
<1>12. CASE UNCHANGED vars
  <2>1. Credential' = Credential /\ (Integrated' <=> Integrated)
    BY <1>12, CredentialStays DEF vars
  <2> QED
    BY <1>12, <2>1 DEF vars, IInv, GivenKey, HeldIsCurrent, ProbedIsCurrent, Loaded, Idle,
       CheckIsTrue
<1> QED
  BY <1>1, <1>2, <1>3, <1>4, <1>5, <1>6, <1>7, <1>8, <1>9, <1>10, <1>11, <1>12 DEF Next

LEMMA Invariance == Spec => []IInv
BY InitIInv, InductiveStep, PTL DEF Spec

-----------------------------------------------------------------------------

\* A service that listens and is to use Muneral has a key, whatever happens to
\* the key file between the two looks at it (loadMuneraConfig).
THEOREM ListensWithKeyHolds == Spec => []ListensWithKey
<1>1. IInv => ListensWithKey
  BY DEF IInv, GivenKey, ListensWithKey, Loaded
<1> QED
  BY <1>1, Invariance, PTL

\* What a probe tells is so of the file's key, and of the key the service holds,
\* where the file has not changed since each looked at it, whatever changes at
\* Muneral and however the steps of the two interleave (runMuneraCheck).
THEOREM CheckIsTrueHolds == Spec => []CheckIsTrue
<1>1. IInv => CheckIsTrue
  BY DEF IInv
<1> QED
  BY <1>1, Invariance, PTL
=============================================================================
