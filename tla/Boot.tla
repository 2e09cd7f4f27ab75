--------------------------------- MODULE Boot ---------------------------------
(***************************************************************************)
(* The boot of the assistant, and munera-check beside it.                  *)
(*                                                                         *)
(* Before Nest is imported the Munera settings are tried (a refusal exits  *)
(* 78); then the whole environment is validated, the Munera settings are   *)
(* loaded again, with another look at the key file, the database is        *)
(* connected to, and the process listens.  What fails after the gate exits *)
(* 1, and the container is started again.  munera-check repeats the gate   *)
(* at any time and may ask Muneral about the key, for which it reads the   *)
(* key file once more: what it asks with need not be what the gate saw.    *)
(***************************************************************************)
EXTENDS Naturals, FiniteSets

CONSTANTS
  Keys,         \* agent keys
  Envs,         \* the environments under consideration
  MaxChanges    \* bound on changes of files and services

ASSUME BoundAssumption == MaxChanges \in Nat

VARIABLES
  env,        \* the environment of the container
  file,       \* what the key file holds: a key, "placeholder", "unreadable"
  world,      \* [db, muneral, valid, grant]: what answers, and which keys
  phase,      \* of the process: "gate", "config", "namespace", "connect",
              \* "listening" or "exited"
  held,       \* the key the running service was given
  exited,     \* the latest exit code
  check,      \* munera-check --probe: "idle", "gated" once the gate let it
              \* through, or "asking" Muneral with a token, which may be none
  checked,    \* what one has told, if the latest step was its end
  moved,      \* history: for whom the key file changed since the look at it
  changes

vars == <<env, file, world, phase, held, exited, check, checked, moved, changes>>

NoKey == "none"

\* The settings that matter: a variable is unset, blank, good or bad; a token
\* is a key or a placeholder.
Environments ==
  [url : {"unset", "blank", "good", "bad"},
   timeout : {"unset", "blank", "good", "bad"},
   project : {"unset", "blank", "good", "bad"},
   path : {"unset", "blank", "good"},
   token : {"unset", "blank", "placeholder"} \cup Keys,
   integration : {"unset", "blank", "true", "false", "bad"},
   rest : {"good", "bad"}]

Files == Keys \cup {"placeholder", "unreadable"}

Idle == [at |-> "idle", token |-> NoKey]

Result(code, probed, token) == [code |-> code, probed |-> probed, token |-> token]

NoResult == Result(0, FALSE, NoKey)

Init ==
  /\ env \in Envs
  /\ file \in Files
  /\ world \in [db : BOOLEAN, muneral : {"answers"}, valid : {Keys}, grant : BOOLEAN]
  /\ phase = "gate"
  /\ held = NoKey
  /\ exited = 0
  /\ check = Idle
  /\ checked = NoResult
  /\ moved = {}
  /\ changes = 0

-----------------------------------------------------------------------------
(* The Munera settings. *)

\* A blank is as good as an unset variable.
WithoutBlanks(value) == IF value = "blank" THEN "unset" ELSE value

\* resolveMuneraCredential: the file, if one is named, and nothing else; what
\* is a placeholder is no key.
Credential ==
  IF WithoutBlanks(env.path) # "unset"
    THEN IF file \in Keys THEN file ELSE NoKey
    ELSE IF env.token \in Keys THEN env.token ELSE NoKey

Integrated == WithoutBlanks(env.integration) \in {"unset", "true"}

\* The namespace's schema over the environment without its blanks.
Parses ==
  /\ \A value \in {env.url, env.timeout, env.project} :
       WithoutBlanks(value) \in {"unset", "good"}
  /\ WithoutBlanks(env.integration) \in {"unset", "true", "false"}

\* Without assertUsableCredential.
LoadsAnyway == Parses

\* loadMuneraConfig, or MuneraBootRefusal.
Loads == Parses /\ (Integrated => Credential # NoKey)

\* The schema before A2-313, which asked for the token.
ValidatesToken ==
  /\ env.rest = "good" /\ env.token # "unset"
  /\ \A value \in {env.url, env.timeout} : value \in {"unset", "good"}
  /\ env.integration \in {"unset", "true", "false"}

\* validateConfig: here a blank is a value.
Validates ==
  /\ env.rest = "good"
  /\ \A value \in {env.url, env.timeout} : value \in {"unset", "good"}
  /\ env.integration \in {"unset", "true", "false"}

-----------------------------------------------------------------------------
(* The process. *)

Exit(code) == phase' = "exited" /\ exited' = code /\ held' = NoKey

Goes(to) == phase' = to /\ UNCHANGED <<held, exited>>

Outside ==
  /\ checked' = NoResult
  /\ UNCHANGED <<env, file, world, check, changes>>

Looks(who) == moved' = moved \ {who}

\* munera-boot-preflight, before anything else is imported.
Gate ==
  /\ phase = "gate"
  /\ IF Loads THEN Goes("config") ELSE Exit(78)
  /\ Outside /\ UNCHANGED moved

\* ConfigModule.forRoot, while app.module is imported.
Config ==
  /\ phase = "config"
  /\ IF Validates THEN Goes("namespace") ELSE Exit(1)
  /\ Outside /\ UNCHANGED moved

\* registerAs(MUNERA_CONFIG): the key file is read for the service.
Namespace ==
  /\ phase = "namespace"
  /\ IF Loads
       THEN /\ held' = IF Integrated THEN Credential ELSE NoKey
            /\ phase' = "connect" /\ UNCHANGED exited
       ELSE Exit(1)
  /\ Looks("service")
  /\ Outside

\* PrismaService.onModuleInit, then listen.
Connect ==
  /\ phase = "connect"
  /\ IF world.db THEN Goes("listening") ELSE Exit(1)
  /\ Outside /\ UNCHANGED moved

\* restart: unless-stopped.
Restart ==
  /\ phase = "exited"
  /\ phase' = "gate" /\ held' = NoKey
  /\ Outside /\ UNCHANGED <<exited, moved>>

Process == Gate \/ Config \/ Namespace \/ Connect \/ Restart

-----------------------------------------------------------------------------
(* munera-check. *)

Elsewhere == <<env, file, world, phase, held, exited, changes>>

\* Without --probe, without the integration or refused: the gate is all there is.
Check ==
  /\ check = Idle
  /\ checked' = Result(IF Loads THEN 0 ELSE 78, FALSE, NoKey)
  /\ UNCHANGED <<check, moved>> /\ UNCHANGED Elsewhere

\* The gate of a probe, which keeps nothing of the key it has seen.
Look ==
  /\ check = Idle
  /\ Loads /\ Integrated
  /\ check' = [Idle EXCEPT !.at = "gated"]
  /\ Looks("check")
  /\ checked' = NoResult
  /\ UNCHANGED Elsewhere

\* The credential is resolved again and not tested again: a file that is gone by
\* now gives the token null, and the request goes out with it.
Ask ==
  /\ check.at = "gated"
  /\ check' = [at |-> "asking", token |-> Credential]
  /\ checked' = NoResult
  /\ UNCHANGED moved /\ UNCHANGED Elsewhere

\* Mutant: a key without a grant is refused as a key.
ExitOfForbidding ==
  IF world.muneral = "down" THEN 69
  ELSE IF world.muneral = "redirects" THEN 78
  ELSE IF check.token \notin world.valid \/ ~world.grant THEN 77
  ELSE 0

\* 401 is about the token, whatever it is; 403 is not.
ExitOf ==
  IF world.muneral = "down" THEN 69
  ELSE IF world.muneral = "redirects" THEN 78
  ELSE IF check.token \notin world.valid THEN 77
  ELSE 0

Answer ==
  /\ check.at = "asking"
  /\ checked' = Result(ExitOf, TRUE, check.token)
  /\ check' = Idle
  /\ UNCHANGED moved /\ UNCHANGED Elsewhere

-----------------------------------------------------------------------------
(* Files and services. *)

FileChanges ==
  /\ changes < MaxChanges /\ changes' = changes + 1
  /\ \E f \in Files : f # file /\ file' = f
  /\ moved' = {"service", "check"}
  /\ checked' = NoResult
  /\ UNCHANGED <<env, world, phase, held, exited, check>>

WorldChanges ==
  /\ changes < MaxChanges /\ changes' = changes + 1
  /\ \/ world' = [world EXCEPT !.db = ~@]
     \/ world' = [world EXCEPT !.grant = ~@]
     \/ \E m \in {"answers", "down", "redirects"} : world' = [world EXCEPT !.muneral = m]
     \/ \E k \in world.valid : world' = [world EXCEPT !.valid = @ \ {k}]
  /\ world' # world
  /\ checked' = NoResult
  /\ UNCHANGED <<env, file, phase, held, exited, check, moved>>

Next ==
  \/ Gate \/ Config \/ Namespace \/ Connect \/ Restart
  \/ Check \/ Look \/ Ask \/ Answer
  \/ FileChanges \/ WorldChanges

\* The process runs, and Docker starts it again.
Spec == Init /\ [][Next]_vars /\ WF_vars(Process)

-----------------------------------------------------------------------------
(* Properties. *)

\* A service that listens and is to use Muneral has a key, whatever happened
\* to the file between the two looks at it (assertUsableCredential).
ListensWithKey == phase = "listening" /\ Integrated => held \in Keys

\* What a probe tells of the key is so, whatever changed at Muneral meanwhile, if
\* the key file did not change since its gate looked at it: 77, there is a key and
\* Muneral refuses it; 0, it accepts it.  If the file did not change since the
\* service loaded it either, both are so of the key the service holds
\* (runMuneraCheck, which reads the file twice; munera-check.ts:2 asks "does the
\* service see its Muneral key?").
CheckIsTrue ==
  checked.probed /\ "check" \notin moved =>
    /\ checked.code = 77 => Credential \in Keys \ world.valid
    /\ checked.code = 0 => Credential \in world.valid
    /\ phase = "listening" /\ Integrated /\ "service" \notin moved =>
         /\ checked.code = 77 => held \notin world.valid
         /\ checked.code = 0 => held \in world.valid

\* What munera-boot-gate.ts:13 says of exit code 77: "the key reached Muneral and
\* Muneral rejected it (401)".  It does not hold.
RefusedKeyWasSent == checked.code = 77 => checked.token \in Keys

\* What a deployment may write: nothing is bad, blank is what may be, and a key
\* file is named.
RightEnvironment ==
  /\ env.rest = "good" /\ env.path = "good"
  /\ env.url \in {"unset", "good"} /\ env.timeout \in {"unset", "good"}
  /\ env.project # "bad"
  /\ env.integration \in {"unset", "true", "false"}

\* A container whose environment is right comes up once its key file and its
\* database are there, whatever it died of before (the gate lets through what
\* the rest accepts, and Docker tries again).
ComesUp ==
  RightEnvironment /\ <>[](file \in Keys /\ world.db) => <>(phase = "listening")
=============================================================================
