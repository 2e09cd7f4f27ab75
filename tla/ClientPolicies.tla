--------------------------- MODULE ClientPolicies ---------------------------
(***************************************************************************)
(* What the five HTTP clients of the assistant make of an answer.          *)
(*                                                                         *)
(* Each client calls its service through a circuit breaker around a retry  *)
(* loop, and they differ in which answers the loop throws, which of those  *)
(* it tries again, which the breaker excuses (errorFilter), and what the   *)
(* caller is told in the end.  Answers and errors have the same names.     *)
(***************************************************************************)

Clients == {"munera", "opsbot", "scrutator", "claude", "transcriber"}

\* "ok": 2xx with the body the client wants.  "malformed": 2xx with another.
\* "garbled": 2xx labelled JSON that is not, a body like any other for the
\* clients that read text first.  "refused": 4xx other than those named.
\* "failed": 408, 429, 5xx, or no answer within the timeout.  "redirect" reaches
\* only the client that asks fetch not to follow it.
Answers == {"ok", "malformed", "garbled", "refused", "forbidden",
            "unauthorized", "failed", "redirect"}

ClientFaults == {"refused", "forbidden", "unauthorized"}

\* The error of a call that the breaker did not let through.
Rejected == "breaker is open"

Errors == (Answers \ {"ok"}) \cup {Rejected}

-----------------------------------------------------------------------------
(* Munera: a 4xx is a result of the call, classified after the breaker.    *)

MuneraWrites == {"create", "update"}
MuneraReads == {"get", "list", "digest"}

\* The agent looks at the breaker first and passes on what the client returns;
\* the digest is asked for without it.
MuneraPrechecked == {"create", "update", "get", "list"}

MuneraThrown == {"redirect", "failed"}

MuneraRetried(op) == IF op \in MuneraReads THEN {"failed"} ELSE {}

MuneraExcused == ClientFaults

\* Mutant: a rejected key stays rejected.
MuneraCredentialSticks(answer, known) ==
  CASE answer = "unauthorized" \/ known = "rejected" -> "rejected"
    [] known # "rejected" /\ answer \in {"ok", "malformed", "garbled", "forbidden"}
         -> "accepted"
    [] OTHER -> known

\* What an answer says of the key; an answer about something else leaves it.
MuneraCredential(answer, known) ==
  CASE answer = "unauthorized" -> "rejected"
    [] answer \in {"ok", "malformed", "garbled", "forbidden"} -> "accepted"
    [] OTHER -> known

\* The body is judged when the breaker is through with the call.
MuneraReason(answer) ==
  IF answer \in ClientFaults THEN answer ELSE "error"

\* An open breaker masks every other reason.
MuneraSaid(opened, result) ==
  CASE result = "ok" -> "ok"
    [] result # "ok" /\ opened -> "circuit open"
    [] OTHER -> MuneraReason(result)

-----------------------------------------------------------------------------
(* Ops Bot *)

OpsBotWrites == {"event", "command"}
OpsBotReads == {"snapshot"}

OpsBotPrechecked == {"command", "snapshot"}

OpsBotThrown == {"garbled", "refused", "forbidden", "unauthorized", "failed"}

\* Mutant: the retry loop does not look at the operation.
OpsBotRetriesAll(op) == Errors

\* Any error of a read is tried again, a refusal too.
OpsBotRetried(op) == IF op \in OpsBotReads THEN Errors ELSE {}

OpsBotExcused == ClientFaults

\* Any text parses as a snapshot, if only of zeros.
OpsBotAccepts(op, result) ==
  \/ result = "ok"
  \/ op = "snapshot" /\ result = "malformed"

OpsBotSaid(op, opened, result) ==
  CASE OpsBotAccepts(op, result) -> "ok"
    [] ~OpsBotAccepts(op, result) /\ opened /\ result \in OpsBotThrown \cup {Rejected}
         -> "circuit open"
    [] OTHER -> "error"

\* The agent turns errors of a command into a result, those of a snapshot not.
OpsAgentSaid(op, said) ==
  CASE said = "ok" \/ op = "event" -> said
    [] said # "ok" /\ op = "command" -> "error"
    [] said # "ok" /\ op = "snapshot" -> "throws"

-----------------------------------------------------------------------------
(* Scrutator *)

ScrutatorWrites == {"ingest"}
ScrutatorReads == {"search", "recall"}

ScrutatorThrown == {"garbled", "refused", "forbidden", "unauthorized", "failed"}

ScrutatorRetried(op) == IF op \in ScrutatorReads THEN Errors ELSE {}

\* Mutant: no errorFilter.
ScrutatorExcusesNone == {}

ScrutatorExcused == ClientFaults

\* An ingest is believed stored whatever the body of a 2xx says: its "ok unread"
\* is an "ok" to the user.
ScrutatorSaid(op, opened, result) ==
  CASE result = "ok" -> "ok"
    [] result = "malformed" /\ op = "ingest" -> "ok unread"
    [] result \in ScrutatorThrown \cup {Rejected} /\ opened -> "circuit open"
    [] OTHER -> "error"

\* The agent says of every error that Scrutator is unavailable.
KnowledgeAgentSaid(said) == IF said \in {"ok", "ok unread"} THEN said ELSE "error"

-----------------------------------------------------------------------------
(* Claude, through Model Connector *)

ClaudeThrown == Answers \ {"ok"}

ClaudeRetried == {"failed"}

ClaudeExcused == ClientFaults

\* Only an open breaker and a refusal are told; other errors are thrown on.
ClaudeSaid(opened, result) ==
  CASE result = "ok" -> "ok"
    [] result # "ok" /\ opened -> "circuit open"
    [] ~opened /\ result \in ClaudeExcused -> result
    [] OTHER -> "throws"

-----------------------------------------------------------------------------
(* Transcriber *)

TranscriberThrown == Answers \ {"ok"}

TranscriberRetried == {"failed"}

TranscriberExcused == ClientFaults

TranscriberSaid(opened, result) ==
  CASE result = "ok" -> "ok"
    [] result # "ok" /\ opened -> "circuit open"
    [] ~opened /\ result \in TranscriberExcused -> result
    [] OTHER -> "throws"

\* The agent turns what the client throws into a result.
TranscriberAgentSaid(said) == IF said = "throws" THEN "error" ELSE said

-----------------------------------------------------------------------------
(* The policy of a client. *)

Requests ==
  [munera |-> MuneraWrites \cup MuneraReads,
   opsbot |-> OpsBotWrites \cup OpsBotReads,
   scrutator |-> ScrutatorWrites \cup ScrutatorReads,
   claude |-> {"complete"},
   transcriber |-> {"transcribe"}]

Operations == UNION {Requests[client] : client \in Clients}

Writes == MuneraWrites \cup OpsBotWrites \cup ScrutatorWrites

\* Operations whose agent, or whose dialog, looks at the breaker first.
Prechecked ==
  MuneraPrechecked \cup OpsBotPrechecked \cup ScrutatorWrites
    \cup ScrutatorReads \cup {"transcribe"}

Thrown ==
  [munera |-> MuneraThrown, opsbot |-> OpsBotThrown,
   scrutator |-> ScrutatorThrown, claude |-> ClaudeThrown,
   transcriber |-> TranscriberThrown]

Excused ==
  [munera |-> MuneraExcused, opsbot |-> OpsBotExcused,
   scrutator |-> ScrutatorExcused, claude |-> ClaudeExcused,
   transcriber |-> TranscriberExcused]

Retried(client, op) ==
  CASE client = "munera" -> MuneraRetried(op)
    [] client = "opsbot" -> OpsBotRetried(op)
    [] client = "scrutator" -> ScrutatorRetried(op)
    [] client = "claude" -> ClaudeRetried
    [] client = "transcriber" -> TranscriberRetried

Said(client, op, opened, result) ==
  CASE client = "munera" -> MuneraSaid(opened, result)
    [] client = "opsbot" -> OpsAgentSaid(op, OpsBotSaid(op, opened, result))
    [] client = "scrutator" -> KnowledgeAgentSaid(ScrutatorSaid(op, opened, result))
    [] client = "claude" -> ClaudeSaid(opened, result)
    [] client = "transcriber" -> TranscriberAgentSaid(TranscriberSaid(opened, result))

Replies == {"ok", "ok unread", "circuit open", "error", "throws"} \cup ClientFaults
=============================================================================
