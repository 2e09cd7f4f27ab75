----------------------------- MODULE Conversation -----------------------------
(***************************************************************************)
(* Messages of Telegram users that are answered without an approval: the   *)
(* commands /status, /agents, /wiki and /remember, voice messages, photos  *)
(* and documents, and everything else.                                     *)
(*                                                                         *)
(* The webhook acknowledges a message before it is handled, the router     *)
(* picks a handler, and the handler downloads, transcribes, extracts,      *)
(* recalls and completes as its kind asks, one await after another, and    *)
(* sends one reply.  What a client answers is what ClientPolicies says of  *)
(* it, for any answer of its service and any state of its breaker.         *)
(***************************************************************************)
EXTENDS ClientPolicies, Naturals

CONSTANTS Messages, MaxCrashes

ASSUME MaxCrashesAssumption == MaxCrashes \in Nat

VARIABLES
  wired,       \* the chat service is there for the handlers
  vision,      \* visionEnabled
  message,     \* every message
  crashes

vars == <<wired, vision, message, crashes>>

\* Sizes, pages and lengths are what the handlers tell apart.  A "long" text has
\* at most 100 000 tokens but more than 100 000 characters.
Contents ==
  [kind : {"status", "agents", "other"}]
    \cup [kind : {"wiki"}, text : {"blank", "short"}]
    \cup [kind : {"remember"}, user : BOOLEAN, text : {"blank", "short"}]
    \cup [kind : {"voice"}, user : BOOLEAN, mime : BOOLEAN, size : {"none", "small"},
          text : {"blank", "short"}, uuid : BOOLEAN]
    \cup [kind : {"photo"}, user : BOOLEAN, mime : BOOLEAN, size : {"small", "big"}]
    \cup [kind : {"document"}, user : BOOLEAN, mime : BOOLEAN,
          declared : {"none", "small", "big"}, size : {"small", "big"},
          readable : BOOLEAN, pages : {"few", "many"},
          text : {"blank", "short", "long", "huge"}]

NoContent == [kind |-> "none"]

Waiting == {"agent", "download", "transcribe", "extract", "recall", "complete",
            "reply"}

Init ==
  /\ wired \in BOOLEAN
  /\ vision \in BOOLEAN
  /\ message = [m \in Messages |->
       [at |-> "none", content |-> NoContent, reply |-> "none",
        asked |-> FALSE, faulted |-> FALSE, answers |-> 0]]
  /\ crashes = 0

Content(m) == message[m].content

\* On to the next await, with what went wrong noted.
GoesOn(m, at, faulted) ==
  message' = [message EXCEPT ![m].at = at, ![m].faulted = @ \/ faulted]

Says(m, reply, faulted) ==
  message' = [message EXCEPT ![m].at = "reply", ![m].reply = reply,
                             ![m].faulted = @ \/ faulted]

-----------------------------------------------------------------------------
(* The router and the handlers up to their first await. *)

RememberStart(content) ==
  IF content.user /\ content.text = "short" THEN "agent" ELSE "usage"

VoiceStart(content) == IF content.mime THEN "download" ELSE "excuse"

PhotoStart(content) == IF wired /\ content.user THEN "download" ELSE "greeting"

\* A document that is no PDF, or that nobody sent, is greeted like a text.
DocumentStart(content) ==
  CASE ~(wired /\ content.mime /\ content.user) -> "greeting"
    [] wired /\ content.mime /\ content.user /\ content.declared = "big" -> "excuse"
    [] OTHER -> "download"

Start(content) ==
  CASE content.kind \in {"status", "agents", "wiki"} -> "agent"
    [] content.kind = "remember" -> RememberStart(content)
    [] content.kind = "voice" -> VoiceStart(content)
    [] content.kind = "photo" -> PhotoStart(content)
    [] content.kind = "document" -> DocumentStart(content)
    [] content.kind = "other" -> "greeting"

Arrive(m) ==
  /\ message[m].at = "none"
  /\ \E content \in Contents :
       LET start == Start(content) IN
       message' = [message EXCEPT
         ![m].content = content,
         ![m].at = IF start \in Waiting THEN start ELSE "reply",
         ![m].reply = IF start \in Waiting THEN "none" ELSE start]
  /\ UNCHANGED <<wired, vision, crashes>>

-----------------------------------------------------------------------------
(* Answers of the clients. *)

\* What a caller can be told of an operation, whatever the service answers.
Told(client, op) ==
  {Said(client, op, opened, result) : opened \in BOOLEAN,
                                      result \in Answers \cup {Rejected}}
    \cup (IF op \in Prechecked THEN {"circuit open"} ELSE {})

\* The handlers turn every answer, and every error, into a text.
StatusTold == Told("opsbot", "snapshot")

AgentsTold == Told("opsbot", "snapshot")

\* A blank query is answered before anybody is asked, behind the breaker's check.
WikiTold(content) ==
  IF content.text = "blank" THEN {"ok", "circuit open"} ELSE Told("scrutator", "search")

RememberTold == Told("scrutator", "ingest")

AgentTold(content) ==
  CASE content.kind = "status" -> StatusTold
    [] content.kind = "agents" -> AgentsTold
    [] content.kind = "wiki" -> WikiTold(content)
    [] content.kind = "remember" -> RememberTold

\* orchestrator.route: no agent for the intent, or the agent's result.
AskAgent(m) ==
  /\ message[m].at = "agent"
  /\ \/ Says(m, "excuse", TRUE)
     \/ \E said \in AgentTold(Content(m)) :
          IF said \in {"ok", "ok unread"} THEN Says(m, "result", FALSE)
                                          ELSE Says(m, "excuse", TRUE)
  /\ UNCHANGED <<wired, vision, crashes>>

\* Mutant: the size of a photo is looked at before it is downloaded only.
PhotoLooksDeclared(content) ==
  IF content.mime THEN "recall" ELSE "excuse"

\* What a photo is good for once it is there.
PhotoLooks(content) ==
  IF content.size = "small" /\ content.mime THEN "recall" ELSE "excuse"

DocumentLooks(content) ==
  IF content.size = "small" THEN "extract" ELSE "excuse"

Download(m) ==
  LET next == CASE Content(m).kind = "voice" -> "transcribe"
                [] Content(m).kind = "photo" -> PhotoLooks(Content(m))
                [] Content(m).kind = "document" -> DocumentLooks(Content(m))
  IN
  /\ message[m].at = "download"
  /\ \/ Says(m, "excuse", TRUE)
     \/ IF next = "excuse" THEN Says(m, "excuse", FALSE) ELSE GoesOn(m, next, FALSE)
  /\ UNCHANGED <<wired, vision, crashes>>

\* The agent refuses an empty recording.  A blank transcription has no turn, and
\* is the reply.
Transcribe(m) ==
  LET turns == wired /\ Content(m).user /\ Content(m).text = "short" IN
  /\ message[m].at = "transcribe"
  /\ \/ Says(m, "excuse", TRUE)
     \/ /\ Content(m).size = "none"
        /\ Says(m, "excuse", FALSE)
     \/ /\ Content(m).size = "small"
        /\ \E said \in Told("transcriber", "transcribe") :
             CASE said # "ok" -> Says(m, "excuse", TRUE)
               [] said = "ok" /\ turns -> GoesOn(m, "recall", FALSE)
               [] OTHER -> Says(m, "transcription", FALSE)
  /\ UNCHANGED <<wired, vision, crashes>>

Extracted(content) ==
  /\ content.readable
  /\ content.pages = "few"
  /\ content.text \in {"short", "long"}

Extract(m) ==
  /\ message[m].at = "extract"
  /\ IF Extracted(Content(m)) THEN GoesOn(m, "recall", FALSE)
                              ELSE Says(m, "excuse", FALSE)
  /\ UNCHANGED <<wired, vision, crashes>>

-----------------------------------------------------------------------------
(* ClaudeService.handleTurn *)

\* Mutant: a failed recall ends the turn.
RecallHard(m) ==
  /\ message[m].at = "recall"
  /\ \E said \in Told("scrutator", "recall") :
       CASE said # "ok" -> Says(m, "excuse", FALSE)
         [] said = "ok" /\ vision -> GoesOn(m, "complete", FALSE)
         [] OTHER -> Says(m, "placeholder", FALSE)
  /\ UNCHANGED <<wired, vision, crashes>>

\* Memories, no memories or no recall: the turn goes on.
Recall(m) ==
  /\ message[m].at = "recall"
  /\ IF vision THEN GoesOn(m, "complete", FALSE) ELSE Says(m, "placeholder", FALSE)
  /\ UNCHANGED <<wired, vision, crashes>>

\* The schema of a completion: a string of 100 000 characters, and a UUID if the
\* transcriber gave the request an id.
Valid(content) ==
  /\ content.kind = "document" => content.text = "short"
  /\ content.kind = "voice" => content.uuid

\* The turn rejects; the handlers catch that.
Rejects(m, asked, faulted) ==
  message' = [message EXCEPT
    ![m].at = "reply", ![m].asked = asked, ![m].faulted = @ \/ faulted,
    ![m].reply = IF Content(m).kind = "voice" THEN "transcription" ELSE "excuse"]

Resolves(m, reply, faulted) ==
  message' = [message EXCEPT
    ![m].at = "reply", ![m].asked = TRUE, ![m].faulted = @ \/ faulted,
    ![m].reply = reply]

\* An empty answer of Claude's is replaced by each handler's own.
EmptyReply(m) == IF Content(m).kind = "voice" THEN "transcription" ELSE "empty"

Complete(m) ==
  /\ message[m].at = "complete"
  /\ IF ~Valid(Content(m))
       THEN Rejects(m, FALSE, FALSE)
       ELSE \E said \in Told("claude", "complete") :
              CASE said = "ok" -> \/ Resolves(m, "claude", FALSE)
                                  \/ Resolves(m, EmptyReply(m), TRUE)
                [] said = "throws" -> Rejects(m, TRUE, TRUE)
                [] OTHER -> Resolves(m, "claude unavailable", TRUE)
  /\ UNCHANGED <<wired, vision, crashes>>

-----------------------------------------------------------------------------

\* Mutant: an error of the reply is not caught, and the handler's own catch
\* block replies once more.
ReplyUnsafe(m) ==
  /\ message[m].at = "reply"
  /\ message' = [message EXCEPT
       ![m].answers = @ + 1,
       ![m].at = IF message[m].answers = 0 /\ message[m].asked
                   THEN "reply" ELSE "done"]
  /\ UNCHANGED <<wired, vision, crashes>>

\* replySafe: an error of sendMessage is logged.
Reply(m) ==
  /\ message[m].at = "reply"
  /\ message' = [message EXCEPT ![m].at = "done", ![m].answers = @ + 1]
  /\ UNCHANGED <<wired, vision, crashes>>

\* The update was acknowledged: Telegram does not deliver it again.
Crash ==
  /\ crashes < MaxCrashes
  /\ \E m \in Messages : message[m].at \in Waiting
  /\ crashes' = crashes + 1
  /\ message' = [m \in Messages |->
       IF message[m].at \in Waiting THEN [message[m] EXCEPT !.at = "lost"]
                                    ELSE message[m]]
  /\ UNCHANGED <<wired, vision>>

Handle(m) ==
  \/ AskAgent(m) \/ Download(m) \/ Transcribe(m) \/ Extract(m) \/ Recall(m)
  \/ Complete(m) \/ Reply(m)

Next == Crash \/ \E m \in Messages : Arrive(m) \/ Handle(m)

Spec == Init /\ [][Next]_vars

\* Downloads, clients and Telegram answer or time out, and promises go on.
Fairness == \A m \in Messages : WF_vars(Handle(m))

FairSpec == Spec /\ Fairness

-----------------------------------------------------------------------------
(* Properties. *)

\* What the handlers promise to accept.
Acceptable(content) ==
  CASE content.kind = "voice" ->
         content.user /\ content.mime /\ content.size = "small" /\ content.text = "short"
    [] content.kind = "photo" -> content.user /\ content.mime /\ content.size = "small"
    [] content.kind = "document" ->
         /\ content.user /\ content.mime
         /\ content.declared # "big" /\ content.size = "small"
         /\ Extracted(content)
    [] OTHER -> FALSE

\* Claude is asked about nothing that is too large, of an unknown format, blank
\* or unreadable, whatever its sender declared (the guards of the handlers, before
\* and after the download).
OnlyReadableIsAsked ==
  \A m \in Messages : message[m].asked => Acceptable(message[m].content)

\* Nobody is put off without a reason: if nothing failed on the way, memory apart,
\* an acceptable message that fits the completion request has Claude's own answer.
NoExcuseWithoutFault ==
  \A m \in Messages :
    /\ message[m].at = "done" /\ ~message[m].faulted
    /\ wired /\ vision
    /\ Acceptable(message[m].content) /\ Valid(message[m].content)
    => message[m].reply = "claude"

\* Every message is answered, once, unless a crash loses it: each branch of each
\* handler replies, and no branch replies again after a failed reply.
AnsweredOnce ==
  \A m \in Messages :
    /\ (message[m].at # "none") ~> (message[m].at \in {"done", "lost"})
    /\ [](message[m].answers <= 1 /\ (message[m].at = "done" => message[m].answers = 1))
=============================================================================
