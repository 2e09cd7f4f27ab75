-------------------------- MODULE ConversationProofs --------------------------
(***************************************************************************)
(* Proofs about Conversation, for any set of messages and any number of    *)
(* crashes.                                                                *)
(*                                                                         *)
(* What Claude is asked, and what a user is told, is decided along the     *)
(* way: each await of a handler is reached only by contents that passed    *)
(* the checks before it (Checked), and who was turned away there had a     *)
(* content that is not acceptable, or met a fault (PutOffForAReason).      *)
(***************************************************************************)
EXTENDS Conversation, TLAPS

Stages == Waiting \cup {"none", "done", "lost"}

Texts == {"none", "result", "usage", "greeting", "excuse", "transcription",
          "claude", "empty", "placeholder", "claude unavailable"}

Records == [at : Stages, content : Contents \cup {NoContent}, reply : Texts,
            asked : BOOLEAN, faulted : BOOLEAN, answers : {0, 1}]

\* What a handler has checked before it downloads, and before it extracts.
Downloadable(content) ==
  /\ content.kind \in {"voice", "photo", "document"}
  /\ content.kind = "voice" => content.mime
  /\ content.kind = "photo" => content.user
  /\ content.kind = "document" =>
       content.user /\ content.mime /\ content.declared # "big"

Extractable(content) ==
  /\ content.kind = "document"
  /\ content.user /\ content.mime /\ content.declared # "big"
  /\ content.size = "small"

\* The contents that reach an await.
Reaches(at, content) ==
  CASE at = "agent" -> content.kind \notin {"voice", "photo", "document"}
    [] at = "download" -> Downloadable(content)
    [] at = "transcribe" -> content.kind = "voice" /\ content.mime
    [] at = "extract" -> Extractable(content)
    [] at \in {"recall", "complete"} -> Acceptable(content)
    [] OTHER -> TRUE

\* Contents pass the checks of the await they are at.
Checked(r) == Reaches(r.at, r.content)

\* A message that is not there yet has asked nothing, and what is asked is
\* acceptable.
AskedIsAcceptable(r) ==
  /\ r.at = "none" => r.asked = FALSE
  /\ r.asked = TRUE => Acceptable(r.content)

\* NoExcuseWithoutFault, from the moment the reply is chosen.
PutOffForAReason(r) ==
  /\ r.at \in {"reply", "done"} /\ r.faulted = FALSE
  /\ wired /\ vision
  /\ Acceptable(r.content) /\ Valid(r.content)
  => r.reply = "claude"

\* The reply is the only answer, and the last step.
RepliesOnce(r) == (r.at = "done") <=> (r.answers = 1)

Good(r) == /\ r \in Records
           /\ Checked(r) /\ AskedIsAcceptable(r)
           /\ PutOffForAReason(r) /\ RepliesOnce(r)

IInv == /\ message \in [Messages -> Records]
        /\ \A m \in Messages : Good(message[m])

-----------------------------------------------------------------------------
(* Where a content goes. *)

LEMMA KindOfContent ==
  ASSUME NEW content \in Contents
  PROVE  content.kind \in {"status", "agents", "other", "wiki", "remember",
                           "voice", "photo", "document"}
BY DEF Contents

\* The router and the checks before the first await.
LEMMA StartChecks ==
  ASSUME NEW content \in Contents
  PROVE  /\ Start(content) \in {"agent", "download", "usage", "greeting", "excuse"}
         /\ Start(content) \in {"agent", "download"} => Reaches(Start(content), content)
         /\ Start(content) \notin {"agent", "download"} /\ wired => ~Acceptable(content)
<1>1. CASE content.kind = "voice"
  BY <1>1 DEF Start, VoiceStart, Reaches, Downloadable, Acceptable
<1>2. CASE content.kind = "photo"
  BY <1>2 DEF Start, PhotoStart, Reaches, Downloadable, Acceptable
<1>3. CASE content.kind = "document"
  BY <1>3 DEF Start, DocumentStart, Reaches, Downloadable, Acceptable
<1>4. CASE content.kind = "remember"
  BY <1>4 DEF Start, RememberStart, Reaches, Acceptable
<1>5. CASE content.kind \in {"status", "agents", "other", "wiki"}
  BY <1>5 DEF Start, Reaches, Acceptable
<1> QED
  BY <1>1, <1>2, <1>3, <1>4, <1>5, KindOfContent

-----------------------------------------------------------------------------

LEMMA InitIInv == Init => IInv
<1> SUFFICES ASSUME Init PROVE IInv
  OBVIOUS
<1> DEFINE r == [at |-> "none", content |-> NoContent, reply |-> "none",
                 asked |-> FALSE, faulted |-> FALSE, answers |-> 0]
<1>1. r \in Records
  BY DEF Records, Stages, Texts
<1>2. Good(r)
  BY <1>1 DEF Good, Checked, Reaches, AskedIsAcceptable, PutOffForAReason, RepliesOnce
<1>3. message = [m \in Messages |-> r]
  BY DEF Init
<1> HIDE DEF r
<1> QED
  BY <1>1, <1>2, <1>3 DEF IInv

\* Nothing that is judged of a message depends on another one.
LEMMA GoodKeeps ==
  ASSUME UNCHANGED <<wired, vision>>, NEW m, Good(message'[m])
  PROVE  Good(message[m])'
BY DEF Good, Checked, AskedIsAcceptable, PutOffForAReason, RepliesOnce

\* A step of one message.
LEMMA OneMessage ==
  ASSUME IInv, UNCHANGED <<wired, vision>>,
         NEW m \in Messages, NEW r, Good(r),
         message' = [message EXCEPT ![m] = r]
  PROVE  IInv'
<1>1. message' \in [Messages -> Records]
  BY DEF IInv, Good
<1>2. ASSUME NEW n \in Messages PROVE Good(message'[n])
  BY DEF IInv
<1>3. ASSUME NEW n \in Messages PROVE Good(message[n])'
  BY <1>2, GoodKeeps
<1> QED
  BY <1>1, <1>3 DEF IInv

\* Going on to an await that the content may reach.
LEMMA GoesOnStep ==
  ASSUME IInv, UNCHANGED <<wired, vision>>,
         NEW m \in Messages, NEW at \in Waiting \ {"reply"}, NEW faulted \in BOOLEAN,
         message[m].at \in Waiting,
         Reaches(at, message[m].content), GoesOn(m, at, faulted)
  PROVE  IInv'
<1> DEFINE r == [message[m] EXCEPT !.at = at, !.faulted = @ \/ faulted]
<1>1. message[m] \in Records /\ Good(message[m])
  BY DEF IInv
<1>2. r \in Records
  BY <1>1 DEF Records, Stages
<1>3. /\ r.at = at /\ r.content = message[m].content /\ r.asked = message[m].asked
      /\ r.answers = message[m].answers
  BY <1>1 DEF Records
<1>4. Good(r)
  BY <1>1, <1>2, <1>3
     DEF Good, Checked, AskedIsAcceptable, PutOffForAReason, RepliesOnce, Waiting
<1>5. message' = [message EXCEPT ![m] = r]
  BY DEF GoesOn
<1> HIDE DEF r
<1> QED
  BY <1>4, <1>5, OneMessage

\* A reply is chosen: for a reason, or it is Claude's.
LEMMA SaysStep ==
  ASSUME IInv, UNCHANGED <<wired, vision>>,
         NEW m \in Messages, NEW reply \in Texts, NEW faulted \in BOOLEAN,
         message[m].at \in Waiting,
         \/ faulted = TRUE
         \/ ~(wired /\ vision)
         \/ ~Acceptable(message[m].content),
         Says(m, reply, faulted)
  PROVE  IInv'
<1> DEFINE r == [message[m] EXCEPT !.at = "reply", !.reply = reply,
                                   !.faulted = @ \/ faulted]
<1>1. message[m] \in Records /\ Good(message[m])
  BY DEF IInv
<1>2. r \in Records
  BY <1>1 DEF Records, Stages, Waiting
<1>3. /\ r.at = "reply" /\ r.content = message[m].content /\ r.asked = message[m].asked
      /\ r.answers = message[m].answers /\ (faulted = TRUE => r.faulted = TRUE)
  BY <1>1 DEF Records
<1>4. Good(r)
  BY <1>1, <1>2, <1>3
     DEF Good, Checked, Reaches, AskedIsAcceptable, PutOffForAReason, RepliesOnce, Waiting
<1>5. message' = [message EXCEPT ![m] = r]
  BY DEF Says
<1> HIDE DEF r
<1> QED
  BY <1>4, <1>5, OneMessage

\* The completion was asked for, or its schema refused the content.
LEMMA CompletedStep ==
  ASSUME IInv, UNCHANGED <<wired, vision>>,
         NEW m \in Messages, message[m].at = "complete",
         NEW reply \in Texts, NEW asked \in BOOLEAN, NEW faulted \in BOOLEAN,
         faulted = TRUE \/ reply = "claude" \/ ~Valid(message[m].content),
         message' = [message EXCEPT ![m].at = "reply", ![m].asked = asked,
                                    ![m].faulted = @ \/ faulted, ![m].reply = reply]
  PROVE  IInv'
<1> DEFINE r == [message[m] EXCEPT !.at = "reply", !.asked = asked,
                                   !.faulted = @ \/ faulted, !.reply = reply]
<1>1. message[m] \in Records /\ Good(message[m])
  BY DEF IInv
<1>2. r \in Records
  BY <1>1 DEF Records, Stages, Waiting
<1>3. /\ r.at = "reply" /\ r.content = message[m].content /\ r.reply = reply
      /\ r.answers = message[m].answers /\ (faulted = TRUE => r.faulted = TRUE)
  BY <1>1 DEF Records
<1>4. Acceptable(message[m].content)
  BY <1>1 DEF Good, Checked, Reaches
<1>5. Good(r)
  BY <1>1, <1>2, <1>3, <1>4
     DEF Good, Checked, Reaches, AskedIsAcceptable, PutOffForAReason, RepliesOnce, Waiting
<1>6. message' = [message EXCEPT ![m] = r]
  OBVIOUS
<1> HIDE DEF r
<1> QED
  BY <1>5, <1>6, OneMessage

-----------------------------------------------------------------------------
(* The actions. *)

LEMMA ArriveStep ==
  ASSUME IInv, NEW m \in Messages, Arrive(m)
  PROVE  IInv'
<1>1. PICK content \in Contents :
        LET start == Start(content) IN
        message' = [message EXCEPT
          ![m].content = content,
          ![m].at = IF start \in Waiting THEN start ELSE "reply",
          ![m].reply = IF start \in Waiting THEN "none" ELSE start]
  BY DEF Arrive
<1> DEFINE start == Start(content)
           r == [message[m] EXCEPT
                   !.content = content,
                   !.at = IF start \in Waiting THEN start ELSE "reply",
                   !.reply = IF start \in Waiting THEN "none" ELSE start]
<1>2. message[m] \in Records /\ Good(message[m]) /\ message[m].at = "none"
  BY DEF IInv, Arrive
<1>3. /\ start \in {"agent", "download", "usage", "greeting", "excuse"}
      /\ start \in {"agent", "download"} => Reaches(start, content)
      /\ start \notin {"agent", "download"} /\ wired => ~Acceptable(content)
  BY StartChecks
<1> HIDE DEF start
<1>4. r \in Records
  BY <1>2, <1>3 DEF Records, Stages, Waiting, Texts
<1>5. /\ r.at = IF start \in {"agent", "download"} THEN start ELSE "reply"
      /\ r.content = content /\ r.asked = message[m].asked
      /\ r.answers = message[m].answers
  BY <1>2, <1>3 DEF Records, Waiting
<1>6. Good(r)
  <2>1. Checked(r)
    BY <1>3, <1>5 DEF Checked, Reaches
  <2>2. AskedIsAcceptable(r)
    BY <1>2, <1>3, <1>5 DEF Good, AskedIsAcceptable
  <2>3. PutOffForAReason(r)
    BY <1>3, <1>5 DEF PutOffForAReason
  <2>4. RepliesOnce(r)
    BY <1>2, <1>3, <1>5 DEF Good, RepliesOnce
  <2> QED
    BY <1>4, <2>1, <2>2, <2>3, <2>4 DEF Good
<1>7. message' = [message EXCEPT ![m] = r]
  BY <1>1 DEF start
<1>8. UNCHANGED <<wired, vision>>
  BY DEF Arrive
<1> HIDE DEF r
<1> QED
  BY <1>6, <1>7, <1>8, OneMessage

LEMMA AskAgentStep ==
  ASSUME IInv, NEW m \in Messages, AskAgent(m)
  PROVE  IInv'
<1>1. ~Acceptable(message[m].content)
  BY DEF AskAgent, IInv, Good, Checked, Reaches, Acceptable
<1>2. PICK reply \in {"excuse", "result"}, faulted \in BOOLEAN : Says(m, reply, faulted)
  BY DEF AskAgent
<1> QED
  BY <1>1, <1>2, SaysStep DEF AskAgent, Waiting, Texts

\* What is looked at once it is there goes on if it is acceptable.
LEMMA DownloadStep ==
  ASSUME IInv, NEW m \in Messages, Download(m)
  PROVE  IInv'
<1> DEFINE content == message[m].content
<1>1. /\ message[m].at = "download" /\ UNCHANGED <<wired, vision>>
      /\ Downloadable(content)
  BY DEF Download, IInv, Good, Checked, Reaches
<1>2. CASE Says(m, "excuse", TRUE)
  BY <1>1, <1>2, SaysStep DEF Waiting, Texts
<1>3. CASE content.kind = "voice" /\ GoesOn(m, "transcribe", FALSE)
  <2>1. Reaches("transcribe", content)
    BY <1>1, <1>3 DEF Reaches, Downloadable
  <2> QED
    BY <1>1, <1>3, <2>1, GoesOnStep DEF Waiting
<1>4. CASE content.kind = "photo" /\ PhotoLooks(content) = "recall"
           /\ GoesOn(m, "recall", FALSE)
  <2>1. Reaches("recall", content)
    BY <1>1, <1>4 DEF Reaches, Downloadable, PhotoLooks, Acceptable
  <2> QED
    BY <1>1, <1>4, <2>1, GoesOnStep DEF Waiting
<1>5. CASE content.kind = "document" /\ DocumentLooks(content) = "extract"
           /\ GoesOn(m, "extract", FALSE)
  <2>1. Reaches("extract", content)
    BY <1>1, <1>5 DEF Reaches, Downloadable, Extractable, DocumentLooks
  <2> QED
    BY <1>1, <1>5, <2>1, GoesOnStep DEF Waiting
<1>6. CASE /\ \/ content.kind = "photo" /\ PhotoLooks(content) = "excuse"
              \/ content.kind = "document" /\ DocumentLooks(content) = "excuse"
           /\ Says(m, "excuse", FALSE)
  <2>1. ~Acceptable(content)
    BY <1>6 DEF Acceptable, PhotoLooks, DocumentLooks
  <2> QED
    BY <1>1, <1>6, <2>1, SaysStep DEF Waiting, Texts
<1>7. content.kind \in {"voice", "photo", "document"}
  BY <1>1 DEF Downloadable
<1>8. /\ PhotoLooks(content) \in {"recall", "excuse"}
      /\ DocumentLooks(content) \in {"extract", "excuse"}
  BY DEF PhotoLooks, DocumentLooks
<1> QED
  BY <1>2, <1>3, <1>4, <1>5, <1>6, <1>7, <1>8 DEF Download, Content

LEMMA TranscribeStep ==
  ASSUME IInv, NEW m \in Messages, Transcribe(m)
  PROVE  IInv'
<1> DEFINE content == message[m].content
<1>1. /\ message[m].at = "transcribe" /\ UNCHANGED <<wired, vision>>
      /\ content.kind = "voice" /\ content.mime
  BY DEF Transcribe, IInv, Good, Checked, Reaches
<1>2. CASE Says(m, "excuse", TRUE)
  BY <1>1, <1>2, SaysStep DEF Waiting, Texts
<1>3. CASE content.size = "none" /\ Says(m, "excuse", FALSE)
  <2>1. ~Acceptable(content)
    BY <1>1, <1>3 DEF Acceptable
  <2> QED
    BY <1>1, <1>3, <2>1, SaysStep DEF Waiting, Texts
<1>4. CASE /\ content.size = "small" /\ content.user /\ content.text = "short"
           /\ GoesOn(m, "recall", FALSE)
  <2>1. Reaches("recall", content)
    BY <1>1, <1>4 DEF Reaches, Acceptable
  <2> QED
    BY <1>1, <1>4, <2>1, GoesOnStep DEF Waiting
<1>5. CASE /\ ~(wired /\ content.user /\ content.text = "short")
           /\ Says(m, "transcription", FALSE)
  <2>1. ~wired \/ ~Acceptable(content)
    BY <1>1, <1>5 DEF Acceptable
  <2> QED
    BY <1>1, <1>5, <2>1, SaysStep DEF Waiting, Texts
<1> QED
  BY <1>2, <1>3, <1>4, <1>5 DEF Transcribe, Content

LEMMA ExtractStep ==
  ASSUME IInv, NEW m \in Messages, Extract(m)
  PROVE  IInv'
<1> DEFINE content == message[m].content
<1>1. /\ message[m].at = "extract" /\ UNCHANGED <<wired, vision>>
      /\ Extractable(content)
  BY DEF Extract, IInv, Good, Checked, Reaches
<1>2. CASE Extracted(content) /\ GoesOn(m, "recall", FALSE)
  <2>1. Reaches("recall", content)
    BY <1>1, <1>2 DEF Reaches, Extractable, Acceptable
  <2> QED
    BY <1>1, <1>2, <2>1, GoesOnStep DEF Waiting
<1>3. CASE ~Extracted(content) /\ Says(m, "excuse", FALSE)
  <2>1. ~Acceptable(content)
    BY <1>1, <1>3 DEF Acceptable, Extractable
  <2> QED
    BY <1>1, <1>3, <2>1, SaysStep DEF Waiting, Texts
<1> QED
  BY <1>2, <1>3 DEF Extract, Content

LEMMA RecallStep ==
  ASSUME IInv, NEW m \in Messages, Recall(m)
  PROVE  IInv'
<1>1. /\ message[m].at = "recall" /\ UNCHANGED <<wired, vision>>
      /\ Reaches("complete", message[m].content)
  BY DEF Recall, IInv, Good, Checked, Reaches
<1>2. CASE vision /\ GoesOn(m, "complete", FALSE)
  BY <1>1, <1>2, GoesOnStep DEF Waiting
<1>3. CASE ~vision /\ Says(m, "placeholder", FALSE)
  BY <1>1, <1>3, SaysStep DEF Waiting, Texts
<1> QED
  BY <1>2, <1>3 DEF Recall

LEMMA CompleteStep ==
  ASSUME IInv, NEW m \in Messages, Complete(m)
  PROVE  IInv'
<1>1. message[m].at = "complete" /\ UNCHANGED <<wired, vision>>
  BY DEF Complete
<1>2. ASSUME NEW asked \in BOOLEAN, NEW faulted \in BOOLEAN,
             faulted = TRUE \/ ~Valid(message[m].content),
             Rejects(m, asked, faulted)
      PROVE  IInv'
  BY <1>1, <1>2, CompletedStep DEF Rejects, Texts
<1>3. ASSUME NEW reply \in Texts, NEW faulted \in BOOLEAN,
             faulted = TRUE \/ reply = "claude",
             Resolves(m, reply, faulted)
      PROVE  IInv'
  BY <1>1, <1>3, CompletedStep DEF Resolves
<1>4. EmptyReply(m) \in Texts
  BY DEF EmptyReply, Texts
<1> QED
  BY <1>2, <1>3, <1>4 DEF Complete, Content, Texts

LEMMA ReplyStep ==
  ASSUME IInv, NEW m \in Messages, Reply(m)
  PROVE  IInv'
<1> DEFINE r == [message[m] EXCEPT !.at = "done", !.answers = 1]
<1>1. message[m] \in Records /\ Good(message[m]) /\ message[m].at = "reply"
  BY DEF IInv, Reply
<1>2. message[m].answers = 0
  BY <1>1 DEF Good, RepliesOnce, Records
<1>3. r \in Records
  BY <1>1, <1>2 DEF Records, Stages
<1>4. /\ r.at = "done" /\ r.answers = 1
      /\ r.content = message[m].content /\ r.asked = message[m].asked
      /\ r.faulted = message[m].faulted /\ r.reply = message[m].reply
  BY <1>1, <1>2 DEF Records
<1>5. Good(r)
  BY <1>1, <1>3, <1>4
     DEF Good, Checked, Reaches, AskedIsAcceptable, PutOffForAReason, RepliesOnce
<1>6. message' = [message EXCEPT ![m] = r] /\ UNCHANGED <<wired, vision>>
  <2>1. 0 + 1 = 1
    OBVIOUS
  <2> QED
    BY <1>2, <2>1 DEF Reply
<1> HIDE DEF r
<1> QED
  BY <1>5, <1>6, OneMessage

\* A message that is lost is not answered.
LEMMA CrashStep ==
  ASSUME IInv, Crash
  PROVE  IInv'
<1>1. /\ UNCHANGED <<wired, vision>>
      /\ message' = [m \in Messages |->
           IF message[m].at \in Waiting THEN [message[m] EXCEPT !.at = "lost"]
                                        ELSE message[m]]
  BY DEF Crash
<1>2. ASSUME NEW m \in Messages PROVE Good(message'[m])
  <2> DEFINE r == [message[m] EXCEPT !.at = "lost"]
  <2>1. message[m] \in Records /\ Good(message[m])
    BY DEF IInv
  <2>2. CASE message[m].at \in Waiting
    <3>1. r \in Records
      BY <2>1 DEF Records, Stages
    <3>2. /\ r.at = "lost" /\ r.content = message[m].content
          /\ r.asked = message[m].asked /\ r.answers = message[m].answers
      BY <2>1 DEF Records
    <3>3. Good(r)
      BY <2>1, <2>2, <3>1, <3>2
         DEF Good, Checked, Reaches, AskedIsAcceptable, PutOffForAReason, RepliesOnce, Waiting
    <3> QED
      BY <1>1, <2>2, <3>3
  <2>3. CASE message[m].at \notin Waiting
    BY <1>1, <2>1, <2>3
  <2> QED
    BY <2>2, <2>3
<1>3. message' \in [Messages -> Records]
  <2>1. ASSUME NEW m \in Messages PROVE message'[m] \in Records
    BY <1>2 DEF Good
  <2> QED
    BY <1>1, <2>1
<1> QED
  BY <1>1, <1>2, <1>3, GoodKeeps DEF IInv

LEMMA InductiveStep == IInv /\ [Next]_vars => IInv'
<1> SUFFICES ASSUME IInv, [Next]_vars PROVE IInv'
  OBVIOUS
<1>1. ASSUME NEW m \in Messages, Handle(m) PROVE IInv'
  BY <1>1, AskAgentStep, DownloadStep, TranscribeStep, ExtractStep, RecallStep,
     CompleteStep, ReplyStep DEF Handle
<1>2. CASE UNCHANGED vars
  <2>1. UNCHANGED <<wired, vision>> /\ message' = message
    BY <1>2 DEF vars
  <2>2. ASSUME NEW m \in Messages PROVE Good(message[m])'
    BY <2>1, GoodKeeps DEF IInv
  <2> QED
    BY <2>1, <2>2 DEF IInv
<1> QED
  BY <1>1, <1>2, ArriveStep, CrashStep DEF Next

LEMMA Invariance == Spec => []IInv
BY InitIInv, InductiveStep, PTL DEF Spec

-----------------------------------------------------------------------------

\* Claude is asked about nothing a handler should have turned away, whatever the
\* sender declared and whatever happens on the way.
THEOREM OnlyReadableIsAskedHolds == Spec => []OnlyReadableIsAsked
<1>1. IInv => OnlyReadableIsAsked
  BY DEF IInv, Good, Records, AskedIsAcceptable, OnlyReadableIsAsked
<1> QED
  BY <1>1, Invariance, PTL

\* Without a fault an acceptable message that fits the request has Claude's own
\* answer.
THEOREM NoExcuseWithoutFaultHolds == Spec => []NoExcuseWithoutFault
<1>1. IInv => NoExcuseWithoutFault
  BY DEF IInv, Good, Records, PutOffForAReason, NoExcuseWithoutFault
<1> QED
  BY <1>1, Invariance, PTL

\* The safety half of AnsweredOnce: no handler replies twice, and one that is
\* through has replied.
THEOREM NeverAnsweredTwice ==
  Spec => [](\A m \in Messages :
               /\ message[m].answers <= 1
               /\ message[m].at = "done" => message[m].answers = 1)
<1>1. IInv => \A m \in Messages :
                /\ message[m].answers <= 1
                /\ message[m].at = "done" => message[m].answers = 1
  BY DEF IInv, Good, Records, RepliesOnce
<1> QED
  BY <1>1, Invariance, PTL
=============================================================================
