-------------------------------- MODULE Board --------------------------------
(***************************************************************************)
(* The texts of the morning briefing and the evening digest, read section  *)
(* by section from Muneral's board while people work on it.                *)
(*                                                                         *)
(* A read is a request per page.  The board lists what was updated last    *)
(* first, so a task that is touched between two pages moves to the head    *)
(* and shifts the others; the total of the first page, the duplicates and  *)
(* the length of the pages are all the reader has to notice it by.         *)
(***************************************************************************)
EXTENDS Naturals, Sequences, SequencesExt, FiniteSets

CONSTANTS
  Tasks,         \* the tasks of the workspace
  Statuses,      \* the statuses of a task under consideration
  PriorityOf,    \* the priority of a task
  Plans,         \* what a message is made of: sequences of sections
  PageSize,      \* MAX_PAGE
  TopN,          \* tasks a backlog section names
  MaxListed,     \* MAX_LISTED_IDS
  MaxChanges     \* bound on the changes of the board

ASSUME TasksAssumption == IsFiniteSet(Tasks)
ASSUME SizesAssumption ==
  /\ {PageSize, TopN, MaxListed} \subseteq Nat \ {0}
  /\ MaxChanges \in Nat

VARIABLES
  board,      \* the tasks, the one updated last first
  status,     \* of every task
  fresh,      \* tasks updated within the day of the report
  changes,
  server,     \* "honest", or "short": pages may hold less than they could
  client,     \* "configured", or "unconfigured": there is no credential
  sections,   \* sections still to be composed
  read,       \* the read under way
  stayed,     \* history: tasks that matched ever since the read began
  left,       \* history: a task stopped matching since the read began
  told,       \* the section the latest step told, if it told one
  refused     \* history: the latest refusal the message has told

boardVars == <<board, status, fresh, changes>>
vars == <<boardVars, server, client, sections, read, stayed, left, told, refused>>

\* DEFAULT_BACKLOG_PRIORITIES, the highest first.
Wanted == <<"critical", "high">>

\* The status a section asks for, and whether it asks for today's rows only.
Query ==
  [active    |-> [status |-> {"in_progress"}, today |-> FALSE],
   backlog   |-> [status |-> {"todo"},        today |-> FALSE],
   completed |-> [status |-> {"done"},        today |-> TRUE],
   archived  |-> [status |-> {"archived"},    today |-> TRUE],
   summary   |-> [status |-> Statuses,        today |-> TRUE]]

\* Sections that read every page.
Paged == {"backlog", "summary"}

\* A message is made of sections the aggregators know.
ASSUME PlansAssumption == Plans \subseteq Seq(DOMAIN Query \cup {"snapshot"})

NoRead == [offset |-> 0, total |-> 0, rows |-> <<>>, partial |-> FALSE,
           over |-> FALSE, odd |-> FALSE]

NoRefusal == [why |-> "none", cause |-> "none"]

Untold == [section |-> "none", says |-> "nothing", named |-> <<>>, rows |-> {},
           total |-> 0, partial |-> FALSE, refusal |-> NoRefusal,
           stayed |-> {}, left |-> FALSE]

\* The elements of a sequence that are in a set, in the order they have there.
Among(s, set) ==
  LET taken[i \in 0..Len(s)] ==
        IF i = 0 THEN <<>>
        ELSE IF s[i] \in set THEN Append(taken[i - 1], s[i]) ELSE taken[i - 1]
  IN  taken[Len(s)]

FirstOf(rows, n) == SubSeq(rows, 1, IF Len(rows) < n THEN Len(rows) ELSE n)

Init ==
  /\ board \in SetToSeqs(Tasks)
  /\ status \in [Tasks -> Statuses]
  /\ fresh \in {{board[i] : i \in 1..n} : n \in 0..Len(board)}
  /\ changes = 0
  /\ server \in {"honest", "short"}
  /\ client \in {"configured", "unconfigured"}
  /\ sections \in Plans
  /\ read = NoRead
  /\ stayed = {} /\ left = FALSE
  /\ told = Untold
  /\ refused = NoRefusal

Matches(s) == {t \in Tasks : /\ status[t] \in Query[s].status
                             /\ Query[s].today => t \in fresh}

Reading == read # NoRead

Section == Head(sections)

-----------------------------------------------------------------------------
(* The board. *)

\* A task gets a status, possibly the one it has: it is updated now.
Change(t, s) ==
  /\ changes < MaxChanges
  /\ changes' = changes + 1
  /\ status' = [status EXCEPT ![t] = s]
  /\ fresh' = fresh \cup {t}
  /\ board' = <<t>> \o Among(board, Tasks \ {t})
  /\ IF Reading
       THEN \E q \in {Section} :
              /\ stayed' = stayed \cap Matches(q)'
              /\ left' = (left \/ ~(Matches(q) \subseteq Matches(q)'))
       ELSE UNCHANGED <<stayed, left>>
  /\ told' = Untold
  /\ UNCHANGED <<server, client, sections, read, refused>>

Listing(s) == Among(board, Matches(s))

\* The pages the server may answer with.
Pages(s, offset) ==
  LET rest == SubSeq(Listing(s), offset + 1, Len(Listing(s)))
      full == FirstOf(rest, PageSize)
  IN  IF server = "honest" THEN {full}
      ELSE {FirstOf(full, n) : n \in 0..Len(full)}

\* The answers that are no page: why, the code that says so, the HTTP status.
Refusals ==
  IF client = "unconfigured"
    THEN {[why |-> "no credential", code |-> "none", http |-> 0]}
    ELSE {[why |-> "no grant",      code |-> "required", http |-> 403],
          [why |-> "grant lapsed",  code |-> "expired",  http |-> 403],
          [why |-> "route closed",  code |-> "none",     http |-> 403],
          [why |-> "service fault", code |-> "none",     http |-> 500],
          [why |-> "breaker open",  code |-> "none",     http |-> 0],
          [why |-> "bad answer",    code |-> "none",     http |-> 0]}

-----------------------------------------------------------------------------
(* The reader. *)

FirstPage(items, total) ==
  [offset |-> Len(items), total |-> total, rows |-> items, partial |-> FALSE,
   over |-> Len(items) >= total, odd |-> FALSE]

\* A loop that goes by the offset alone.
NextPageEager(r, items, total) ==
  IF total # r.total
    THEN [r EXCEPT !.partial = TRUE, !.over = TRUE]
    ELSE LET new == Among(items, Tasks \ ToSet(r.rows))
             offset == r.offset + Len(items)
         IN  [r EXCEPT !.rows = @ \o new, !.offset = offset,
                       !.partial = @ \/ Len(new) < Len(items),
                       !.over = offset >= r.total]

\* A loop that does not look at the total again.
NextPageUncounted(r, items, total) ==
  IF items = <<>>
    THEN [r EXCEPT !.partial = TRUE, !.over = TRUE]
    ELSE LET new == Among(items, Tasks \ ToSet(r.rows))
             offset == r.offset + Len(items)
         IN  [r EXCEPT !.rows = @ \o new, !.offset = offset,
                       !.partial = @ \/ Len(new) < Len(items),
                       !.over = offset >= r.total]

\* A loop that keeps the rows as they come.
NextPageRepeats(r, items, total) ==
  IF total # r.total \/ items = <<>>
    THEN [r EXCEPT !.partial = TRUE, !.over = TRUE]
    ELSE [r EXCEPT !.rows = @ \o items, !.offset = @ + Len(items),
                   !.partial = @ \/ ToSet(items) \cap ToSet(r.rows) # {},
                   !.over = r.offset + Len(items) >= r.total]

\* The loop of fetchAll: another total, an empty page, or a short one ends the
\* read; a row that comes again does not, but the read is no snapshot.
NextPage(r, items, total) ==
  IF total # r.total \/ items = <<>>
    THEN [r EXCEPT !.partial = TRUE, !.over = TRUE]
    ELSE LET new == Among(items, Tasks \ ToSet(r.rows))
             offset == r.offset + Len(items)
             short == Len(items) < PageSize /\ offset < r.total
         IN  [r EXCEPT !.rows = @ \o new, !.offset = offset,
                       !.partial = @ \/ Len(new) < Len(items) \/ short,
                       !.over = short \/ offset >= r.total]

\* Fewer rows than the total, whatever the reason, is no whole read.
Truncated(r) == r.partial \/ Len(r.rows) # r.total

\* readBacklogTopN: the rows of the wanted priorities, the highest first.
Ranked(rows) ==
  LET of(p) == Among(rows, {t \in Tasks : PriorityOf[t] = p})
  IN  of(Wanted[1]) \o of(Wanted[2])

-----------------------------------------------------------------------------
(* The texts. *)

Says(s, says, named, rows, total, part) ==
  [Untold EXCEPT !.section = s, !.says = says, !.named = named,
     !.rows = ToSet(rows), !.total = total, !.partial = part]

\* renderActiveTasks counts what it does not name.
RenderActive(r) ==
  IF r.total = 0 THEN Says("active", "none", <<>>, r.rows, 0, FALSE)
  ELSE LET shown == FirstOf(r.rows, MaxListed)
       IN  Says("active", "list", shown, r.rows, r.total, r.total > Len(shown))

\* renderCompleted and renderArchived: no row is "none".
RenderDay(s, r) ==
  IF r.rows = <<>> THEN Says(s, "none", <<>>, r.rows, 0, FALSE)
  ELSE Says(s, "list", r.rows, r.rows, r.total, Truncated(r))

RenderBacklogUnranked(r) ==
  LET top == Ranked(FirstOf(r.rows, TopN))
  IN  Says("backlog", IF top = <<>> THEN "none" ELSE "list",
           top, r.rows, Len(Ranked(r.rows)), Truncated(r))

RenderBacklog(r) ==
  LET matching == Ranked(r.rows)
      top == FirstOf(matching, TopN)
  IN  Says("backlog", IF top = <<>> THEN "none" ELSE "list",
           top, r.rows, Len(matching), Truncated(r))

\* readDailySummary counts the rows per project and status.
Summary(r) == [received |-> r.rows, total |-> r.total, truncated |-> Truncated(r)]

RenderSummary(r) ==
  LET sum == Summary(r)
  IN  Says("summary", IF sum.received = <<>> THEN "none" ELSE "list",
           sum.received, sum.received, sum.total, sum.truncated)

Rendered(s, r) ==
  CASE s = "active" -> RenderActive(r)
    [] s = "backlog" -> RenderBacklog(r)
    [] s = "summary" -> RenderSummary(r)
    [] OTHER -> RenderDay(s, r)

\* describeUnavailable before A2-294: every 403 is the same.
CauseByStatus(refusal) ==
  IF refusal.why = "no credential" THEN "key is not set"
  ELSE IF refusal.http # 0 THEN "HTTP status"
  ELSE refusal.why

\* describeUnavailable: the code is looked at before the status.
Cause(refusal) ==
  IF refusal.why = "no credential" THEN "key is not set"
  ELSE IF refusal.code = "required" THEN "DIGEST_GRANT_REQUIRED"
  ELSE IF refusal.code = "expired" THEN "GRANT_EXPIRED"
  ELSE IF refusal.http = 403 THEN "MUN-0043"
  ELSE IF refusal.http # 0 THEN "HTTP status"
  ELSE refusal.why

Degraded(refusal) ==
  [Untold EXCEPT !.section = Section, !.says = "unavailable",
     !.refusal = [why |-> refusal.why, cause |-> Cause(refusal)]]

\* A section is told, and the next one is turned to.
Tell(text) ==
  /\ told' = text
  /\ sections' = Tail(sections)
  /\ read' = NoRead
  /\ UNCHANGED <<boardVars, server, client>>

-----------------------------------------------------------------------------
(* compose: one section after the other, one request after the other. *)

\* safeSnapshot: whatever goes wrong, the section says so.
Snapshot ==
  /\ sections # <<>> /\ Section = "snapshot"
  /\ \E says \in {"list", "unavailable"} :
       Tell([Untold EXCEPT !.section = "snapshot", !.says = says])
  /\ UNCHANGED <<stayed, left, refused>>

Turned(s) == sections # <<>> /\ Section = s

\* A page is refused: what was read so far is dropped.
Refused(s) ==
  /\ Turned(s)
  /\ \E refusal \in Refusals :
       /\ Tell(Degraded(refusal))
       /\ refused' = told'.refusal
  /\ UNCHANGED <<stayed, left>>

\* The rows so far: the section is told, or the next page is read.  That the
\* number of pages is odd or even makes a page that brings nothing a step too.
Goes(s, r, since, gone) ==
  IF s \in Paged /\ ~r.over
    THEN /\ read' = [r EXCEPT !.odd = ~@] /\ told' = Untold
         /\ UNCHANGED <<boardVars, server, client, sections>>
    ELSE Tell([Rendered(s, r) EXCEPT !.stayed = since, !.left = gone])

\* The first page of a section, for most of them the only one.
Open(s) ==
  /\ Turned(s) /\ ~Reading /\ client = "configured"
  /\ stayed' = Matches(s) /\ left' = FALSE
  /\ \E items \in Pages(s, 0) :
       Goes(s, FirstPage(items, Len(Listing(s))), Matches(s), FALSE)
  /\ UNCHANGED refused

Continue(s) ==
  /\ Turned(s) /\ Reading
  /\ \E items \in Pages(s, read.offset) :
       Goes(s, NextPage(read, items, Len(Listing(s))), stayed, left)
  /\ UNCHANGED <<stayed, left, refused>>

Compose ==
  Snapshot \/ \E s \in DOMAIN Query : Refused(s) \/ Open(s) \/ Continue(s)

Next ==
  \/ \E t \in Tasks, s \in Statuses : Change(t, s)
  \/ Compose

\* A request is answered or times out, and the aggregator goes on.
Spec == Init /\ [][Next]_vars /\ WF_vars(Compose)

-----------------------------------------------------------------------------
(* Properties. *)

Ok == told.says \in {"list", "none"}

\* The types of the variables; a read holds no task twice.
TypeOK ==
  /\ board \in SetToSeqs(Tasks)
  /\ status \in [Tasks -> Statuses]
  /\ fresh \subseteq Tasks
  /\ changes \in 0..MaxChanges
  /\ sections \in Seq(DOMAIN Query \cup {"snapshot"})
  /\ ToSet(read.rows) \subseteq Tasks /\ IsInjective(read.rows)
  /\ read.offset \in Nat /\ read.total \in 0..Cardinality(Tasks)
  /\ stayed \subseteq Tasks /\ left \in BOOLEAN
  /\ told.says \in {"nothing", "none", "list", "unavailable"}
  /\ refused = NoRefusal \/ refused.why \in {x.why : x \in Refusals}

\* Unless a task left the list while it was read, however many were touched or
\* joined it: what is not marked as partial is whole (fetchAll, and the
\* sections of one page).
WholeUnlessLeft ==
  /\ Ok /\ told.section \in DOMAIN Query /\ ~told.partial /\ ~told.left
  /\ told.section \in {"completed", "archived"} => server = "honest"
  => told.stayed \subseteq told.rows

\* A backlog section that is whole names the best: nothing that was there all
\* the time and is not named has a higher priority than what is
\* (readBacklogTopN ranks here what the service orders by date).
TopIsTop ==
  LET rank(u) == CHOOSE i \in DOMAIN Wanted : Wanted[i] = PriorityOf[u]
      named == ToSet(told.named)
      missing == {u \in told.stayed \ named : PriorityOf[u] \in ToSet(Wanted)}
  IN  Ok /\ told.section = "backlog" /\ ~told.partial /\ ~told.left =>
        /\ \A u \in missing, v \in named : rank(v) <= rank(u)
        /\ missing # {} => Len(told.named) = TopN

\* What the operator can do something about: a missing key, a grant never given,
\* a grant that lapsed, a route not opened.
Actionable == {"no credential", "no grant", "grant lapsed", "route closed"}

\* Two sections of a message that give one cause were refused for one reason, if
\* the operator can do something about either (describeUnavailable, over reads
\* that are refused one by one).
CauseTellsReason ==
  [][/\ {refused.why, refused'.why} \cap Actionable # {}
     /\ refused.cause = refused'.cause
     => refused.why = refused'.why]_refused

\* The message is composed, whatever the pages hold and however often the
\* board changes (the loop of fetchAll ends).
MessageComposes == <>(sections = <<>>)
=============================================================================
