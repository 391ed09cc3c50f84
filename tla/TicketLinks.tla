---------------------------- MODULE TicketLinks ----------------------------
(***************************************************************************)
(* How a deploy gets its tickets: the asynq tasks that look a Trello card  *)
(* up, watch its board and link it (worker/trello_enrichment.go over       *)
(* integrations/trello), and the links a user makes by pasting a reference *)
(* to a Jira or a Linear issue (LinkManual and the resolvers).             *)
(*                                                                         *)
(* A task is delivered at least once.  What it asks of Trello and of the   *)
(* database may be refused, or done with the answer lost.  Trello's tables *)
(* and Jira's linkages have stub repositories; they are taken for tables.  *)
(*                                                                         *)
(* Text is a sequence of words, some of which are issue keys; a URL is a   *)
(* sequence of path segments, each such a text.                            *)
(***************************************************************************)
EXTENDS Naturals, Sequences, FiniteSets, SequencesExt

CONSTANTS
    Tasks,
    CardOf,       \* what each task carries: a card, or NoCard when malformed
    Boards,
    BoardOf,      \* the board of each card that exists
    MaxRetry,     \* asynq.MaxRetry
    MaxRestarts,  \* how often the worker process may be stopped
    NoCard,
    Requests,
    Reference,    \* [to, segments] that each request pastes
    Keys,         \* the issue keys there are
    JiraKeys,     \* words the Jira pattern matches
    UpperKey,     \* strings.ToUpper of a key
    JiraIssues,   \* what Jira answers for a key: the issue's key of today
    LinearIssues,
    NoIssue

ASSUME TicketLinksOK ==
    /\ CardOf \in [Tasks -> DOMAIN BoardOf \cup {NoCard}] /\ NoCard \notin DOMAIN BoardOf
    /\ BoardOf \in [DOMAIN BoardOf -> Boards]
    /\ MaxRetry \in Nat /\ MaxRestarts \in Nat
    /\ UpperKey \in [Keys -> Keys] /\ JiraKeys \subseteq Keys
    /\ JiraIssues \in [Keys -> Keys \cup {NoIssue}] /\ NoIssue \notin Keys
    /\ LinearIssues \in [Keys -> Keys \cup {NoIssue}]
    /\ \A r \in Requests : /\ Reference[r].to \in {"jira", "linear"}
                           /\ Reference[r].segments \in Seq(Seq(STRING)) \ {<<>>}

VARIABLES
    task,     \* [pc, retried] of each task
    revoked,  \* whether the organisation's Trello installation is revoked
    hooks,    \* how many webhooks Trello has for each board
    records,  \* how many WebhookRecords a board has
    unsure,   \* boards two tasks were registering at once, or whose lookup failed
    links,    \* how many LinkedTickets each task has stored
    restarts,
    request,  \* [pc, key] of each pasted reference
    linkages  \* what LinkManual stored: [by, key]

taskVars == <<task, revoked, hooks, records, unsure, links, restarts>>
requestVars == <<request, linkages>>
ticketVars == <<taskVars, requestVars>>

Running == {"card", "board", "register", "save", "link", "ack"}
Settled == {"done", "skipped", "archived"}

TicketsInit(ts, rs) ==
    /\ task = [t \in Tasks |-> [pc |-> IF t \in ts THEN "queued" ELSE "none", retried |-> 0]]
    /\ revoked = FALSE
    /\ hooks = [b \in Boards |-> 0] /\ records = [b \in Boards |-> 0]
    /\ unsure = {}
    /\ links = [t \in Tasks |-> 0]
    /\ restarts = 0
    /\ request = [r \in Requests |-> [pc |-> IF r \in rs THEN "pasted" ELSE "none",
                                      key |-> NoIssue]]
    /\ linkages = {}

-----------------------------------------------------------------------------
\* The task.

\* asynq runs a task that returned an error, or whose worker died, again, until
\* its retries are used up.
Retried_NotCounted(t) == [task EXCEPT ![t].pc = "queued"]

Retried(t) ==
    IF task[t].retried < MaxRetry
    THEN [task EXCEPT ![t] = [pc |-> "queued", retried |-> @.retried + 1]]
    ELSE [task EXCEPT ![t].pc = "archived"]

Go(t, pc) == task' = [task EXCEPT ![t].pc = pc]

\* A payload that does not parse is dropped; a revoked installation is too.
FindInstallation(t) ==
    /\ task[t].pc = "queued"
    /\ \/ Go(t, IF CardOf[t] = NoCard \/ revoked THEN "skipped" ELSE "card")
       \/ CardOf[t] # NoCard /\ task' = Retried(t)
    /\ UNCHANGED <<revoked, hooks, records, unsure, links, restarts, requestVars>>

\* The names of the board and of the list are wanted too: without them the
\* card is shown without.  What is revoked here is no concern of Trello's.
GetCard(t) ==
    /\ task[t].pc = "card"
    /\ \/ Go(t, "board")
       \/ task' = Retried(t)
    /\ UNCHANGED <<revoked, hooks, records, unsure, links, restarts, requestVars>>

TaskBoard(t) == BoardOf[CardOf[t]]

\* RegisterBoardWebhook: an error of the lookup counts as none found.
Watched_NotAsked(b) == FALSE

Watched(b) == records[b] > 0

FindWebhook(t) ==
    /\ task[t].pc = "board"
    /\ \/ Watched(TaskBoard(t)) /\ Go(t, "link") /\ UNCHANGED unsure
       \/ ~Watched(TaskBoard(t)) /\ Go(t, "register")
          /\ unsure' = IF \E u \in Tasks \ {t} : /\ task[u].pc \in {"register", "save"}
                                                 /\ TaskBoard(u) = TaskBoard(t)
                       THEN unsure \cup {TaskBoard(t)} ELSE unsure
       \/ Go(t, "register") /\ unsure' = unsure \cup {TaskBoard(t)}
    /\ UNCHANGED <<revoked, hooks, records, links, restarts, requestVars>>

\* A registration that fails is logged, whether or not Trello carried it out.
CreateWebhook(t) ==
    /\ task[t].pc = "register"
    /\ \/ /\ hooks' = [hooks EXCEPT ![TaskBoard(t)] = @ + 1]
          /\ Go(t, "save") \/ Go(t, "link")
       \/ Go(t, "link") /\ UNCHANGED hooks
    /\ UNCHANGED <<revoked, records, unsure, links, restarts, requestVars>>

\* SaveWebhook, whose failure is logged: Trello's webhook is then not known here.
SaveWebhook(t) ==
    /\ task[t].pc = "save"
    /\ \/ records' = [records EXCEPT ![TaskBoard(t)] = @ + 1]
       \/ UNCHANGED records
    /\ Go(t, "link")
    /\ UNCHANGED <<revoked, hooks, unsure, links, restarts, requestVars>>

\* LinkTicket inserts a new row, whatever rows there are: stored, refused, or
\* stored with the answer lost.
LinkTicket(t) ==
    /\ task[t].pc = "link"
    /\ \/ links' = [links EXCEPT ![t] = @ + 1] /\ Go(t, "ack")
       \/ links' = [links EXCEPT ![t] = @ + 1] /\ task' = Retried(t)
       \/ UNCHANGED links /\ task' = Retried(t)
    /\ UNCHANGED <<revoked, hooks, records, unsure, restarts, requestVars>>

\* The queue hears that the task is done.
Acknowledge(t) ==
    /\ task[t].pc = "ack" /\ Go(t, "done")
    /\ UNCHANGED <<revoked, hooks, records, unsure, links, restarts, requestVars>>

\* The worker dies and the queue's lease of the task runs out.
WorkerDies(t) ==
    /\ task[t].pc \in Running
    /\ task' = Retried(t)
    /\ UNCHANGED <<revoked, hooks, records, unsure, links, restarts, requestVars>>

\* A shutdown puts what is running back, which counts as no retry.
Shutdown ==
    /\ restarts < MaxRestarts /\ \E t \in Tasks : task[t].pc \in Running
    /\ task' = [t \in Tasks |-> IF task[t].pc \in Running
                                THEN [task[t] EXCEPT !.pc = "queued"] ELSE task[t]]
    /\ restarts' = restarts + 1
    /\ UNCHANGED <<revoked, hooks, records, unsure, links, requestVars>>

\* The organisation disconnects Trello.
Revoke ==
    /\ ~revoked /\ \E t \in Tasks : task[t].pc \in Running
    /\ revoked' = TRUE
    /\ UNCHANGED <<task, hooks, records, unsure, links, restarts, requestVars>>

-----------------------------------------------------------------------------
\* References.

\* ExtractKeyFromURL: the last segment has to contain a key, and is taken whole.
PatternOf(to) == IF to = "jira" THEN JiraKeys ELSE Keys

ExtractKeyFromURL(ref) == ToSet(Last(ref.segments)) \cap PatternOf(ref.to) # {}

\* What the tracker may answer.  A segment of more than a key names no issue,
\* unless what follows the key reads as a query of the request's path.
\* Linear may answer with data, no error, and an empty issue.
Answers(ref) ==
    LET segment == Last(ref.segments)
        issue == IF ref.to = "jira" THEN JiraIssues ELSE LinearIssues
    IN  (IF Len(segment) > 1 THEN {NoIssue} ELSE {})
        \cup {issue[UpperKey[k]] : k \in
                 IF Len(segment) > 1 /\ ref.to # "jira" THEN {} ELSE {Head(segment)} \cap Keys}

Extract(r) ==
    /\ request[r].pc = "pasted"
    /\ request' = [request EXCEPT ![r].pc =
                      IF ExtractKeyFromURL(Reference[r]) THEN "resolve" ELSE "refused"]
    /\ UNCHANGED <<linkages, taskVars>>

\* 404 is Jira's answer for an issue there is not.
Missing_Linked(to) == FALSE

Missing(to) == to = "jira"

ResolveIssue(r) ==
    /\ request[r].pc = "resolve"
    /\ \/ \E issue \in Answers(Reference[r]) :
              request' = [request EXCEPT ![r] =
                  IF issue = NoIssue /\ Missing(Reference[r].to)
                  THEN [pc |-> "refused", key |-> NoIssue]
                  ELSE [pc |-> "create", key |-> issue]]
       \/ request' = [request EXCEPT ![r].pc = "refused"]
    /\ UNCHANGED <<linkages, taskVars>>

\* The link carries the issue's own key, not the pasted one.  A user who is
\* told of a failure may paste the reference again.
CreateLinkage(r) ==
    /\ request[r].pc = "create"
    /\ \/ /\ linkages' = linkages \cup {[by |-> r, key |-> request[r].key]}
          /\ request' = [request EXCEPT ![r].pc = "linked"]
       \/ request' = [request EXCEPT ![r].pc = "refused"] /\ UNCHANGED linkages
    /\ UNCHANGED taskVars

-----------------------------------------------------------------------------
TaskStep(t) ==
    \/ FindInstallation(t) \/ GetCard(t) \/ FindWebhook(t) \/ CreateWebhook(t)
    \/ SaveWebhook(t) \/ LinkTicket(t) \/ Acknowledge(t)

TicketsNext ==
    \/ \E t \in Tasks : TaskStep(t) \/ WorkerDies(t)
    \/ Shutdown \/ Revoke
    \/ \E r \in Requests : Extract(r) \/ ResolveIssue(r) \/ CreateLinkage(r)

\* The queue goes on handing tasks to workers that run them.
TicketsFairness == \A t \in Tasks : WF_ticketVars(TaskStep(t))

TicketsSpec ==
    /\ \E ts \in SUBSET Tasks, rs \in SUBSET Requests : TicketsInit(ts, rs)
    /\ [][TicketsNext]_ticketVars /\ TicketsFairness

-----------------------------------------------------------------------------
(* Properties.                                                             *)

\* A task stores at most one row per time it was run, and it is reported done
\* only with a row: an insert that is refused is never taken for a link.
LinksMatchAttempts ==
    \A t \in Tasks :
        /\ links[t] <= task[t].retried + restarts + 1
        /\ task[t].pc \in {"ack", "done"} => links[t] > 0

\* A board has a second record only where two tasks were registering it at the
\* same time or the lookup failed: RegisterBoardWebhook, told to be idempotent,
\* is so for tasks that follow each other, restarts and retries included.
SecondRecordByOverlap ==
    \A b \in Boards : records[b] > 1 => b \in unsure

\* Whatever fails, every queued task comes to an end: linked, skipped or
\* archived with its retries used up.
EveryTaskSettles == \A t \in Tasks : task[t].pc = "queued" ~> task[t].pc \in Settled

\* A Jira link names an issue Jira has today, under the key it has today, and
\* one that the pasted reference names, in whatever case.
JiraLinkIsLive ==
    \A l \in linkages : Reference[l.by].to = "jira" =>
        /\ l.key \in {JiraIssues[k] : k \in Keys} \ {NoIssue}
        /\ \E k \in ToSet(Last(Reference[l.by].segments)) \cap Keys :
               l.key = JiraIssues[UpperKey[k]]
=============================================================================
