------------------------- MODULE TicketLinksProofs -------------------------
(***************************************************************************)
(* Proofs about the tasks of TicketLinks, for any number of tasks, boards, *)
(* retries and restarts.                                                   *)
(*                                                                         *)
(* A board that is not unsure has one task at most between the lookup and  *)
(* the record, and no record yet while it has one.  A task's rows are at   *)
(* most its finished runs, and one more once the run it is in has stored.  *)
(***************************************************************************)
EXTENDS TicketLinks, TLAPS

Started == {"queued", "none", "card", "board", "register", "save", "link"}

TaskStates == [pc : Started \cup {"ack"} \cup Settled, retried : Nat]

Registering(t) == task[t].pc \in {"register", "save"}

TasksShape ==
    /\ task \in [Tasks -> TaskStates]
    /\ \A t \in Tasks : task[t].pc \in Running => CardOf[t] # NoCard
    /\ links \in [Tasks -> Nat] /\ restarts \in Nat
    /\ records \in [Boards -> Nat]

RunsOK ==
    \A t \in Tasks :
        /\ task[t].pc \in Started => links[t] <= task[t].retried + restarts
        /\ links[t] <= task[t].retried + restarts + 1
        /\ task[t].pc \in {"ack", "done"} => links[t] > 0

BoardsOK ==
    \A b \in Boards : b \notin unsure =>
        /\ records[b] <= 1
        /\ \A t \in Tasks : Registering(t) /\ TaskBoard(t) = b =>
               /\ records[b] = 0
               /\ \A u \in Tasks : Registering(u) /\ TaskBoard(u) = b => u = t

TicketsInv == TasksShape /\ RunsOK /\ BoardsOK

-----------------------------------------------------------------------------
LEMMA TicketsInvInit ==
    ASSUME NEW ts, NEW rs, TicketsInit(ts, rs)
    PROVE  TicketsInv
  <1>1. \A t \in Tasks : task[t].pc \in {"queued", "none"} /\ task[t].retried = 0
    BY DEF TicketsInit
  <1>2. task \in [Tasks -> TaskStates]
    BY DEF TicketsInit, TaskStates, Started
  <1> QED BY <1>1, <1>2
          DEF TicketsInit, TicketsInv, TasksShape, RunsOK, BoardsOK, Running, Started, Registering

\* What a task may become when it is tried again.
LEMMA RetryIs ==
    ASSUME TasksShape, NEW t \in Tasks, task' = Retried(t)
    PROVE  /\ task' \in [Tasks -> TaskStates]
           /\ \A u \in Tasks \ {t} : task'[u] = task[u]
           /\ \/ task'[t].pc = "queued" /\ task'[t].retried = task[t].retried + 1
              \/ task'[t].pc = "archived" /\ task'[t].retried = task[t].retried
  BY TicketLinksOK DEF TasksShape, Retried, TaskStates, Started, Settled

LEMMA GoIs ==
    ASSUME TasksShape, NEW t \in Tasks, NEW pc \in Started \cup {"ack"} \cup Settled, Go(t, pc)
    PROVE  /\ task' \in [Tasks -> TaskStates]
           /\ \A u \in Tasks \ {t} : task'[u] = task[u]
           /\ task'[t].pc = pc /\ task'[t].retried = task[t].retried
  BY DEF TasksShape, Go, TaskStates

\* A step of one task that leaves rows and records alone.
LEMMA TaskMoves ==
    ASSUME TicketsInv, NEW t \in Tasks, task' \in [Tasks -> TaskStates],
           \A u \in Tasks \ {t} : task'[u] = task[u],
           UNCHANGED <<records, links, restarts>>, unsure \subseteq unsure',
           task'[t].pc \in Running => CardOf[t] # NoCard,
           Registering(t)' => Registering(t),
           \/ task'[t].pc = "queued" /\ task'[t].retried = task[t].retried + 1
           \/ task'[t].retried = task[t].retried
              /\ \/ task[t].pc \in Started /\ task'[t].pc \notin {"ack", "done"}
                 \/ task'[t].pc = "archived"
                 \/ task[t].pc = "ack" /\ task'[t].pc = "done"
    PROVE  TicketsInv'
  <1>1. TasksShape'
    BY DEF TicketsInv, TasksShape
  <1>2. RunsOK'
    <2> SUFFICES ASSUME NEW u \in Tasks
                 PROVE  /\ task'[u].pc \in Started => links[u] <= task'[u].retried + restarts
                        /\ links[u] <= task'[u].retried + restarts + 1
                        /\ task'[u].pc \in {"ack", "done"} => links[u] > 0
      BY DEF RunsOK
    <2>1. /\ task[u].retried \in Nat /\ links[u] \in Nat /\ restarts \in Nat
          /\ task[u].pc \in Started => links[u] <= task[u].retried + restarts
          /\ links[u] <= task[u].retried + restarts + 1
          /\ task[u].pc \in {"ack", "done"} => links[u] > 0
      BY DEF TicketsInv, TasksShape, RunsOK, TaskStates
    <2> QED BY <2>1 DEF Started
  <1>3. BoardsOK'
    <2>1. \A u \in Tasks : Registering(u)' => Registering(u)
      BY DEF Registering
    <2> QED BY <2>1 DEF TicketsInv, BoardsOK, TaskBoard
  <1> QED BY <1>1, <1>2, <1>3 DEF TicketsInv

LEMMA RetryKeeps ==
    ASSUME TicketsInv, NEW t \in Tasks, task' = Retried(t), UNCHANGED <<records, links, restarts>>,
           unsure \subseteq unsure'
    PROVE  TicketsInv'
  <1>1. TasksShape
    BY DEF TicketsInv
  <1>2. ~Registering(t)' /\ task'[t].pc \notin Running
    BY <1>1, RetryIs DEF Registering, Running
  <1> QED BY <1>1, <1>2, RetryIs, TaskMoves

LEMMA LookingKeeps ==
    ASSUME TicketsInv, NEW t \in Tasks, FindInstallation(t) \/ GetCard(t) \/ Acknowledge(t)
    PROVE  TicketsInv'
  <1>1. TasksShape /\ UNCHANGED <<records, links, restarts, unsure>>
    BY DEF TicketsInv, FindInstallation, GetCard, Acknowledge
  <1>2. CASE task' = Retried(t)
    BY <1>1, <1>2, RetryKeeps
  <1>3. ASSUME NEW pc \in {"skipped", "card", "board", "done"}, Go(t, pc),
               pc \in {"card", "board"} => CardOf[t] # NoCard,
               pc # "done" => task[t].pc \in Started,
               pc = "done" => task[t].pc = "ack"
        PROVE  TicketsInv'
    <2>1. /\ task' \in [Tasks -> TaskStates]
          /\ \A u \in Tasks \ {t} : task'[u] = task[u]
          /\ task'[t].pc = pc /\ task'[t].retried = task[t].retried
      BY <1>1, <1>3, GoIs DEF Started, Settled
    <2>2. ~Registering(t)' /\ (task'[t].pc \in Running => CardOf[t] # NoCard)
      BY <1>3, <2>1 DEF Registering, Running
    <2> QED BY <1>1, <1>3, <2>1, <2>2, TaskMoves
  <1>4. CASE FindInstallation(t)
    BY <1>2, <1>3, <1>4 DEF FindInstallation, Started
  <1>5. CASE GetCard(t)
    <2>1. CardOf[t] # NoCard
      BY <1>1, <1>5 DEF GetCard, TasksShape, Running
    <2> QED BY <1>2, <1>3, <1>5, <2>1 DEF GetCard, Started
  <1>6. CASE Acknowledge(t)
    BY <1>3, <1>6 DEF Acknowledge
  <1> QED BY <1>4, <1>5, <1>6

\* A task that starts to register is alone with its board, or the board is unsure.
LEMMA FindWebhookKeeps ==
    ASSUME TicketsInv, NEW t \in Tasks, FindWebhook(t)
    PROVE  TicketsInv'
  <1>1. /\ TasksShape /\ RunsOK /\ BoardsOK /\ UNCHANGED <<records, links, restarts>>
        /\ task[t].pc = "board" /\ CardOf[t] # NoCard /\ unsure \subseteq unsure'
    BY DEF TicketsInv, FindWebhook, TasksShape, Running
  <1>2. CASE Go(t, "link") /\ UNCHANGED unsure
    <2>1. /\ task' \in [Tasks -> TaskStates]
          /\ \A u \in Tasks \ {t} : task'[u] = task[u]
          /\ task'[t].pc = "link" /\ task'[t].retried = task[t].retried
      BY <1>1, <1>2, GoIs DEF Started
    <2> QED BY <1>1, <2>1, TaskMoves DEF Registering, Running, Started
  <1>3. CASE Go(t, "register")
    <2>1. /\ task' \in [Tasks -> TaskStates]
          /\ \A u \in Tasks \ {t} : task'[u] = task[u]
          /\ task'[t].pc = "register" /\ task'[t].retried = task[t].retried
      BY <1>1, <1>3, GoIs DEF Started
    <2>2. TasksShape' /\ RunsOK'
      BY <1>1, <2>1 DEF TasksShape, RunsOK, Running, Started
    <2>3. BoardsOK'
      <3>1. TaskBoard(t) \notin unsure' =>
               /\ ~Watched(TaskBoard(t))
               /\ \A u \in Tasks \ {t} : ~(Registering(u) /\ TaskBoard(u) = TaskBoard(t))
        <4>1. ~Go(t, "link")
          BY <1>1, <2>1, GoIs DEF Started
        <4>2. CASE unsure' = unsure \cup {TaskBoard(t)}
          BY <4>2
        <4>3. CASE /\ ~Watched(TaskBoard(t))
                   /\ unsure' = IF \E u \in Tasks \ {t} :
                                     /\ task[u].pc \in {"register", "save"}
                                     /\ TaskBoard(u) = TaskBoard(t)
                                THEN unsure \cup {TaskBoard(t)} ELSE unsure
          BY <4>3 DEF Registering
        <4> QED BY <4>1, <4>2, <4>3 DEF FindWebhook
      <3>2. TaskBoard(t) \in Boards /\ records \in [Boards -> Nat]
        BY <1>1, TicketLinksOK DEF TaskBoard, TasksShape
      <3> QED BY <1>1, <2>1, <3>1, <3>2 DEF BoardsOK, Registering, Watched, TaskBoard
    <2> QED BY <2>2, <2>3 DEF TicketsInv
  <1> QED BY <1>1, <1>2, <1>3 DEF FindWebhook

LEMMA CreateWebhookKeeps ==
    ASSUME TicketsInv, NEW t \in Tasks, CreateWebhook(t)
    PROVE  TicketsInv'
  <1>1. /\ TasksShape /\ UNCHANGED <<records, links, restarts, unsure>>
        /\ task[t].pc = "register" /\ CardOf[t] # NoCard
    BY DEF TicketsInv, CreateWebhook, TasksShape, Running
  <1>2. ASSUME NEW pc \in {"save", "link"}, Go(t, pc)
        PROVE  TicketsInv'
    <2>1. /\ task' \in [Tasks -> TaskStates]
          /\ \A u \in Tasks \ {t} : task'[u] = task[u]
          /\ task'[t].pc = pc /\ task'[t].retried = task[t].retried
      BY <1>1, <1>2, GoIs DEF Started
    <2> QED BY <1>1, <1>2, <2>1, TaskMoves DEF Registering, Running, Started
  <1> QED BY <1>2 DEF CreateWebhook

LEMMA SaveWebhookKeeps ==
    ASSUME TicketsInv, NEW t \in Tasks, SaveWebhook(t)
    PROVE  TicketsInv'
  <1>1. /\ TasksShape /\ RunsOK /\ BoardsOK /\ UNCHANGED <<links, restarts, unsure>>
        /\ task[t].pc = "save" /\ CardOf[t] # NoCard
    BY DEF TicketsInv, SaveWebhook, TasksShape, Running
  <1>2. /\ task' \in [Tasks -> TaskStates]
        /\ \A u \in Tasks \ {t} : task'[u] = task[u]
        /\ task'[t].pc = "link" /\ task'[t].retried = task[t].retried
    BY <1>1, GoIs DEF Started, SaveWebhook
  <1>3. CASE UNCHANGED records
    BY <1>1, <1>2, <1>3, TaskMoves DEF Registering, Running, Started
  <1>4. CASE records' = [records EXCEPT ![TaskBoard(t)] = @ + 1]
    <2>1. TaskBoard(t) \in Boards /\ records \in [Boards -> Nat]
      BY <1>1, TicketLinksOK DEF TaskBoard, TasksShape
    <2>2. TasksShape' /\ RunsOK'
      BY <1>1, <1>2, <1>4, <2>1 DEF TasksShape, RunsOK, Running, Started
    <2>3. BoardsOK'
      BY <1>1, <1>2, <1>4, <2>1 DEF BoardsOK, Registering, TaskBoard
    <2> QED BY <2>2, <2>3 DEF TicketsInv
  <1> QED BY <1>3, <1>4 DEF SaveWebhook

LEMMA LinkTicketKeeps ==
    ASSUME TicketsInv, NEW t \in Tasks, LinkTicket(t)
    PROVE  TicketsInv'
  <1>1. /\ TasksShape /\ RunsOK /\ BoardsOK /\ UNCHANGED <<records, restarts, unsure>>
        /\ task[t].pc = "link" /\ CardOf[t] # NoCard
    BY DEF TicketsInv, LinkTicket, TasksShape, Running
  <1>2. CASE task' = Retried(t) /\ UNCHANGED links
    BY <1>1, <1>2, RetryKeeps
  <1>3. ASSUME links' = [links EXCEPT ![t] = @ + 1], Go(t, "ack") \/ task' = Retried(t)
        PROVE  TicketsInv'
    <2>1. /\ task' \in [Tasks -> TaskStates]
          /\ \A u \in Tasks \ {t} : task'[u] = task[u]
          /\ \/ task'[t].pc = "queued" /\ task'[t].retried = task[t].retried + 1
             \/ task'[t].pc \in {"archived", "ack"} /\ task'[t].retried = task[t].retried
      BY <1>1, <1>3, GoIs, RetryIs
    <2>2. TasksShape'
      <3>1. links' \in [Tasks -> Nat]
        BY <1>1, <1>3 DEF TasksShape
      <3> QED BY <1>1, <2>1, <3>1 DEF TasksShape, Running
    <2>3. RunsOK'
      <3>1. /\ links \in [Tasks -> Nat] /\ restarts \in Nat
            /\ \A u \in Tasks : task[u].retried \in Nat
        BY <1>1 DEF TasksShape, TaskStates
      <3>2. links[t] <= task[t].retried + restarts
        BY <1>1 DEF RunsOK, Started
      <3> QED BY <1>1, <1>3, <2>1, <3>1, <3>2 DEF RunsOK, Started
    <2>4. BoardsOK'
      BY <1>1, <2>1 DEF BoardsOK, Registering, TaskBoard
    <2> QED BY <2>2, <2>3, <2>4 DEF TicketsInv
  <1> QED BY <1>2, <1>3 DEF LinkTicket

LEMMA ShutdownKeeps ==
    ASSUME TicketsInv, Shutdown
    PROVE  TicketsInv'
  <1>1. /\ TasksShape /\ RunsOK /\ BoardsOK /\ UNCHANGED <<records, links, unsure>>
        /\ restarts' = restarts + 1
        /\ \A u \in Tasks : task[u] \in TaskStates
    BY DEF TicketsInv, Shutdown, TasksShape
  <1>2. \A u \in Tasks : /\ task'[u] \in TaskStates /\ task'[u].retried = task[u].retried
                         /\ \/ task'[u].pc = "queued" /\ task[u].pc \in Running
                            \/ task'[u].pc = task[u].pc /\ task[u].pc \notin Running
    <2> TAKE u \in Tasks
    <2>1. task[u] \in TaskStates
      BY <1>1
    <2> QED BY <2>1 DEF Shutdown, TaskStates, Started
  <1>3. task' \in [Tasks -> TaskStates]
    BY <1>2 DEF Shutdown
  <1>4. TasksShape'
    BY <1>1, <1>2, <1>3 DEF TasksShape, Running
  <1>5. RunsOK'
    <2>1. \A u \in Tasks : links[u] \in Nat /\ task[u].retried \in Nat /\ restarts \in Nat
      BY <1>1 DEF TasksShape, TaskStates
    <2> QED BY <1>1, <1>2, <2>1 DEF RunsOK, Started, Running
  <1>6. BoardsOK'
    BY <1>1, <1>2 DEF BoardsOK, Registering, TaskBoard, Running
  <1> QED BY <1>4, <1>5, <1>6 DEF TicketsInv

LEMMA TicketsInvNext ==
    ASSUME TicketsInv, [TicketsNext]_ticketVars
    PROVE  TicketsInv'
  <1>1. CASE UNCHANGED <<task, links, restarts, records, unsure>>
    BY <1>1 DEF TicketsInv, TasksShape, RunsOK, BoardsOK, Registering, TaskBoard
  <1>2. ASSUME NEW t \in Tasks, TaskStep(t) \/ WorkerDies(t)
        PROVE  TicketsInv'
    <2>1. CASE WorkerDies(t)
      BY <2>1, RetryKeeps DEF WorkerDies
    <2> QED BY <1>2, <2>1, LookingKeeps, FindWebhookKeeps, CreateWebhookKeeps,
               SaveWebhookKeeps, LinkTicketKeeps DEF TaskStep
  <1>3. CASE Revoke
    BY <1>1, <1>3 DEF Revoke
  <1>4. CASE \E r \in Requests : Extract(r) \/ ResolveIssue(r) \/ CreateLinkage(r)
    BY <1>1, <1>4 DEF Extract, ResolveIssue, CreateLinkage, taskVars
  <1>5. CASE UNCHANGED ticketVars
    BY <1>1, <1>5 DEF ticketVars, taskVars
  <1> QED BY <1>2, <1>3, <1>4, <1>5, ShutdownKeeps DEF TicketsNext

LEMMA TicketsInvariance == TicketsSpec => []TicketsInv
  <1>1. ASSUME \E ts \in SUBSET Tasks, rs \in SUBSET Requests : TicketsInit(ts, rs)
        PROVE  TicketsInv
    BY <1>1, TicketsInvInit
  <1> QED BY <1>1, TicketsInvNext, PTL DEF TicketsSpec

\* However often tasks are retried, put back and killed, a task has stored at
\* most one row per run, and none is reported done without one.
THEOREM LinksCorrect == TicketsSpec => []LinksMatchAttempts
  <1>1. TicketsInv => LinksMatchAttempts
    BY DEF TicketsInv, RunsOK, LinksMatchAttempts
  <1> QED BY <1>1, TicketsInvariance, PTL

\* A second record of a board comes only from tasks that registered it at the
\* same time, or from a lookup that failed.
THEOREM SecondRecordCorrect == TicketsSpec => []SecondRecordByOverlap
  <1>1. TicketsInv => SecondRecordByOverlap
    BY DEF TicketsInv, TasksShape, BoardsOK, SecondRecordByOverlap
  <1> QED BY <1>1, TicketsInvariance, PTL

-----------------------------------------------------------------------------
\* References.  What a request on its way to a Jira link holds is an issue that
\* Jira has and that the pasted segment names.
Segment(r) == Last(Reference[r].segments)

NamedIssues(r) == {JiraIssues[UpperKey[k]] : k \in ToSet(Segment(r)) \cap Keys} \ {NoIssue}

RequestStates == [pc : {"none", "pasted", "resolve", "create", "linked", "refused"},
                  key : Keys \cup {NoIssue}]

ReferencesOK ==
    /\ request \in [Requests -> RequestStates]
    /\ \A r \in Requests : /\ request[r].pc = "resolve" => ExtractKeyFromURL(Reference[r])
                           /\ request[r].pc = "create" /\ Reference[r].to = "jira"
                                 => request[r].key \in NamedIssues(r)
    /\ linkages \subseteq [by : Requests, key : Keys \cup {NoIssue}]
    /\ \A l \in linkages : Reference[l.by].to = "jira" => l.key \in NamedIssues(l.by)

LEMMA ReferenceTypes ==
    ASSUME NEW r \in Requests
    PROVE  Reference[r].to \in {"jira", "linear"} /\ Segment(r) \in Seq(STRING)
  <1>1. Reference[r].segments \in Seq(Seq(STRING)) /\ Reference[r].segments # <<>>
    BY TicketLinksOK
  <1>2. Len(Reference[r].segments) \in DOMAIN Reference[r].segments
    BY <1>1
  <1> QED BY <1>1, <1>2, TicketLinksOK DEF Segment, Last

\* Whatever Jira answers about a segment that has a key is no issue, or one
\* that the segment names.
LEMMA AnswersOfJira ==
    ASSUME NEW r \in Requests, ExtractKeyFromURL(Reference[r])
    PROVE  /\ Answers(Reference[r]) \subseteq Keys \cup {NoIssue}
           /\ Reference[r].to = "jira" => Answers(Reference[r]) \subseteq NamedIssues(r) \cup {NoIssue}
  <1>1. Segment(r) \in Seq(STRING) /\ ToSet(Segment(r)) # {}
    BY ReferenceTypes DEF ExtractKeyFromURL, Segment
  <1>2. Segment(r) # <<>>
    BY <1>1 DEF ToSet
  <1>3. Head(Segment(r)) \in ToSet(Segment(r))
    BY <1>1, <1>2 DEF ToSet
  <1>4. \A k \in Keys : /\ JiraIssues[UpperKey[k]] \in Keys \cup {NoIssue}
                        /\ LinearIssues[UpperKey[k]] \in Keys \cup {NoIssue}
    BY TicketLinksOK
  <1>5. ASSUME NEW i \in Answers(Reference[r])
        PROVE  \/ i = NoIssue
               \/ \E k \in {Head(Segment(r))} \cap Keys :
                      i = IF Reference[r].to = "jira" THEN JiraIssues[UpperKey[k]]
                                                      ELSE LinearIssues[UpperKey[k]]
    BY <1>5 DEF Answers, Segment
  <1> QED BY <1>3, <1>4, <1>5 DEF NamedIssues

LEMMA ReferencesInit ==
    ASSUME NEW ts, NEW rs, TicketsInit(ts, rs)
    PROVE  ReferencesOK
  BY DEF TicketsInit, ReferencesOK, RequestStates

LEMMA ReferencesNext ==
    ASSUME ReferencesOK, [TicketsNext]_ticketVars
    PROVE  ReferencesOK'
  <1>1. CASE UNCHANGED requestVars
    BY <1>1 DEF requestVars, ReferencesOK
  <1>2. ASSUME NEW r \in Requests, Extract(r)
        PROVE  ReferencesOK'
    BY <1>2 DEF Extract, ReferencesOK, RequestStates
  <1>3. ASSUME NEW r \in Requests, ResolveIssue(r)
        PROVE  ReferencesOK'
    <2>1. request[r].pc = "resolve" /\ ExtractKeyFromURL(Reference[r]) /\ linkages' = linkages
      BY <1>3 DEF ResolveIssue, ReferencesOK
    <2>2. CASE request' = [request EXCEPT ![r].pc = "refused"]
      BY <2>1, <2>2 DEF ReferencesOK, RequestStates
    <2>3. ASSUME NEW m \in RequestStates, request' = [request EXCEPT ![r] = m],
                 m.pc \in {"create", "refused"},
                 m.pc = "create" /\ Reference[r].to = "jira" => m.key \in NamedIssues(r)
          PROVE  ReferencesOK'
      BY <2>1, <2>3 DEF ReferencesOK
    <2>4. ASSUME NEW i \in Answers(Reference[r]),
                 request' = [request EXCEPT ![r] =
                    IF i = NoIssue /\ Missing(Reference[r].to)
                    THEN [pc |-> "refused", key |-> NoIssue] ELSE [pc |-> "create", key |-> i]]
          PROVE  ReferencesOK'
      <3>1. i \in Keys \cup {NoIssue}
        BY <2>1, AnswersOfJira
      <3>2. Reference[r].to = "jira" /\ ~(i = NoIssue /\ Missing(Reference[r].to))
                => i \in NamedIssues(r)
        BY <2>1, AnswersOfJira DEF Missing
      <3>3. /\ [pc |-> "refused", key |-> NoIssue] \in RequestStates
            /\ [pc |-> "create", key |-> i] \in RequestStates
        BY <3>1 DEF RequestStates
      <3>4. CASE i = NoIssue /\ Missing(Reference[r].to)
        BY <2>3, <2>4, <3>3, <3>4
      <3>5. CASE ~(i = NoIssue /\ Missing(Reference[r].to))
        BY <2>3, <2>4, <3>2, <3>3, <3>5
      <3> QED BY <3>4, <3>5
    <2> QED BY <1>3, <2>2, <2>4 DEF ResolveIssue
  <1>4. ASSUME NEW r \in Requests, CreateLinkage(r)
        PROVE  ReferencesOK'
    <2>1. /\ request[r].pc = "create" /\ request[r].key \in Keys \cup {NoIssue}
          /\ Reference[r].to = "jira" => request[r].key \in NamedIssues(r)
      BY <1>4 DEF CreateLinkage, ReferencesOK, RequestStates
    <2>2. PICK pc \in {"linked", "refused"} : request' = [request EXCEPT ![r].pc = pc]
      BY <1>4 DEF CreateLinkage
    <2>3. linkages' \subseteq linkages \cup {[by |-> r, key |-> request[r].key]}
      BY <1>4 DEF CreateLinkage
    <2>4. /\ request' \in [Requests -> RequestStates]
          /\ \A q \in Requests : request'[q] = request[q] \/ request'[q].pc \in {"linked", "refused"}
      BY <2>2 DEF ReferencesOK, RequestStates
    <2>5. ASSUME NEW l \in linkages'
          PROVE  /\ l \in [by : Requests, key : Keys \cup {NoIssue}]
                 /\ Reference[l.by].to = "jira" => l.key \in NamedIssues(l.by)
      BY <2>1, <2>3, <2>5 DEF ReferencesOK
    <2> QED BY <2>4, <2>5 DEF ReferencesOK, NamedIssues, Segment
  <1>5. CASE UNCHANGED ticketVars
    BY <1>1, <1>5 DEF ticketVars
  <1>6. CASE Shutdown \/ Revoke \/ \E t \in Tasks : TaskStep(t) \/ WorkerDies(t)
    BY <1>1, <1>6 DEF Shutdown, Revoke, TaskStep, WorkerDies, FindInstallation, GetCard,
                      FindWebhook, CreateWebhook, SaveWebhook, LinkTicket, Acknowledge
  <1> QED BY <1>2, <1>3, <1>4, <1>5, <1>6 DEF TicketsNext

\* A pasted reference is linked to an issue that Jira has today, under the key
\* it has today, and that the reference names, whatever else is in its segment
\* and whatever Jira answers (LinkManual, ExtractKeyFromURL).
THEOREM JiraLinkCorrect == TicketsSpec => []JiraLinkIsLive
  <1>1. ASSUME \E ts \in SUBSET Tasks, rs \in SUBSET Requests : TicketsInit(ts, rs)
        PROVE  ReferencesOK
    BY <1>1, ReferencesInit
  <1>2. ReferencesOK => JiraLinkIsLive
    BY TicketLinksOK DEF ReferencesOK, JiraLinkIsLive, NamedIssues, Segment
  <1> QED BY <1>1, <1>2, ReferencesNext, PTL DEF TicketsSpec
=============================================================================
