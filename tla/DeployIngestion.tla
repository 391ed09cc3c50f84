--------------------------- MODULE DeployIngestion ---------------------------
(***************************************************************************)
(* The deploy ingestion worker (src/internal/worker/deploy_ingestion.go):  *)
(* asynq tasks, each carrying a GitHub webhook delivery, processed by      *)
(* concurrent workers through the deploy service of DeployEvents.          *)
(*                                                                         *)
(* asynq (the queue, its retries and its recovery of tasks whose worker    *)
(* died) and the delivery repository (an interface that only has a stub)   *)
(* are external; they are modelled from how the worker uses them.  The     *)
(* options ask for uniqueness of a task within 30 s, but the key is the    *)
(* whole payload, which contains EnqueuedAt: two tasks may carry the same  *)
(* delivery, and TaskDelivery says which do.                               *)
(***************************************************************************)
EXTENDS DeployEvents

CONSTANTS
    Tasks,         \* asynq tasks
    TaskDelivery,  \* the delivery each task carries
    Queues,        \* the sets of tasks that may have been enqueued
    MaxRetry       \* asynq.MaxRetry

ASSUME TasksOK ==
    /\ TaskDelivery \in [Tasks -> Deliveries]
    /\ Queues \subseteq SUBSET Tasks
    /\ MaxRetry \in Nat

VARIABLES
    tasks,     \* each task in the queue: its state and how often it was retried
    work,      \* what each worker is doing
    delivery   \* the delivery table: what is recorded of each delivery

vars == <<deploys, svc, tasks, work, delivery>>

TaskStates == {"absent", "queued", "active", "done", "archived"}

Task == [state : TaskStates, retried : 0 .. MaxRetry]

Idle == [pc |-> "idle"]

WorkState ==
    {Idle}
    \cup [pc : {"check", "record", "dispatch", "serve"}, task : Tasks]
    \cup [pc : {"ack"}, task : Tasks, err : BOOLEAN]

DeliveryStates == {"absent", "recorded", "processed", "failed"}

Init ==
    /\ InitDeploys
    /\ \E queue \in Queues :
        tasks = [t \in Tasks |->
                    [state |-> IF t \in queue THEN "queued" ELSE "absent",
                     retried |-> 0]]
    /\ work = [w \in Workers |-> Idle]
    /\ delivery = [d \in Deliveries |-> "absent"]

D(w) == TaskDelivery[work[w].task]

At(w, pc) == work[w].pc = pc

GoTo(w, pc) == work' = [work EXCEPT ![w] = [pc |-> pc, task |-> work[w].task]]

\* The handler is about to return.
Finished(w, err) == [pc |-> "ack", task |-> work[w].task, err |-> err]

Settled_UncountedRetry(task, err) ==
    [task EXCEPT !.state = IF err THEN "queued" ELSE "done"]

\* What asynq does with a task whose handler returned.
Settled(task, err) ==
    CASE ~err -> [task EXCEPT !.state = "done"]
      [] err /\ task.retried < MaxRetry ->
            [state |-> "queued", retried |-> task.retried + 1]
      [] OTHER -> [task EXCEPT !.state = "archived"]

Settle(t, err) == tasks' = [tasks EXCEPT ![t] = Settled(tasks[t], err)]

-----------------------------------------------------------------------------
\* asynq hands a waiting task to an idle worker.
Dequeue(w, t) ==
    /\ work[w] = Idle
    /\ tasks[t].state = "queued"
    /\ tasks' = [tasks EXCEPT ![t].state = "active"]
    /\ work' = [work EXCEPT ![w] = [pc |-> "check", task |-> t]]
    /\ UNCHANGED <<deploys, svc, delivery>>

\* deliveryRepo.Exists: a known delivery is a duplicate, whatever became of it.
CheckDelivery(w) ==
    /\ At(w, "check")
    /\ work' = [work EXCEPT ![w] =
                IF delivery[D(w)] # "absent"
                THEN Finished(w, FALSE)
                ELSE [pc |-> "record", task |-> work[w].task]]
    /\ UNCHANGED <<deploys, svc, tasks, delivery>>

\* deliveryRepo.Record: the delivery id is a key.
RecordDelivery_NotAKey(w) ==
    /\ At(w, "record")
    /\ delivery' = [delivery EXCEPT ![D(w)] = "recorded"]
    /\ GoTo(w, "dispatch")
    /\ UNCHANGED <<deploys, svc, tasks>>

RecordDelivery(w) ==
    /\ At(w, "record")
    /\ delivery[D(w)] = "absent"
    /\ delivery' = [delivery EXCEPT ![D(w)] = "recorded"]
    /\ GoTo(w, "dispatch")
    /\ UNCHANGED <<deploys, svc, tasks>>

\* The events a worker drops without an error and without a service call: a
\* branch deletion, and a workflow that did not succeed.
Ignored(e) ==
    \/ e.kind = "push" /\ e.verdict = "deleted"
    \/ e.kind = "workflow_run" /\ e.verdict # "success"

Ingests(e) == e.kind \in {"push", "deployment", "workflow_run"} /\ ~Ignored(e)

\* Parse the body, resolve the installation and call the service: up to and
\* including the service's first query for the two updates.
Dispatch(w) ==
    LET e == Event[D(w)]
    IN  /\ At(w, "dispatch") /\ e.kind # "other"
        /\ \/ Ignored(e) /\ svc' = [svc EXCEPT ![w] = Returned(FALSE)]
           \/ Ingests(e) /\ svc' = [svc EXCEPT ![w] = IngestStart(D(w))]
           \/ e.kind = "deployment_status" /\ StatusFind(w, D(w))
           \/ e.kind = "check_suite" /\ CIFind(w, D(w))
        /\ GoTo(w, "serve")
        /\ UNCHANGED <<deploys, tasks, delivery>>

\* Parsing fails, no installation is found, or the first query fails.
DispatchFails(w) ==
    /\ At(w, "dispatch") /\ Event[D(w)].kind # "other"
    /\ svc' = [svc EXCEPT ![w] = Returned(TRUE)]
    /\ GoTo(w, "serve")
    /\ UNCHANGED <<deploys, tasks, delivery>>

\* An unknown event type returns at once, before UpdateResult.
DispatchUnknown(w) ==
    /\ At(w, "dispatch") /\ Event[D(w)].kind = "other"
    /\ work' = [work EXCEPT ![w] = Finished(w, FALSE)]
    /\ UNCHANGED <<deploys, svc, tasks, delivery>>

Serve(w) == SvcStep(w) /\ UNCHANGED <<tasks, work, delivery>>

\* UpdateResult, whose own error is ignored.
ResultOf_AlwaysProcessed(err) == "processed"

ResultOf(err) == IF err THEN "failed" ELSE "processed"

UpdateResult(w) ==
    /\ At(w, "serve") /\ svc[w].pc = "returned"
    /\ \E result \in {ResultOf(svc[w].err), delivery[D(w)]} :
        delivery' = [delivery EXCEPT ![D(w)] = result]
    /\ work' = [work EXCEPT ![w] = Finished(w, svc[w].err)]
    /\ svc' = [svc EXCEPT ![w] = Free]
    /\ UNCHANGED <<deploys, tasks>>

\* The handler returns and asynq settles the task.
Ack(w) ==
    /\ At(w, "ack")
    /\ Settle(work[w].task, work[w].err)
    /\ work' = [work EXCEPT ![w] = Idle]
    /\ UNCHANGED <<deploys, svc, delivery>>

\* Exists or Record fails, Record because another worker recorded the delivery
\* since the check.
DeliveryFails(w) ==
    /\ At(w, "check") \/ At(w, "record")
    /\ work' = [work EXCEPT ![w] = Finished(w, TRUE)]
    /\ UNCHANGED <<deploys, svc, tasks, delivery>>

\* The process dies.  asynq finds the abandoned task and counts a retry; what
\* the worker wrote stays.
Crash(w) ==
    /\ work[w] # Idle
    /\ Settle(work[w].task, TRUE)
    /\ work' = [work EXCEPT ![w] = Idle]
    /\ svc' = [svc EXCEPT ![w] = Free]
    /\ UNCHANGED <<deploys, delivery>>

Step(w) ==
    \/ CheckDelivery(w)
    \/ RecordDelivery(w)
    \/ Dispatch(w)
    \/ DispatchUnknown(w)
    \/ Serve(w)
    \/ UpdateResult(w)
    \/ Ack(w)
    \/ DeliveryFails(w)

Next ==
    \E w \in Workers :
        \/ \E t \in Tasks : Dequeue(w, t)
        \/ Step(w)
        \/ DispatchFails(w)
        \/ Crash(w)

Spec == Init /\ [][Next]_vars

\* A worker keeps working on its task, and asynq hands out what is queued.
Fairness ==
    \A w \in Workers :
        WF_vars(Step(w)) /\ WF_vars(\E t \in Tasks : Dequeue(w, t))

FairSpec == Spec /\ Fairness

-----------------------------------------------------------------------------
\* Every variable keeps its type; a caller is inside the service only while its
\* worker serves a task.
TypeOK ==
    /\ deploys \in [Ids -> Row \cup {NoRow}]
    /\ svc \in [Workers -> SvcState]
    /\ tasks \in [Tasks -> Task]
    /\ work \in [Workers -> WorkState]
    /\ delivery \in [Deliveries -> DeliveryStates]
    /\ \A w \in Workers : svc[w] # Free => At(w, "serve")

\* A GitHub deployment has at most one row, though two workers may both have
\* found none before they create theirs.
UniqueDeployment ==
    \A i, j \in Ids :
        Exists(i) /\ Exists(j) /\ EventOf(i).ghId # NoValue
            /\ EventOf(i).ghId = EventOf(j).ghId => i = j

\* Retries, crashes and two tasks with the same delivery never store the same
\* delivery twice; pushes and workflow runs have no other protection.
OneRowPerDelivery ==
    \A i, j \in Ids :
        Exists(i) /\ Exists(j) /\ deploys[i].from = deploys[j].from => i = j

\* A delivery marked "processed" that should have made a row has made one.
ProcessedMeansStored ==
    \A d \in Deliveries :
        delivery[d] = "processed" /\ Ingests(Event[d])
            => \E id \in Ids : deploys[id].from = d

\* A revert links to a deploy of the same environment that is stored: never to
\* itself, nor to one that links back to it.
RevertsAnEarlierDeploy ==
    \A id \in Ids :
        LET target == deploys[id].reverts
        IN  Exists(id) /\ target # NoValue =>
                /\ Exists(target)
                /\ EventOf(target).env = EventOf(id).env
                /\ target # id /\ deploys[target].reverts # id

\* What a row says of its outcome and its CI run was said by a delivery on
\* record: a status of this deployment, with its time, and a check suite of this
\* commit.
Witnessed(row) ==
    LET seen == {d \in Deliveries : delivery[d] # "absent"}
    IN  /\ row.outcome # "unknown" => \E d \in seen :
                /\ Event[d].kind = "deployment_status"
                /\ Event[d].verdict \in Terminal
                /\ Event[d].ghId = Event[row.from].ghId
                /\ OutcomeOf(Event[d].verdict) = row.outcome
                /\ Event[d].at = row.completedAt
        /\ row.ci # "unknown" => \E d \in seen :
                /\ Event[d].kind = "check_suite"
                /\ Event[d].commit = Event[row.from].commit
                /\ CIOf(Event[d].verdict) = row.ci

\* No interleaving of whole-row saves invents a value: a known outcome with its
\* completion time is that of one status delivery of this deployment, and a
\* known CI status that of a check suite of this commit.
FieldsAreWitnessed == \A id \in Ids : Exists(id) => Witnessed(deploys[id])

\* A CI update only ever changes a row's outcome when the row was changed after
\* it was read; and a status update its CI status likewise.
ForeignFieldsOnlyByStaleSave ==
    [][\A id \in Ids : Exists(id) =>
        /\ deploys'[id].outcome # deploys[id].outcome => \E w \in Workers :
                \/ svc[w].pc = "status" /\ svc[w].found.id = id
                \/ svc[w].pc = "ci" /\ \E f \in svc[w].todo :
                        f.id = id /\ f.row.outcome # deploys[id].outcome
        /\ deploys'[id].ci # deploys[id].ci => \E w \in Workers :
                \/ svc[w].pc = "ci" /\ \E f \in svc[w].todo : f.id = id
                \/ svc[w].pc = "status" /\ svc[w].found.id = id
                        /\ svc[w].found.row.ci # deploys[id].ci]_vars

\* Every task leaves the queue: it is acknowledged, or archived once its
\* retries are used up.
TasksSettle ==
    \A t \in Tasks : <>(tasks[t].state \in {"absent", "done", "archived"})

\* "Retry up to 5 times": a task is not acknowledged while the delivery it
\* carries is on record as failed.
FailedIsNotAcknowledged ==
    \A t \in Tasks : tasks[t].state = "done"
        => delivery[TaskDelivery[t]] # "failed"

\* An outcome once recorded is not erased.  It is proved of one worker; with two,
\* the save of a copy read before the outcome was stored erases it.
OutcomeNeverErased ==
    [][\A id \in Ids : Exists(id) /\ deploys[id].outcome # "unknown"
            => deploys'[id].outcome # "unknown"]_vars

-----------------------------------------------------------------------------
source == [id \in Ids |-> deploys[id].from]

Log == INSTANCE DeliveryLog
    WITH Makes <- {d \in Deliveries : Ingests(Event[d])}, log <- delivery

\* The workers implement the log of deliveries: whatever is retried, handed out
\* twice or left by a crash, a delivery is recorded, stored and settled in this
\* order and at most once, and a save never gives a row to another delivery.
KeepsTheLog == Log!Spec
=============================================================================
