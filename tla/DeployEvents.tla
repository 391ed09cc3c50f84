---------------------------- MODULE DeployEvents ----------------------------
(***************************************************************************)
(* The deploy domain (src/internal/domain/deploy): the deploy_events table *)
(* and the three writers of its service, IngestFromWebhook,                *)
(* UpdateDeploymentStatus and UpdateCIStatus, one action per database call.*)
(* Every caller reads rows, changes the Go structs and saves them back     *)
(* whole; there is no transaction and no lock, so whatever another caller  *)
(* wrote in between is overwritten.                                        *)
(*                                                                         *)
(* One organisation and one repository: every query carries both.  A row   *)
(* keeps the delivery it was made from, which stands for all the columns   *)
(* copied from the webhook (commit, branch, environment, author, times,    *)
(* GitHub deployment id, raw payload).                                     *)
(***************************************************************************)
EXTENDS Naturals

CONSTANTS
    Workers,      \* callers of the service, asynq's worker goroutines
    Deliveries,   \* webhook deliveries
    Event,        \* what each delivery's body says
    Ids,          \* primary keys of deploy_events
    NoValue,      \* SQL NULL, and the absence of a row
    IdAssigned    \* whether something gives a DeployEvent its ID before Create

Kinds == {"push", "deployment", "deployment_status", "workflow_run",
          "check_suite", "other"}

ASSUME EventsOK ==
    /\ IdAssigned \in BOOLEAN
    /\ NoValue \notin Ids \cup Nat \cup Deliveries
    /\ \A d \in Deliveries :
        /\ Event[d].kind \in Kinds
        /\ Event[d].at \in Nat         \* triggered_at, or a status's occurred_at
        /\ Event[d].revert \in BOOLEAN \* the commit message starts with Revert
        /\ DOMAIN Event[d] = {"kind", "at", "revert", "commit", "env", "ghId",
                              "verdict"}

VARIABLES
    deploys,  \* the deploy_events table
    svc       \* where each caller is inside the service, and what it read

NoRow == [from |-> NoValue]

Outcomes == {"unknown", "success", "failure"}
CIStatuses == {"unknown", "passed", "failed"}

Row == [from : Deliveries,
        outcome : Outcomes,
        ci : CIStatuses,
        completedAt : Nat \cup {NoValue},
        reverts : Ids \cup {NoValue}]

Free == [pc |-> "free"]

Returned(failed) == [pc |-> "returned", err |-> failed]

Found == [id : Ids, row : Row]

SvcState ==
    {Free}
    \cup [pc : {"exists", "lookup"}, req : Deliveries]
    \cup [pc : {"create"}, req : Deliveries, reverts : Ids \cup {NoValue}]
    \cup [pc : {"status"}, req : Deliveries, found : Found]
    \cup [pc : {"ci"}, req : Deliveries, todo : SUBSET Found]
    \cup [pc : {"returned"}, err : BOOLEAN]

InitDeploys ==
    /\ deploys = [id \in Ids |-> NoRow]
    /\ svc = [w \in Workers |-> Free]

Exists(id) == deploys[id] # NoRow

EventOf(id) == Event[deploys[id].from]

\* FindByGitHubDeploymentID and ExistsByGitHubDeploymentID.
WithGitHubId(g) == {id \in Ids : Exists(id) /\ EventOf(id).ghId = g}

\* FindByCommitSHA.
WithCommit(commit) == {id \in Ids : Exists(id) /\ EventOf(id).commit = commit}

\* FindLastDeployByEnv: the greatest triggered_at, any of them if several.
LastInEnv_First(env) == {id \in Ids : Exists(id)}

LastInEnv(env) ==
    LET inEnv == {id \in Ids : Exists(id) /\ EventOf(id).env = env}
    IN  {id \in inEnv : \A o \in inEnv : EventOf(o).at <= EventOf(id).at}

\* The unique index on (org_id, github_deployment_id).
GitHubIdTaken_NoIndex(g) == FALSE

GitHubIdTaken(g) == g # NoValue /\ WithGitHubId(g) # {}

-----------------------------------------------------------------------------
\* IngestFromWebhook.

CreateOrLookup(d) ==
    IF Event[d].revert
    THEN [pc |-> "lookup", req |-> d]
    ELSE [pc |-> "create", req |-> d, reverts |-> NoValue]

\* Only an event with a GitHub deployment id is checked for a duplicate.
IngestStart(d) ==
    IF Event[d].ghId # NoValue
    THEN [pc |-> "exists", req |-> d]
    ELSE CreateOrLookup(d)

IngestCheckExists(w) ==
    /\ svc[w].pc = "exists"
    /\ svc' = [svc EXCEPT ![w] =
                IF WithGitHubId(Event[svc[w].req].ghId) # {}
                THEN Returned(TRUE)
                ELSE CreateOrLookup(svc[w].req)]
    /\ UNCHANGED deploys

\* The revert lookup: an error, like no row, leaves the link empty.
IngestFindLast(w) ==
    /\ svc[w].pc = "lookup"
    /\ \E last \in LastInEnv(Event[svc[w].req].env) \cup {NoValue} :
        svc' = [svc EXCEPT ![w] = [pc |-> "create", req |-> svc[w].req,
                                   reverts |-> last]]
    /\ UNCHANGED deploys

\* Only a workflow_run carries a completion time when it is ingested.
NewRow(d, reverts) ==
    [from |-> d, outcome |-> "unknown", ci |-> "unknown",
     completedAt |-> IF Event[d].kind = "workflow_run"
                     THEN Event[d].at ELSE NoValue,
     reverts |-> reverts]

\* The INSERT.  BeforeCreate refuses a row whose ID nobody assigned.  As with
\* the saves below, the answer to the COMMIT may be lost: the row is stored, and
\* the service returns an error (err).
IngestCreate(w) ==
    /\ svc[w].pc = "create"
    /\ IdAssigned
    /\ ~GitHubIdTaken(Event[svc[w].req].ghId)
    /\ \E id \in Ids :
        /\ ~Exists(id)
        /\ deploys' = [deploys EXCEPT ![id] = NewRow(svc[w].req, svc[w].reverts)]
    /\ \E err \in BOOLEAN : svc' = [svc EXCEPT ![w] = Returned(err)]

-----------------------------------------------------------------------------
\* UpdateDeploymentStatus.

Terminal == {"success", "failure", "error"}

\* "error" is stored as a failure, every other state leaves the outcome alone.
OutcomeOf(state) ==
    IF state = "success" THEN "success" ELSE "failure"

\* The row a status call saves: what it read, with the outcome and the
\* completion time of a terminal state.
WithStatus_CurrentOutcome(found, e) ==
    IF e.verdict \in Terminal
    THEN [deploys[found.id] EXCEPT !.outcome = OutcomeOf(e.verdict),
                                   !.completedAt = found.row.completedAt]
    ELSE found.row

WithStatus(found, e) ==
    IF e.verdict \in Terminal
    THEN [found.row EXCEPT !.outcome = OutcomeOf(e.verdict),
                           !.completedAt = e.at]
    ELSE found.row

StatusFind(w, d) ==
    LET ids == WithGitHubId(Event[d].ghId)
    IN  IF ids = {}
        THEN svc' = [svc EXCEPT ![w] = Returned(TRUE)]
        ELSE \E id \in ids :
            svc' = [svc EXCEPT ![w] = [pc |-> "status", req |-> d,
                        found |-> [id |-> id, row |-> deploys[id]]]]

StatusSave(w) ==
    /\ svc[w].pc = "status"
    /\ deploys' = [deploys EXCEPT ![svc[w].found.id] =
                    WithStatus(svc[w].found, Event[svc[w].req])]
    /\ \E err \in BOOLEAN : svc' = [svc EXCEPT ![w] = Returned(err)]

-----------------------------------------------------------------------------
\* UpdateCIStatus, with the worker's reading of the check suite's conclusion.

CIOf_Verbatim(conclusion) == conclusion

CIOf(conclusion) ==
    CASE conclusion = "success" -> "passed"
      [] conclusion \in {"failure", "cancelled", "timed_out", "action_required"}
            -> "failed"
      [] OTHER -> "unknown"

WithCI_FreshRow(found, e) ==
    [NewRow(found.row.from, found.row.reverts) EXCEPT !.ci = CIOf(e.verdict)]

WithCI(found, e) == [found.row EXCEPT !.ci = CIOf(e.verdict)]

\* All rows of the commit are read at once ...
CIFind(w, d) ==
    LET found == {[id |-> id, row |-> deploys[id]] :
                    id \in WithCommit(Event[d].commit)}
    IN  svc' = [svc EXCEPT ![w] =
                    IF found = {} THEN Returned(FALSE)
                    ELSE [pc |-> "ci", req |-> d, todo |-> found]]

\* ... and saved one by one.
CISave(w) ==
    /\ svc[w].pc = "ci"
    /\ \E f \in svc[w].todo :
        /\ deploys' = [deploys EXCEPT ![f.id] = WithCI(f, Event[svc[w].req])]
        /\ \/ svc' = [svc EXCEPT ![w] = Returned(TRUE)]
           \/ svc' = [svc EXCEPT ![w] =
                        IF svc[w].todo = {f} THEN Returned(FALSE)
                        ELSE [svc[w] EXCEPT !.todo = svc[w].todo \ {f}]]

\* A database call fails and the error is returned: a refused key or index, a
\* lost connection, a cancelled context.  Rows a CI loop has saved stay saved.
SvcFails(w) ==
    /\ svc[w].pc \in {"exists", "create", "status", "ci"}
    /\ svc' = [svc EXCEPT ![w] = Returned(TRUE)]
    /\ UNCHANGED deploys

SvcStep(w) ==
    \/ IngestCheckExists(w)
    \/ IngestFindLast(w)
    \/ IngestCreate(w)
    \/ StatusSave(w)
    \/ CISave(w)
    \/ SvcFails(w)
=============================================================================
