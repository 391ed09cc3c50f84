------------------------------ MODULE Approval ------------------------------
(***************************************************************************)
(* The approval domain (src/internal/domain/approval): the service's three *)
(* writers, RequestApproval, GrantApproval and RejectApproval, each a      *)
(* query followed by a separate INSERT or whole-row UPDATE.  Neither the   *)
(* service nor the repository opens a transaction or locks a row, so calls *)
(* of several HTTP requests interleave between their two database steps.   *)
(*                                                                         *)
(* The model is of one organisation.  A call that returns early with an    *)
(* error before writing (already exists, not found, invalid status) leaves *)
(* no trace in the database and is a stuttering step.                      *)
(***************************************************************************)
EXTENDS Naturals

CONSTANTS
    Calls,        \* concurrent service calls, one per HTTP request in flight
    Deploys,      \* deploy_event_id values
    Users,        \* a deciding user with their login, channel and comment
    Ids,          \* primary keys a row may get
    ZeroId,       \* the key 0, Go's zero value of Base.ID
    NoValue,      \* SQL NULL, and the absence of a row
    MaxTime,      \* bound on the clock
    Deadlines,    \* what a request gives for ExpiresAt, which no code reads
    GeneratorSet  \* whether model.SetIDGenerator was called at start-up

ASSUME ConstantsOK ==
    /\ ZeroId \in Ids
    /\ NoValue \notin Users \cup Deploys
    /\ MaxTime \in Nat
    /\ NoValue \notin Nat
    /\ Deadlines \subseteq Nat \cup {NoValue}
    /\ GeneratorSet \in BOOLEAN

VARIABLES
    rows,    \* the approvals table
    calls,   \* what each call in flight remembers between its two steps
    now,     \* the wall clock
    issued   \* history: the decisions that passed the status check

vars == <<rows, calls, now, issued>>

Decisions == {"granted", "rejected"}

\* The statuses some code assigns.  "expired", "skipped" and "superseded" are
\* declared, but nothing sets them.
Statuses == {"pending"} \cup Decisions

Row == [deploy : Deploys,
        status : Statuses,
        expiresAt : Nat \cup {NoValue},
        approver : Users \cup {NoValue},
        decidedAt : Nat \cup {NoValue}]

NoRow == [deploy |-> NoValue]

Idle == [pc |-> "idle"]

CallState ==
    {Idle}
    \cup [pc : {"creating"}, deploy : Deploys, expiresAt : Nat \cup {NoValue}]
    \cup [pc : {"saving"}, id : Ids, row : Row, readAt : Nat,
          verdict : Decisions, approver : Users]

Decision == [id : Ids, verdict : Decisions, approver : Users]

-----------------------------------------------------------------------------

Init ==
    /\ rows = [id \in Ids |-> NoRow]
    /\ calls = [c \in Calls |-> Idle]
    /\ now = 0
    /\ issued = {}

Exists(id) == rows[id] # NoRow

\* FindByDeployEventID: the ids of the rows of a deploy.
RowsOf(d) == {id \in Ids : Exists(id) /\ rows[id].deploy = d}

\* A write of row under id that the unique key of migration 008 refuses: the key
\* is the deploy AND the status.  The narrower index that the gorm tag of the
\* model names, on the deploy alone, is created by no code of the program.
Conflicts_NoIndex(id, row) == FALSE

Conflicts(id, row) ==
    \E other \in RowsOf(row.deploy) \ {id} : rows[other].status = row.status

\* The key model.Base.BeforeCreate leaves in a new row.
NewIds ==
    IF GeneratorSet THEN {id \in Ids : ~Exists(id) /\ id # ZeroId} ELSE {ZeroId}

-----------------------------------------------------------------------------
\* RequestApproval, first step.  Any error of the lookup, not only "not
\* found", lets the call go on to create: the code tests err == nil alone.
RequestFind(c, d, deadline) ==
    /\ calls[c] = Idle
    /\ calls' = [calls EXCEPT ![c] = [pc |-> "creating",
                                      deploy |-> d,
                                      expiresAt |-> deadline]]
    /\ UNCHANGED <<rows, now, issued>>

PendingRow(d, deadline) ==
    [deploy |-> d, status |-> "pending", expiresAt |-> deadline,
     approver |-> NoValue, decidedAt |-> NoValue]

\* RequestApproval, second step: the INSERT.
RequestCreate(c) ==
    /\ calls[c].pc = "creating"
    /\ \E id \in NewIds :
        LET row == PendingRow(calls[c].deploy, calls[c].expiresAt)
        IN  /\ ~Exists(id)
            /\ ~Conflicts(id, row)
            /\ rows' = [rows EXCEPT ![id] = row]
    /\ calls' = [calls EXCEPT ![c] = Idle]
    /\ UNCHANGED <<now, issued>>

-----------------------------------------------------------------------------
\* The check both deciding calls make on the row they read.
MayDecide_AnyStatus(id) == Exists(id)

MayDecide(id) == Exists(id) /\ rows[id].status = "pending"

\* GrantApproval and RejectApproval, first step: read the row and check it.
Decide(c, id, verdict, user) ==
    /\ calls[c] = Idle
    /\ MayDecide(id)
    /\ calls' = [calls EXCEPT ![c] = [pc |-> "saving", id |-> id,
                                      row |-> rows[id], readAt |-> now,
                                      verdict |-> verdict,
                                      approver |-> user]]
    /\ issued' = issued \cup
                    {[id |-> id, verdict |-> verdict, approver |-> user]}
    /\ UNCHANGED <<rows, now>>

GrantApproval(c, id, user) == Decide(c, id, "granted", user)

RejectApproval(c, id, user) == Decide(c, id, "rejected", user)

\* The row a deciding call saves: the row it READ with the decision fields set.
\* time.Now() is taken somewhere between the read and the save.
Decided_RejectForgets(call, at) ==
    [call.row EXCEPT
        !.status = IF call.verdict = "rejected" THEN call.row.status
                                                ELSE call.verdict,
        !.approver = call.approver, !.decidedAt = at]

Decided_MergesCurrent(call, at) ==
    [call.row EXCEPT
        !.status = call.verdict, !.decidedAt = at,
        !.approver = IF rows[call.id].approver = NoValue
                     THEN call.approver ELSE rows[call.id].approver]

Decided_WrongStatus(call, at) ==
    [call.row EXCEPT !.status = "decided", !.approver = call.approver,
                     !.decidedAt = at]

Decided(call, at) ==
    [call.row EXCEPT !.status = call.verdict,
                     !.approver = call.approver,
                     !.decidedAt = at]

\* Their second step: repository.Update saves every column of that row,
\* whatever the table holds by then.
DecideSave(c) ==
    /\ calls[c].pc = "saving"
    /\ \E at \in calls[c].readAt .. now :
        LET row == Decided(calls[c], at)
        IN  /\ ~Conflicts(calls[c].id, row)
            /\ rows' = [rows EXCEPT ![calls[c].id] = row]
    /\ calls' = [calls EXCEPT ![c] = Idle]
    /\ UNCHANGED <<now, issued>>

\* The write fails (index or key conflict, database error, cancelled request,
\* process gone): the call ends and the row is as it was.
CallFails(c) ==
    /\ calls[c] # Idle
    /\ calls' = [calls EXCEPT ![c] = Idle]
    /\ UNCHANGED <<rows, now, issued>>

Tick ==
    /\ now < MaxTime
    /\ now' = now + 1
    /\ UNCHANGED <<rows, calls, issued>>

Next ==
    \/ Tick
    \/ \E c \in Calls :
        \/ \E d \in Deploys, deadline \in Deadlines :
              RequestFind(c, d, deadline)
        \/ RequestCreate(c)
        \/ \E id \in Ids, u \in Users :
              GrantApproval(c, id, u) \/ RejectApproval(c, id, u)
        \/ DecideSave(c)
        \/ CallFails(c)

Spec == Init /\ [][Next]_vars

-----------------------------------------------------------------------------
\* Every variable stays within its type: each row has the columns and the
\* statuses the service assigns, each call remembers what its handler read.
TypeOK ==
    /\ rows \in [Ids -> Row \cup {NoRow}]
    /\ calls \in [Calls -> CallState]
    /\ now \in Nat
    /\ issued \subseteq Decision

\* Whatever requests and decisions overlap, a deploy never has two approvals of
\* one status: two requests that both found nothing do not both open a review,
\* and two reviews of a deploy are not both granted, or both rejected.
OneOfEachStatus ==
    \A i, j \in Ids :
        /\ Exists(i) /\ Exists(j)
        /\ rows[i].deploy = rows[j].deploy
        /\ rows[i].status = rows[j].status
        => i = j


\* The evidence of a decision is never a mixture of two overlapping calls: a
\* decided row carries the verdict and the approver of ONE call that passed the
\* status check on it, and a pending row carries neither approver nor time.
EvidenceIsWhole ==
    \A id \in Ids : Exists(id) =>
        IF rows[id].status = "pending"
        THEN rows[id].approver = NoValue /\ rows[id].decidedAt = NoValue
        ELSE /\ [id |-> id, verdict |-> rows[id].status,
                 approver |-> rows[id].approver] \in issued
             /\ rows[id].decidedAt # NoValue

\* However late a whole-row save lands, it never takes a decided approval back
\* to pending, removes it, or moves it to another deploy or deadline.
NeverReopened ==
    [][\A id \in Ids : Exists(id) =>
            /\ rows'[id].deploy = rows[id].deploy
            /\ rows'[id].expiresAt = rows[id].expiresAt
            /\ rows[id].status # "pending" => rows'[id].status # "pending"]_vars

\* "Treat as append-only: never update a granted/rejected record": a decided
\* row keeps its verdict, its approver and its time.
DecidedIsFinal ==
    [][\A id \in Ids : Exists(id) /\ rows[id].status # "pending" =>
            rows'[id] = rows[id]]_vars

\* A decided record is only ever overwritten by a call that read it while it
\* was still pending: two decisions of one approval always overlapped.
OverwritesAreOverlaps ==
    [][\A id \in Ids :
            Exists(id) /\ rows[id].status # "pending" /\ rows'[id] # rows[id]
            => \E c \in Calls :
                    /\ calls[c].pc = "saving" /\ calls'[c] = Idle
                    /\ calls[c].id = id
                    /\ calls[c].row = [rows[id] EXCEPT !.status = "pending",
                                                      !.approver = NoValue,
                                                      !.decidedAt = NoValue]]_vars

-----------------------------------------------------------------------------
\* What the approvals table says of each review.
review ==
    [id \in Ids |->
        IF Exists(id)
        THEN [deploy |-> rows[id].deploy, status |-> rows[id].status,
              approver |-> rows[id].approver]
        ELSE [deploy |-> NoValue, status |-> "none", approver |-> NoValue]]

Ledger == INSTANCE ApprovalLedger WITH review <- review, Reviews <- Ids

\* The overlapping calls implement the ledger: a deploy has one open review at
\* most, a decision is only ever replaced by another of the same review, and it
\* is never lost, reopened, torn or given to another deploy.
KeepsTheLedger == Ledger!Spec
=============================================================================
