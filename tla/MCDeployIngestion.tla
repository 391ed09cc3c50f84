-------------------------- MODULE MCDeployIngestion --------------------------
(***************************************************************************)
(* DeployIngestion on a short history of one repository: a deployment, its *)
(* status, a check suite of its commit, a push that reverts, and the other *)
(* events a worker may be handed.                                          *)
(***************************************************************************)
EXTENDS DeployIngestion, TLC

Says(kind, commit, env, ghId, at, verdict, revert) ==
    [kind |-> kind, commit |-> commit, env |-> env, ghId |-> ghId, at |-> at,
     verdict |-> verdict, revert |-> revert]

CONSTANTS
    dep, again, sta, chk, wfl, rev, rv2, del, oth,  \* deliveries
    twice                                 \* a second task for delivery rev

MCEvent ==
    dep   :> Says("deployment", "k1", "prod", "g1", 1, "", FALSE) @@
    again :> Says("deployment", "k1", "prod", "g1", 1, "", FALSE) @@
    sta   :> Says("deployment_status", "k1", "prod", "g1", 2, "error", FALSE) @@
    chk   :> Says("check_suite", "k1", "prod", NoValue, 3, "success", FALSE) @@
    wfl   :> Says("workflow_run", "k1", "test", NoValue, 6, "success", FALSE) @@
    rv2   :> Says("push", "k2", "prod", NoValue, 5, "commit", TRUE) @@
    rev   :> Says("push", "k1", "prod", NoValue, 4, "commit", TRUE) @@
    del   :> Says("workflow_run", "k2", "test", NoValue, 5, "failure", FALSE) @@
    oth   :> Says("other", "k2", "test", NoValue, 6, "", FALSE)

\* Each task carries the delivery of its name, but for the duplicate.
MCTaskDelivery == [t \in Tasks |-> IF t = twice THEN rev ELSE t]

\* What may be in the queue together.
MCQueues == {{rev, twice, dep}, {dep, again, rev}, {dep, sta, chk},
             {wfl, rev, rv2}, {wfl, chk, rev}, {del, oth, sta}}

\* For the liveness run: a deployment with its status, or handed out twice.
MCLiveQueues == {{dep, sta}, {rev, twice}, {dep, chk}}

Symmetry == Permutations(Workers) \cup Permutations(Ids)
=============================================================================
