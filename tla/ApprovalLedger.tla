--------------------------- MODULE ApprovalLedger ---------------------------
(***************************************************************************)
(* What the approval domain promises an auditor, with no rows, no keys and *)
(* no overlapping calls: a review of a deploy is opened, once at a time,   *)
(* somebody decides it, and a decision is never taken back.                *)
(*                                                                         *)
(* Two calls may decide the same review at the same time.  The later       *)
(* decision then replaces the earlier one, whole; Replace is that step.  A *)
(* deploy may be reviewed again, but not to the same verdict.              *)
(***************************************************************************)
CONSTANTS Reviews, Deploys, Users, NoValue

VARIABLE review

Unrequested == [deploy |-> NoValue, status |-> "none", approver |-> NoValue]
Open(d) == [deploy |-> d, status |-> "pending", approver |-> NoValue]
Decided(d, verdict, user) ==
    [deploy |-> d, status |-> verdict, approver |-> user]

Verdicts == {"granted", "rejected"}

\* No review of d but r has that status.
Free(d, status, r) ==
    \A other \in Reviews \ {r} :
        review[other].deploy = d => review[other].status # status

Init == review = [r \in Reviews |-> Unrequested]

Request(r, d) ==
    /\ review[r] = Unrequested
    /\ Free(d, "pending", r)
    /\ review' = [review EXCEPT ![r] = Open(d)]

Close(r, d, verdict, user) ==
    /\ review[r] = Open(d)
    /\ Free(d, verdict, r)
    /\ review' = [review EXCEPT ![r] = Decided(d, verdict, user)]

Replace(r, d, verdict, user) ==
    /\ \E v \in Verdicts, u \in Users : review[r] = Decided(d, v, u)
    /\ Free(d, verdict, r)
    /\ review' = [review EXCEPT ![r] = Decided(d, verdict, user)]

Next == \E r \in Reviews, d \in Deploys :
    \/ Request(r, d)
    \/ \E verdict \in Verdicts, user \in Users :
          Close(r, d, verdict, user) \/ Replace(r, d, verdict, user)

Spec == Init /\ [][Next]_review
=============================================================================
