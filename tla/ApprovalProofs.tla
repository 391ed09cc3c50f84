--------------------------- MODULE ApprovalProofs ---------------------------
(***************************************************************************)
(* Proofs about Approval for any number of calls, deploys, users and keys. *)
(*                                                                         *)
(* EvidenceIsWhole is not inductive: DecideSave writes a row that was read *)
(* earlier.  CallsOK says what such a snapshot still shares with the table *)
(* when it is saved: the row it came from exists, has the same identity,   *)
(* and was pending; and the decision to be written was issued.             *)
(***************************************************************************)
EXTENDS Approval, TLAPS

Blank(row) == [row EXCEPT !.status = "pending", !.approver = NoValue,
                          !.decidedAt = NoValue]

CallsOK ==
    \A c \in Calls : calls[c].pc = "saving" =>
        /\ Exists(calls[c].id)
        /\ calls[c].row = Blank(rows[calls[c].id])
        /\ [id |-> calls[c].id, verdict |-> calls[c].verdict,
            approver |-> calls[c].approver] \in issued

IInv == TypeOK /\ EvidenceIsWhole /\ CallsOK

\* A stored row and the absence of one are never confused.
LEMMA RowExists == ASSUME NEW r \in Row PROVE r # NoRow
  BY ConstantsOK DEF Row, NoRow

\* Each of a call's three states has its own pc, so the pc tells its fields.
LEMMA CallFields ==
    ASSUME NEW k \in CallState
    PROVE  /\ k.pc = "creating" => /\ k.deploy \in Deploys
                                   /\ k.expiresAt \in Nat \cup {NoValue}
           /\ k.pc = "saving" => /\ k.id \in Ids
                                 /\ k.row \in Row
                                 /\ k.readAt \in Nat
                                 /\ k.verdict \in Decisions
                                 /\ k.approver \in Users
           /\ k = Idle => k.pc = "idle"
  BY DEF CallState, Idle

\* What one deciding call writes, given the snapshot it read.
LEMMA DecidedRow ==
    ASSUME NEW k \in CallState, k.pc = "saving", NEW at \in Nat
    PROVE  /\ Decided(k, at) \in Row
           /\ Decided(k, at).status = k.verdict
           /\ Decided(k, at).approver = k.approver
           /\ Decided(k, at).decidedAt = at
           /\ Decided(k, at).deploy = k.row.deploy
           /\ Decided(k, at).expiresAt = k.row.expiresAt
  BY CallFields, ConstantsOK DEF Decided, Row, Statuses

LEMMA BlankRow ==
    ASSUME NEW r \in Row
    PROVE  /\ Blank(r) \in Row
           /\ Blank(r).deploy = r.deploy
           /\ Blank(r).expiresAt = r.expiresAt
           /\ r.status = "pending" /\ r.approver = NoValue
                /\ r.decidedAt = NoValue => r = Blank(r)
  BY DEF Blank, Row, Statuses

LEMMA InitIInv == Init => IInv
  BY ConstantsOK, RowExists
  DEF Init, IInv, TypeOK, EvidenceIsWhole, CallsOK, CallState, Idle, Exists

\* One step per action of Next.
LEMMA NextIInv == IInv /\ [Next]_vars => IInv'
  <1> SUFFICES ASSUME IInv, [Next]_vars PROVE IInv'
    OBVIOUS
  <1>t. TypeOK /\ EvidenceIsWhole /\ CallsOK
    BY DEF IInv
  <1>1. CASE Tick
    BY <1>1, <1>t
    DEF Tick, IInv, TypeOK, EvidenceIsWhole, CallsOK, Exists
  <1>2. ASSUME NEW c \in Calls, NEW d \in Deploys,
               NEW deadline \in Deadlines,
               RequestFind(c, d, deadline)
        PROVE  IInv'
    <2>1. [pc |-> "creating", deploy |-> d, expiresAt |-> deadline] \in CallState
      BY ConstantsOK DEF CallState
    <2>2. TypeOK'
      BY <1>2, <1>t, <2>1 DEF RequestFind, TypeOK
    <2>3. EvidenceIsWhole' /\ CallsOK'
      BY <1>2, <1>t DEF RequestFind, EvidenceIsWhole, CallsOK, Exists, TypeOK
    <2> QED BY <2>2, <2>3 DEF IInv
  <1>3. ASSUME NEW c \in Calls, RequestCreate(c)
        PROVE  IInv'
    <2> DEFINE row == PendingRow(calls[c].deploy, calls[c].expiresAt)
    <2>1. calls[c].pc = "creating" /\ calls[c] \in CallState
      BY <1>3, <1>t DEF RequestCreate, TypeOK
    <2>2. row \in Row /\ row.status = "pending" /\ row.approver = NoValue
            /\ row.decidedAt = NoValue
      BY <2>1, CallFields DEF PendingRow, Row, Statuses
    <2>3. PICK id \in Ids : ~Exists(id) /\ rows' = [rows EXCEPT ![id] = row]
      BY <1>3, ConstantsOK DEF RequestCreate, NewIds
    <2>4. calls' = [calls EXCEPT ![c] = Idle] /\ UNCHANGED <<now, issued>>
      BY <1>3 DEF RequestCreate
    <2> HIDE DEF row
    <2>5. TypeOK'
      BY <1>t, <2>2, <2>3, <2>4 DEF TypeOK, CallState
    <2>6. EvidenceIsWhole'
      BY <1>t, <2>2, <2>3, <2>4 DEF TypeOK, EvidenceIsWhole, Exists
    <2>7. CallsOK'
      <3> SUFFICES ASSUME NEW b \in Calls, calls'[b].pc = "saving"
                   PROVE  /\ Exists(calls[b].id)'
                          /\ calls'[b].row = Blank(rows'[calls'[b].id])
                          /\ [id |-> calls'[b].id, verdict |-> calls'[b].verdict,
                              approver |-> calls'[b].approver] \in issued'
        BY DEF CallsOK
      <3>1. b # c /\ calls'[b] = calls[b]
        BY <2>4, <1>t DEF TypeOK, Idle
      <3>2. calls[b].id # id
        BY <3>1, <1>t, <2>3 DEF CallsOK
      <3>3. calls[b].id \in Ids
        BY <3>1, <1>t, CallFields DEF TypeOK
      <3>4. rows'[calls[b].id] = rows[calls[b].id]
        BY <3>2, <3>3, <2>3, <1>t DEF TypeOK
      <3> QED BY <3>1, <3>4, <2>4, <1>t DEF CallsOK, Exists
    <2> QED BY <2>5, <2>6, <2>7 DEF IInv
  <1>4. ASSUME NEW c \in Calls, NEW id \in Ids, NEW user \in Users,
               NEW verdict \in Decisions, Decide(c, id, verdict, user)
        PROVE  IInv'
    <2> DEFINE k == [pc |-> "saving", id |-> id, row |-> rows[id],
                     readAt |-> now, verdict |-> verdict, approver |-> user]
               i == [id |-> id, verdict |-> verdict, approver |-> user]
    <2>1. /\ calls' = [calls EXCEPT ![c] = k]
          /\ issued' = issued \cup {i}
          /\ UNCHANGED <<rows, now>>
          /\ Exists(id) /\ rows[id].status = "pending"
      BY <1>4 DEF Decide, MayDecide
    <2>2. rows[id] \in Row
      BY <2>1, <1>t DEF TypeOK, Exists
    <2>3. k \in CallState /\ i \in Decision
      BY <2>2, <1>t DEF CallState, Decision, TypeOK
    <2>4. TypeOK'
      BY <2>1, <2>3, <1>t DEF TypeOK
    <2>5. EvidenceIsWhole'
      BY <2>1, <1>t DEF EvidenceIsWhole, Exists
    <2>6. rows[id] = Blank(rows[id])
      BY <2>1, <2>2, <1>t, BlankRow DEF EvidenceIsWhole
    <2>7. CallsOK'
      <3> SUFFICES ASSUME NEW b \in Calls, calls'[b].pc = "saving"
                   PROVE  /\ Exists(calls[b].id)'
                          /\ calls'[b].row = Blank(rows'[calls'[b].id])
                          /\ [id |-> calls'[b].id, verdict |-> calls'[b].verdict,
                              approver |-> calls'[b].approver] \in issued'
        BY DEF CallsOK
      <3>1. CASE b = c
        <4>1. calls'[b] = k
          BY <3>1, <2>1, <1>t DEF TypeOK
        <4> QED BY <4>1, <2>1, <2>6 DEF Exists
      <3>2. CASE b # c
        <4>1. calls'[b] = calls[b]
          BY <3>2, <2>1, <1>t DEF TypeOK
        <4> QED BY <4>1, <2>1, <1>t DEF CallsOK, Exists
      <3> QED BY <3>1, <3>2
    <2> QED BY <2>4, <2>5, <2>7 DEF IInv
  <1>5. ASSUME NEW c \in Calls, DecideSave(c)
        PROVE  IInv'
    <2> DEFINE id == calls[c].id
    <2>1. calls[c].pc = "saving" /\ calls[c] \in CallState
      BY <1>5, <1>t DEF DecideSave, TypeOK
    <2>2. PICK at \in calls[c].readAt .. now :
              rows' = [rows EXCEPT ![id] = Decided(calls[c], at)]
      BY <1>5 DEF DecideSave
    <2>3. calls' = [calls EXCEPT ![c] = Idle] /\ UNCHANGED <<now, issued>>
      BY <1>5 DEF DecideSave
    <2>4. id \in Ids /\ at \in Nat /\ calls[c].verdict \in Decisions
      BY <2>1, <2>2, <1>t, CallFields DEF TypeOK
    <2> DEFINE row == Decided(calls[c], at)
    <2>5. /\ row \in Row
          /\ row.status = calls[c].verdict
          /\ row.approver = calls[c].approver
          /\ row.decidedAt = at
      BY <2>1, <2>4, DecidedRow
    <2>6. rows[id] \in Row
      BY <2>1, <2>4, <1>t DEF CallsOK, TypeOK, Exists
    <2>7. Blank(row) = Blank(rows[id])
      <3>1. calls[c].row = Blank(rows[id])
        BY <2>1, <1>t DEF CallsOK
      <3>2. row = [Blank(rows[id]) EXCEPT !.status = calls[c].verdict,
                        !.approver = calls[c].approver, !.decidedAt = at]
        BY <3>1 DEF Decided
      <3> QED BY <3>2, <2>6, <2>5 DEF Blank, Row
    <2>8. [id |-> id, verdict |-> row.status, approver |-> row.approver] \in issued
      BY <2>1, <2>5, <1>t DEF CallsOK
    <2>9. rows' = [rows EXCEPT ![id] = row]
      BY <2>2
    <2> HIDE DEF row, id
    <2>10. TypeOK'
      BY <1>t, <2>3, <2>5, <2>9 DEF TypeOK, CallState
    <2>11. row.status # "pending" /\ row.decidedAt # NoValue
      BY <2>5, <2>4, ConstantsOK DEF Decisions
    <2>12. EvidenceIsWhole'
      BY <1>t, <2>3, <2>4, <2>8, <2>9, <2>11 DEF TypeOK, EvidenceIsWhole, Exists
    <2>13. CallsOK'
      <3> SUFFICES ASSUME NEW b \in Calls, calls'[b].pc = "saving"
                   PROVE  /\ Exists(calls[b].id)'
                          /\ calls'[b].row = Blank(rows'[calls'[b].id])
                          /\ [id |-> calls'[b].id, verdict |-> calls'[b].verdict,
                              approver |-> calls'[b].approver] \in issued'
        BY DEF CallsOK
      <3>1. b # c /\ calls'[b] = calls[b]
        BY <2>3, <1>t DEF TypeOK, Idle
      <3>2. calls[b].id \in Ids
        BY <3>1, <1>t, CallFields DEF TypeOK
      <3>3. CASE calls[b].id = id
        <4>1. rows'[calls[b].id] = row
          BY <3>2, <3>3, <2>9, <1>t DEF TypeOK
        <4>2. row # NoRow
          BY <2>5, RowExists
        <4> QED BY <3>1, <3>3, <4>1, <4>2, <2>7, <2>3, <1>t DEF CallsOK, Exists
      <3>4. CASE calls[b].id # id
        <4>1. rows'[calls[b].id] = rows[calls[b].id]
          BY <3>2, <3>4, <2>9, <1>t DEF TypeOK
        <4> QED BY <3>1, <4>1, <2>3, <1>t DEF CallsOK, Exists
      <3> QED BY <3>3, <3>4
    <2> QED BY <2>10, <2>12, <2>13 DEF IInv
  <1>6. ASSUME NEW c \in Calls, CallFails(c)
        PROVE  IInv'
    <2>1. calls' = [calls EXCEPT ![c] = Idle] /\ UNCHANGED <<rows, now, issued>>
      BY <1>6 DEF CallFails
    <2>2. TypeOK'
      BY <2>1, <1>t DEF TypeOK, CallState
    <2>3. EvidenceIsWhole' /\ CallsOK'
      BY <2>1, <1>t DEF EvidenceIsWhole, CallsOK, Exists, TypeOK, Idle
    <2> QED BY <2>2, <2>3 DEF IInv
  <1>7. CASE UNCHANGED vars
    BY <1>7, <1>t DEF vars, IInv, TypeOK, EvidenceIsWhole, CallsOK, Exists
  <1> QED
    BY <1>1, <1>2, <1>3, <1>4, <1>5, <1>6, <1>7
    DEF Next, GrantApproval, RejectApproval, Decisions

LEMMA Invariance == Spec => []IInv
  BY InitIInv, NextIInv, PTL DEF Spec

\* Every variable keeps its type, whatever the interleaving of the calls.
THEOREM TypeCorrect == Spec => []TypeOK
  BY Invariance, PTL DEF IInv

\* The evidence of a decision is never a mixture of two overlapping calls.
THEOREM EvidenceCorrect == Spec => []EvidenceIsWhole
  BY Invariance, PTL DEF IInv

-----------------------------------------------------------------------------
\* The two ways a row of the table changes, and nothing else does.
LEMMA RowSteps ==
    ASSUME IInv, [Next]_vars, NEW id \in Ids
    PROVE  \/ rows'[id] = rows[id]
           \/ /\ ~Exists(id)
              /\ rows'[id] \in Row
              /\ rows'[id].status = "pending" /\ rows'[id].approver = NoValue
              /\ ~Conflicts(id, rows'[id])
           \/ \E c \in Calls :
                /\ calls[c].pc = "saving" /\ calls'[c] = Idle
                /\ calls[c].id = id
                /\ calls[c].row = Blank(rows[id])
                /\ Exists(id) /\ rows[id] \in Row /\ rows'[id] \in Row
                /\ rows'[id].status \in Decisions
                /\ rows'[id].approver \in Users
                /\ rows'[id].deploy = rows[id].deploy
                /\ rows'[id].expiresAt = rows[id].expiresAt
                /\ ~Conflicts(id, rows'[id])
  <1>t. TypeOK /\ CallsOK
    BY DEF IInv
  <1>1. ASSUME NEW c \in Calls, RequestCreate(c)
        PROVE  \/ rows'[id] = rows[id]
               \/ /\ ~Exists(id)
                  /\ rows'[id] \in Row
                  /\ rows'[id].status = "pending" /\ rows'[id].approver = NoValue
                  /\ ~Conflicts(id, rows'[id])
    <2> DEFINE row == PendingRow(calls[c].deploy, calls[c].expiresAt)
    <2>1. row \in Row /\ row.status = "pending" /\ row.approver = NoValue
      BY <1>1, <1>t, CallFields DEF RequestCreate, TypeOK, PendingRow, Row, Statuses
    <2>2. PICK new \in Ids : /\ ~Exists(new) /\ ~Conflicts(new, row)
                             /\ rows' = [rows EXCEPT ![new] = row]
      BY <1>1, ConstantsOK DEF RequestCreate, NewIds
    <2> HIDE DEF row
    <2> QED BY <2>1, <2>2, <1>t DEF TypeOK
  <1>2. ASSUME NEW c \in Calls, DecideSave(c), rows'[id] # rows[id]
        PROVE  /\ calls[c].pc = "saving" /\ calls'[c] = Idle
               /\ calls[c].id = id
               /\ calls[c].row = Blank(rows[id])
               /\ Exists(id) /\ rows[id] \in Row /\ rows'[id] \in Row
               /\ rows'[id].status \in Decisions
               /\ rows'[id].approver \in Users
               /\ rows'[id].deploy = rows[id].deploy
               /\ rows'[id].expiresAt = rows[id].expiresAt
               /\ ~Conflicts(id, rows'[id])
    <2>1. calls[c].pc = "saving" /\ calls[c] \in CallState
      BY <1>2, <1>t DEF DecideSave, TypeOK
    <2>2. PICK at \in calls[c].readAt .. now :
            /\ ~Conflicts(calls[c].id, Decided(calls[c], at))
            /\ rows' = [rows EXCEPT ![calls[c].id] = Decided(calls[c], at)]
      BY <1>2 DEF DecideSave
    <2>3. /\ calls[c].id \in Ids /\ at \in Nat
          /\ calls[c].verdict \in Decisions /\ calls[c].approver \in Users
      BY <2>1, <2>2, <1>t, CallFields DEF TypeOK
    <2>4. calls[c].id = id
      BY <1>2, <2>2, <2>3, <1>t DEF TypeOK
    <2>5. rows'[id] = Decided(calls[c], at)
      BY <2>2, <2>3, <2>4, <1>t DEF TypeOK
    <2>6. /\ Decided(calls[c], at) \in Row
          /\ Decided(calls[c], at).status = calls[c].verdict
          /\ Decided(calls[c], at).approver = calls[c].approver
          /\ Decided(calls[c], at).deploy = calls[c].row.deploy
          /\ Decided(calls[c], at).expiresAt = calls[c].row.expiresAt
      BY <2>1, <2>3, DecidedRow
    <2>7. /\ Exists(id) /\ rows[id] \in Row
          /\ calls[c].row = Blank(rows[id])
      BY <2>1, <2>4, <1>t DEF CallsOK, TypeOK, Exists
    <2>8. calls'[c] = Idle
      BY <1>2, <1>t DEF DecideSave, TypeOK
    <2> QED BY <2>1, <2>2, <2>3, <2>4, <2>5, <2>6, <2>7, <2>8, BlankRow
  <1>3. CASE UNCHANGED rows
    BY <1>3
  <1> QED
    BY <1>1, <1>2, <1>3
    DEF Next, vars, Tick, RequestFind, GrantApproval, RejectApproval, Decide,
        CallFails

\* No step of the service changes two rows: each call writes one.
LEMMA OneRowPerStep ==
    ASSUME IInv, [Next]_vars, NEW i \in Ids, NEW j \in Ids,
           rows'[i] # rows[i], rows'[j] # rows[j]
    PROVE  i = j
  <1>1. PICK c \in Calls : RequestCreate(c) \/ DecideSave(c)
    BY DEF Next, vars, Tick, RequestFind, GrantApproval, RejectApproval, Decide,
           CallFails
  <1>2. \E k, row : rows' = [rows EXCEPT ![k] = row]
    BY <1>1 DEF RequestCreate, DecideSave
  <1> QED BY <1>2 DEF IInv, TypeOK

\* The key on deploy and status is what keeps a second open review out, and a
\* second review from being decided like the first.
LEMMA OneOfEachStep == IInv /\ OneOfEachStatus /\ [Next]_vars => OneOfEachStatus'
  <1> SUFFICES ASSUME IInv, OneOfEachStatus, [Next]_vars,
                      NEW i \in Ids, NEW j \in Ids, Exists(i)', Exists(j)',
                      rows'[i].deploy = rows'[j].deploy,
                      rows'[i].status = rows'[j].status, i # j
               PROVE  FALSE
    BY DEF OneOfEachStatus
  <1>1. \A a, b \in Ids :
          a # b /\ rows'[b] = rows[b] /\ Exists(b)
              /\ rows'[b].deploy = rows'[a].deploy
              /\ rows'[b].status = rows'[a].status => Conflicts(a, rows'[a])
    BY DEF Conflicts, RowsOf
  <1>2. CASE rows'[i] = rows[i] /\ rows'[j] = rows[j]
    BY <1>2 DEF OneOfEachStatus, Exists
  <1>3. CASE rows'[i] # rows[i] /\ rows'[j] = rows[j]
    BY <1>1, <1>3, RowSteps DEF Exists
  <1>4. CASE rows'[i] = rows[i] /\ rows'[j] # rows[j]
    BY <1>1, <1>4, RowSteps DEF Exists
  <1>5. CASE rows'[i] # rows[i] /\ rows'[j] # rows[j]
    BY <1>5, OneRowPerStep
  <1> QED BY <1>2, <1>3, <1>4, <1>5

LEMMA OneOfEachInit == Init => OneOfEachStatus
  BY DEF Init, OneOfEachStatus, Exists

\* Under the key of migration 008 no deploy ever has two approvals of one
\* status, however early the check in RequestApproval was made and however late
\* a decision is saved.
THEOREM OneOfEachCorrect == Spec => []OneOfEachStatus
  <1>1. IInv /\ OneOfEachStatus /\ [Next]_vars => OneOfEachStatus'
    BY OneOfEachStep
  <1> QED BY <1>1, OneOfEachInit, Invariance, PTL DEF Spec

\* A late whole-row save never takes a decision back or moves a record.
THEOREM NeverReopenedCorrect == Spec => NeverReopened
  <1>1. IInv /\ [Next]_vars =>
          [\A id \in Ids : Exists(id) =>
            /\ rows'[id].deploy = rows[id].deploy
            /\ rows'[id].expiresAt = rows[id].expiresAt
            /\ rows[id].status # "pending" => rows'[id].status # "pending"]_vars
    BY RowSteps DEF Decisions
  <1> QED BY <1>1, Invariance, PTL DEF Spec, NeverReopened

\* A decided record is only overwritten by a call that read it while pending.
THEOREM OverwritesCorrect == Spec => OverwritesAreOverlaps
  <1>1. IInv /\ [Next]_vars =>
          [\A id \in Ids :
            Exists(id) /\ rows[id].status # "pending" /\ rows'[id] # rows[id]
            => \E c \in Calls :
                    /\ calls[c].pc = "saving" /\ calls'[c] = Idle
                    /\ calls[c].id = id
                    /\ calls[c].row = [rows[id] EXCEPT !.status = "pending",
                                                      !.approver = NoValue,
                                                      !.decidedAt = NoValue]]_vars
    BY RowSteps DEF Blank
  <1> QED BY <1>1, Invariance, PTL DEF Spec, OverwritesAreOverlaps

-----------------------------------------------------------------------------
\* A stored row is the review the ledger sees, in either state of a step.
LEMMA ReviewOfRow ==
    ASSUME NEW id \in Ids
    PROVE  /\ Exists(id) => review[id] = [deploy |-> rows[id].deploy,
                                          status |-> rows[id].status,
                                          approver |-> rows[id].approver]
           /\ Exists(id)' => review'[id] = [deploy |-> rows'[id].deploy,
                                            status |-> rows'[id].status,
                                            approver |-> rows'[id].approver]
           /\ ~Exists(id) => review[id] = Ledger!Unrequested
  BY DEF review, Ledger!Unrequested

\* What the key does not refuse, the ledger has room for.
LEMMA NoConflictIsFree ==
    ASSUME NEW id \in Ids, NEW row \in Row, ~Conflicts(id, row)
    PROVE  Ledger!Free(row.deploy, row.status, id)
  <1> SUFFICES ASSUME NEW other \in Ids, other # id,
                      review[other].deploy = row.deploy
               PROVE  review[other].status # row.status
    BY DEF Ledger!Free
  <1>1. CASE Exists(other)
    <2>1. review[other] = [deploy |-> rows[other].deploy,
                           status |-> rows[other].status,
                           approver |-> rows[other].approver]
      BY <1>1 DEF review
    <2>2. other \in RowsOf(row.deploy) \ {id}
      BY <1>1, <2>1 DEF RowsOf
    <2> QED BY <2>1, <2>2 DEF Conflicts
  <1>2. CASE ~Exists(other)
    <2>1. review[other].status = "none"
      BY <1>2 DEF review
    <2> QED BY <2>1 DEF Row, Statuses, Decisions
  <1> QED BY <1>1, <1>2

LEMMA LedgerInit == Init => Ledger!Init
  BY DEF Init, Ledger!Init, Ledger!Unrequested, review, Exists

\* One row changes in a step.  Created, it opens a review; decided, it closes
\* that review or replaces the decision it held.
LEMMA LedgerStep ==
    ASSUME IInv, [Next]_vars
    PROVE  [Ledger!Next]_review
  <1>1. CASE \A id \in Ids : rows'[id] = rows[id]
    BY <1>1 DEF review, Exists
  <1>2. ASSUME NEW id \in Ids, rows'[id] # rows[id]
        PROVE  Ledger!Next
    <2>1. rows'[id] \in Row /\ ~Conflicts(id, rows'[id])
      BY <1>2, RowSteps
    <2>2. PICK d \in Deploys : d = rows'[id].deploy
      BY <2>1 DEF Row
    <2>3. \A i \in Ids : i # id => rows'[i] = rows[i]
      BY <1>2, OneRowPerStep
    <2>4. Exists(id)'
      BY <2>1, RowExists DEF Exists
    <2> DEFINE new == [deploy |-> d, status |-> rows'[id].status,
                       approver |-> rows'[id].approver]
    <2>5. review' = [review EXCEPT ![id] = new]
      <3>1. review'[id] = new
        BY <2>2, <2>4, ReviewOfRow
      <3>2. \A i \in Ids : i # id => review'[i] = review[i]
        BY <2>3 DEF review, Exists
      <3> QED BY <3>1, <3>2 DEF review
    <2>6. Ledger!Free(d, rows'[id].status, id)
      BY <2>1, <2>2, NoConflictIsFree
    <2>7. CASE ~Exists(id)
      <3>1. review[id] = Ledger!Unrequested
        BY <2>7, ReviewOfRow
      <3>2. new = Ledger!Open(d) /\ rows'[id].status = "pending"
        BY <1>2, <2>7, RowSteps DEF Ledger!Open
      <3> HIDE DEF new
      <3>3. Ledger!Request(id, d)
        BY <3>1, <3>2, <2>5, <2>6 DEF Ledger!Request
      <3> QED BY <3>3 DEF Ledger!Next
    <2>8. CASE Exists(id)
      <3>1. /\ rows'[id].status \in Decisions
            /\ rows'[id].approver \in Users
            /\ rows[id] \in Row
            /\ rows[id].deploy = d
        BY <1>2, <2>2, <2>8, RowSteps
      <3>2. review[id] = [deploy |-> d, status |-> rows[id].status,
                          approver |-> rows[id].approver]
        BY <2>8, <3>1, ReviewOfRow
      <3>3. PICK verdict \in Ledger!Verdicts, user \in Users :
               new = Ledger!Decided(d, verdict, user)
                 /\ verdict = rows'[id].status
        BY <3>1 DEF Ledger!Verdicts, Decisions, Ledger!Decided
      <3> HIDE DEF new
      <3>4. EvidenceIsWhole /\ issued \subseteq Decision
        BY DEF IInv, TypeOK
      <3>5. CASE rows[id].status = "pending"
        <4>1. review[id] = Ledger!Open(d)
          BY <2>8, <3>2, <3>4, <3>5 DEF EvidenceIsWhole, Ledger!Open
        <4>2. Ledger!Close(id, d, verdict, user)
          BY <4>1, <3>3, <2>5, <2>6 DEF Ledger!Close
        <4> QED BY <4>2, <3>3 DEF Ledger!Next
      <3>6. CASE rows[id].status # "pending"
        <4>1. [id |-> id, verdict |-> rows[id].status,
               approver |-> rows[id].approver] \in Decision
          BY <2>8, <3>4, <3>6 DEF EvidenceIsWhole
        <4>2. rows[id].status \in Decisions /\ rows[id].approver \in Users
          BY <4>1 DEF Decision
        <4>3. review[id] = Ledger!Decided(d, rows[id].status, rows[id].approver)
          BY <3>2 DEF Ledger!Decided
        <4>4. \E v \in Ledger!Verdicts, u \in Users :
                 review[id] = Ledger!Decided(d, v, u)
          BY <4>2, <4>3 DEF Ledger!Verdicts, Decisions
        <4>5. Ledger!Replace(id, d, verdict, user)
          BY <4>4, <3>3, <2>5, <2>6 DEF Ledger!Replace
        <4> QED BY <4>5, <3>3 DEF Ledger!Next
      <3> QED BY <3>5, <3>6
    <2> QED BY <2>7, <2>8
  <1> QED BY <1>1, <1>2

\* The service implements the ledger, whatever calls overlap: every row that
\* appears opens a review, every save closes one or replaces its decision
\* whole, and no other step is visible.
THEOREM LedgerCorrect == Spec => KeepsTheLedger
  <1>1. IInv /\ [Next]_vars => [Ledger!Next]_review
    BY LedgerStep
  <1> QED BY <1>1, LedgerInit, Invariance, PTL
          DEF Spec, KeepsTheLedger, Ledger!Spec

-----------------------------------------------------------------------------
\* With calls that never overlap, what a deciding call read is still in the
\* table when it saves.
Fresh == \A c \in Calls : calls[c].pc = "saving" =>
            /\ rows[calls[c].id] = calls[c].row
            /\ calls[c].row.status = "pending"

\* The overlap is all that breaks the promise on the model: if there is at most
\* one call at a time, a granted or rejected record is never updated.
THEOREM SerialDecisionsAreFinal ==
    ASSUME \A b, c \in Calls : b = c
    PROVE  Spec => DecidedIsFinal
  <1>1. Init => Fresh
    BY DEF Init, Fresh, Idle
  <1>2. IInv /\ Fresh /\ [Next]_vars => Fresh'
    <2> SUFFICES ASSUME IInv, Fresh, [Next]_vars,
                        NEW c \in Calls, calls'[c].pc = "saving"
                 PROVE  /\ rows'[calls'[c].id] = calls'[c].row
                        /\ calls'[c].row.status = "pending"
      BY DEF Fresh
    <2>t. TypeOK
      BY DEF IInv
    <2>1. CASE UNCHANGED <<rows, calls>>
      BY <2>1 DEF Fresh
    <2>2. ASSUME NEW id \in Ids, NEW user \in Users, NEW verdict \in Decisions,
                 Decide(c, id, verdict, user)
          PROVE  /\ rows'[calls'[c].id] = calls'[c].row
                 /\ calls'[c].row.status = "pending"
      BY <2>2, <2>t DEF Decide, MayDecide, TypeOK
    <2>3. ASSUME NEW d, NEW deadline, RequestFind(c, d, deadline)
          PROVE  FALSE
      BY <2>3, <2>t DEF RequestFind, TypeOK
    <2>4. CASE RequestCreate(c) \/ DecideSave(c) \/ CallFails(c)
      BY <2>4, <2>t DEF RequestCreate, DecideSave, CallFails, TypeOK, Idle
    <2> QED
      BY <2>1, <2>2, <2>3, <2>4
      DEF Next, vars, Tick, GrantApproval, RejectApproval, Decisions
  <1>3. IInv /\ Fresh /\ [Next]_vars =>
          [\A id \in Ids : Exists(id) /\ rows[id].status # "pending" =>
              rows'[id] = rows[id]]_vars
    BY RowSteps DEF Fresh
  <1> QED BY <1>1, <1>2, <1>3, Invariance, PTL DEF Spec, DecidedIsFinal
=============================================================================
