----------------------- MODULE DeployIngestionProofs -----------------------
(***************************************************************************)
(* Proofs about DeployIngestion for any number of workers, tasks,          *)
(* deliveries, keys and retries, whatever the deliveries say.              *)
(*                                                                         *)
(* None of the invariants is inductive alone.  OneOwner says that a        *)
(* delivery is processed by at most one worker, ever: recording it is what *)
(* makes a worker its owner.  CallOK says what a worker inside the service *)
(* can still rely on: its delivery has no row until it creates one, a row  *)
(* it read is stored still, with the same origin and revert link, and each *)
(* field of its copy was said by a recorded delivery.                      *)
(*                                                                         *)
(* The workers implement DeliveryLog: Pending says that a delivery is not  *)
(* settled while it has an owner.                                          *)
(***************************************************************************)
EXTENDS DeployIngestion, TLAPS

Owns(w) == At(w, "dispatch") \/ At(w, "serve")

InService == {"exists", "lookup", "create", "status", "ci"}

\* The worker may still create the row of its delivery.
Unsaved(w) == At(w, "dispatch") \/ svc[w].pc \in {"exists", "lookup", "create"}

\* A copy of a row that a worker read.
Kept(found) ==
    /\ Exists(found.id)
    /\ deploys[found.id].from = found.row.from
    /\ deploys[found.id].reverts = found.row.reverts
    /\ Witnessed(found.row)

CallOK(w) ==
    /\ Owns(w) => delivery[D(w)] # "absent"
    /\ svc[w].pc \in InService => svc[w].req = D(w)
    /\ Unsaved(w) => \A id \in Ids : deploys[id].from # D(w)
    /\ svc[w].pc = "create" /\ svc[w].reverts # NoValue =>
        /\ Exists(svc[w].reverts)
        /\ EventOf(svc[w].reverts).env = Event[svc[w].req].env
    /\ svc[w].pc = "status" =>
        /\ Event[svc[w].req].kind = "deployment_status"
        /\ Event[svc[w].found.row.from].ghId = Event[svc[w].req].ghId
        /\ Kept(svc[w].found)
    /\ svc[w].pc = "ci" =>
        /\ Event[svc[w].req].kind = "check_suite"
        /\ \A f \in svc[w].todo :
            /\ Event[f.row.from].commit = Event[svc[w].req].commit
            /\ Kept(f)
    /\ svc[w].pc = "returned" /\ ~svc[w].err /\ Ingests(Event[D(w)]) =>
        \E id \in Ids : deploys[id].from = D(w)

OneOwner ==
    \A v, w \in Workers : Owns(v) /\ Owns(w) /\ D(v) = D(w) => v = w

RowsOK ==
    /\ \A id \in Ids : Exists(id) => delivery[deploys[id].from] # "absent"
    /\ UniqueDeployment
    /\ OneRowPerDelivery
    /\ ProcessedMeansStored
    /\ RevertsAnEarlierDeploy
    /\ FieldsAreWitnessed

IInv == TypeOK /\ OneOwner /\ RowsOK /\ \A w \in Workers : CallOK(w)

\* What no step takes back.
Grows ==
    /\ \A id \in Ids : Exists(id) =>
        /\ Exists(id)'
        /\ deploys'[id].from = deploys[id].from
        /\ deploys'[id].reverts = deploys[id].reverts
    /\ \A d \in Deliveries : delivery[d] # "absent" => delivery'[d] # "absent"
-----------------------------------------------------------------------------
\* A stored row and the absence of one are never confused, and a row that is
\* not stored comes from no delivery.
LEMMA RowExists ==
    ASSUME TypeOK
    PROVE  /\ \A r \in Row : r # NoRow
           /\ \A id \in Ids : Exists(id) => deploys[id] \in Row
           /\ \A id \in Ids : ~Exists(id) => deploys[id].from \notin Deliveries
           /\ \A id \in Ids : Exists(id) => deploys[id].from \in Deliveries
           /\ NoValue \notin Ids
  <1>1. \A r \in Row : r # NoRow
    BY EventsOK DEF Row, NoRow
  <1>2. \A id \in Ids : Exists(id) => deploys[id] \in Row
    BY DEF TypeOK, Exists
  <1>3. NoRow.from \notin Deliveries
    BY EventsOK DEF NoRow
  <1> QED BY <1>1, <1>2, <1>3, EventsOK DEF Exists, Row

\* Each state inside the service has its own pc, so the pc tells its fields.
LEMMA SvcFields ==
    ASSUME NEW k \in SvcState
    PROVE  /\ k.pc \in InService => k.req \in Deliveries
           /\ k.pc = "create" => k.reverts \in Ids \cup {NoValue}
           /\ k.pc = "status" => k.found \in Found
           /\ k.pc = "ci" => k.todo \in SUBSET Found
           /\ k.pc = "returned" => k.err \in BOOLEAN
           /\ k.pc \in InService \cup {"returned"} => k # Free
           /\ k = Free => k.pc = "free"
  BY DEF SvcState, InService, Free

LEMMA FoundFields ==
    ASSUME NEW f \in Found
    PROVE  f.id \in Ids /\ f.row \in Row
  BY DEF Found

\* A worker that is not idle carries a task, and so a delivery.
LEMMA WorkFields ==
    ASSUME NEW k \in WorkState
    PROVE  /\ k # Idle => k.task \in Tasks /\ TaskDelivery[k.task] \in Deliveries
           /\ k.pc # "idle" => k # Idle
           /\ k = Idle => k.pc = "idle"
           /\ k.pc = "ack" => k.err \in BOOLEAN
  BY TasksOK DEF WorkState, Idle

LEMMA OwnerFields ==
    ASSUME TypeOK, NEW w \in Workers, Owns(w)
    PROVE  work[w].task \in Tasks /\ D(w) \in Deliveries
  BY WorkFields DEF TypeOK, Owns, At, D

\* Only a worker that owns its delivery is inside the service.
LEMMA ServiceOwns ==
    ASSUME TypeOK, NEW w \in Workers, svc[w] # Free
    PROVE  At(w, "serve") /\ Owns(w) /\ D(w) \in Deliveries
  BY OwnerFields DEF TypeOK, Owns

\* The states a worker leaves the service in or returns from.
LEMMA ReturnedType ==
    ASSUME NEW b \in BOOLEAN
    PROVE  /\ Returned(b) \in SvcState
           /\ Returned(b).pc = "returned"
           /\ Returned(b).err = b
           /\ Returned(b).pc \notin InService
  BY DEF Returned, SvcState, InService

LEMMA FinishedType ==
    ASSUME TypeOK, NEW w \in Workers, work[w] # Idle, NEW b \in BOOLEAN
    PROVE  Finished(w, b) \in WorkState /\ Finished(w, b).pc = "ack"
  BY WorkFields DEF TypeOK, Finished, WorkState

LEMMA SettledType ==
    ASSUME NEW t \in Task, NEW b \in BOOLEAN
    PROVE  Settled(t, b) \in Task
  BY TasksOK DEF Task, TaskStates, Settled
-----------------------------------------------------------------------------
\* A row stays witnessed as deliveries are recorded.
LEMMA WitnessKept ==
    ASSUME NEW row \in Row, Grows, Witnessed(row)
    PROVE  Witnessed(row)'
  BY DEF Grows, Witnessed

LEMMA KeptKept ==
    ASSUME NEW f \in Found, Grows, Kept(f)
    PROVE  Kept(f)'
  <1>1. f.id \in Ids /\ f.row \in Row
    BY FoundFields
  <1>2. Witnessed(f.row)'
    BY <1>1, WitnessKept DEF Kept
  <1> QED BY <1>1, <1>2 DEF Kept, Grows

\* A worker is not disturbed by a step of another, unless that step makes a row
\* of its delivery.
LEMMA Undisturbed ==
    ASSUME IInv, Grows, NEW v \in Workers,
           svc'[v] = svc[v], work'[v] = work[v],
           Owns(v) => \A id \in Ids :
               deploys'[id].from = D(v) => deploys[id].from = D(v)
    PROVE  CallOK(v)'
  <1>t. TypeOK /\ CallOK(v)
    BY DEF IInv
  <1>s. svc[v] \in SvcState
    BY <1>t DEF TypeOK
  <1>0. D(v)' = D(v) /\ (Owns(v)' <=> Owns(v)) /\ (Unsaved(v)' <=> Unsaved(v))
    BY DEF D, Owns, Unsaved, At
  <1>1. (Owns(v) => delivery[D(v)] # "absent")'
    BY <1>t, <1>0, OwnerFields DEF CallOK, Grows
  <1>2. (svc[v].pc \in InService => svc[v].req = D(v))'
    BY <1>t, <1>0 DEF CallOK
  <1>3. (Unsaved(v) => \A id \in Ids : deploys[id].from # D(v))'
    <2>1. Unsaved(v) => Owns(v)
      BY <1>t, <1>s, ServiceOwns, SvcFields DEF Unsaved, Owns, InService
    <2> QED BY <1>t, <1>0, <2>1 DEF CallOK
  <1>4. (svc[v].pc = "create" /\ svc[v].reverts # NoValue =>
            /\ Exists(svc[v].reverts)
            /\ EventOf(svc[v].reverts).env = Event[svc[v].req].env)'
    BY <1>t, <1>s, SvcFields DEF CallOK, Grows, Exists, EventOf
  <1>5. (svc[v].pc = "status" =>
            /\ Event[svc[v].req].kind = "deployment_status"
            /\ Event[svc[v].found.row.from].ghId = Event[svc[v].req].ghId
            /\ Kept(svc[v].found))'
    <2> SUFFICES ASSUME svc[v].pc = "status"
                 PROVE  /\ Event[svc[v].req].kind = "deployment_status"
                        /\ Event[svc[v].found.row.from].ghId
                                = Event[svc[v].req].ghId
                        /\ Kept(svc[v].found)'
      BY DEF Kept
    <2> QED BY <1>t, <1>s, SvcFields, KeptKept DEF CallOK
  <1>6. (svc[v].pc = "ci" =>
            /\ Event[svc[v].req].kind = "check_suite"
            /\ \A f \in svc[v].todo :
                /\ Event[f.row.from].commit = Event[svc[v].req].commit
                /\ Kept(f))'
    <2> SUFFICES ASSUME svc[v].pc = "ci"
                 PROVE  /\ Event[svc[v].req].kind = "check_suite"
                        /\ \A f \in svc[v].todo :
                            /\ Event[f.row.from].commit = Event[svc[v].req].commit
                            /\ Kept(f)'
      OBVIOUS
    <2> QED BY <1>t, <1>s, SvcFields, KeptKept DEF CallOK
  <1>7. (svc[v].pc = "returned" /\ ~svc[v].err /\ Ingests(Event[D(v)]) =>
            \E id \in Ids : deploys[id].from = D(v))'
    <2> SUFFICES ASSUME svc[v].pc = "returned", ~svc[v].err, Ingests(Event[D(v)])
                 PROVE  \E id \in Ids : deploys'[id].from = D(v)
      BY <1>0
    <2>1. PICK id \in Ids : deploys[id].from = D(v)
      BY <1>t DEF CallOK
    <2>2. D(v) \in Deliveries
      BY <1>t, <1>s, ServiceOwns, SvcFields
    <2>3. Exists(id)
      BY <1>t, <2>1, <2>2, RowExists
    <2> QED BY <2>1, <2>3 DEF Grows
  <1> QED BY <1>1, <1>2, <1>3, <1>4, <1>5, <1>6, <1>7 DEF CallOK
-----------------------------------------------------------------------------
\* The table does not change, and a delivery becomes "processed" only when its
\* row is there.
LEMMA RowsUntouched ==
    ASSUME IInv, deploys' = deploys, Grows,
           \A d \in Deliveries : delivery'[d] = "processed" /\ Ingests(Event[d])
                => delivery[d] = "processed" \/ \E id \in Ids : deploys[id].from = d
    PROVE  RowsOK'
  <1>t. TypeOK /\ RowsOK
    BY DEF IInv
  <1>1. (\A id \in Ids : Exists(id) => delivery[deploys[id].from] # "absent")'
    BY <1>t, RowExists DEF RowsOK, Exists, Grows
  <1>2. UniqueDeployment' /\ OneRowPerDelivery' /\ RevertsAnEarlierDeploy'
    BY <1>t DEF RowsOK, UniqueDeployment, OneRowPerDelivery,
                RevertsAnEarlierDeploy, Exists, EventOf
  <1>3. ProcessedMeansStored'
    BY <1>t DEF RowsOK, ProcessedMeansStored
  <1>4. FieldsAreWitnessed'
    <2> SUFFICES ASSUME NEW id \in Ids, Exists(id)
                 PROVE  Witnessed(deploys[id])'
      BY DEF FieldsAreWitnessed, Exists
    <2>1. Witnessed(deploys[id]) /\ deploys[id] \in Row
      BY <1>t, RowExists DEF RowsOK, FieldsAreWitnessed
    <2> QED BY <2>1 DEF Witnessed, Grows
  <1> QED BY <1>1, <1>2, <1>3, <1>4 DEF RowsOK

\* A whole-row save of a copy with the same origin and link, and fields that
\* were said.
LEMMA RowSaved ==
    ASSUME IInv, NEW i \in Ids, NEW row \in Row, Exists(i),
           row.from = deploys[i].from, row.reverts = deploys[i].reverts,
           Witnessed(row),
           deploys' = [deploys EXCEPT ![i] = row], delivery' = delivery
    PROVE  /\ RowsOK'
           /\ Grows
           /\ \A id \in Ids : deploys'[id].from = deploys[id].from
           /\ deploys' \in [Ids -> Row \cup {NoRow}]
  <1>t. TypeOK /\ RowsOK
    BY DEF IInv
  <1>1. \A id \in Ids : /\ deploys'[id].from = deploys[id].from
                        /\ Exists(id)' <=> Exists(id)
                        /\ Exists(id) => deploys'[id].reverts = deploys[id].reverts
    BY <1>t, RowExists DEF TypeOK, Exists
  <1>2. Grows
    BY <1>1 DEF Grows
  <1>3. (\A id \in Ids : Exists(id) => delivery[deploys[id].from] # "absent")'
    BY <1>t, <1>1 DEF RowsOK
  <1>4. UniqueDeployment' /\ OneRowPerDelivery'
    BY <1>t, <1>1 DEF RowsOK, UniqueDeployment, OneRowPerDelivery, EventOf
  <1>5. ProcessedMeansStored'
    BY <1>t, <1>1 DEF RowsOK, ProcessedMeansStored
  <1>6. RevertsAnEarlierDeploy'
    <2> SUFFICES ASSUME NEW id \in Ids, Exists(id), NEW target,
                        target = deploys[id].reverts, target # NoValue
                 PROVE  /\ Exists(target)'
                        /\ EventOf(target)'.env = EventOf(id)'.env
                        /\ target # id /\ deploys'[target].reverts # id
      BY <1>1 DEF RevertsAnEarlierDeploy, Exists, EventOf
    <2>1. target \in Ids
      BY <1>t, RowExists DEF Row
    <2> QED BY <2>1, <1>1, <1>t DEF RowsOK, RevertsAnEarlierDeploy, EventOf
  <1>7. FieldsAreWitnessed'
    <2> SUFFICES ASSUME NEW id \in Ids, Exists(id)
                 PROVE  Witnessed(deploys[id])'
      BY <1>1 DEF FieldsAreWitnessed
    <2>1. CASE id = i
      BY <2>1, <1>t DEF Witnessed, TypeOK
    <2>2. CASE id # i
      BY <2>2, <1>t DEF Witnessed, TypeOK, RowsOK, FieldsAreWitnessed
    <2> QED BY <2>1, <2>2
  <1> QED BY <1>1, <1>2, <1>3, <1>4, <1>5, <1>6, <1>7, <1>t DEF RowsOK, TypeOK

\* A new row of a recorded delivery that had none, with a GitHub deployment id
\* that no row has and a link to a stored row of its environment.
LEMMA RowInserted ==
    ASSUME IInv, NEW i \in Ids, NEW d \in Deliveries,
           NEW reverts \in Ids \cup {NoValue},
           ~Exists(i), delivery[d] # "absent",
           \A id \in Ids : deploys[id].from # d,
           ~GitHubIdTaken(Event[d].ghId),
           reverts # NoValue => /\ Exists(reverts)
                                /\ EventOf(reverts).env = Event[d].env,
           deploys' = [deploys EXCEPT ![i] = NewRow(d, reverts)],
           delivery' = delivery
    PROVE  /\ RowsOK'
           /\ Grows
           /\ deploys' \in [Ids -> Row \cup {NoRow}]
           /\ deploys'[i].from = d
           /\ \A id \in Ids \ {i} : deploys'[id] = deploys[id]
  <1>t. TypeOK /\ RowsOK
    BY DEF IInv
  <1> DEFINE new == NewRow(d, reverts)
  <1>r. /\ new \in Row /\ new.from = d /\ new.reverts = reverts
        /\ new.outcome = "unknown" /\ new.ci = "unknown"
    BY EventsOK DEF NewRow, Row, Outcomes, CIStatuses
  <1>1. deploys'[i] = new /\ \A id \in Ids \ {i} : deploys'[id] = deploys[id]
    BY <1>t DEF TypeOK
  <1> HIDE DEF new
  <1>2. \A id \in Ids : Exists(id)' <=> Exists(id) \/ id = i
    BY <1>1, <1>r, <1>t, RowExists DEF Exists
  <1>3. Grows
    BY <1>1, <1>2 DEF Grows
  <1>4. (\A id \in Ids : Exists(id) => delivery[deploys[id].from] # "absent")'
    BY <1>t, <1>1, <1>2, <1>r DEF RowsOK
  <1>5. OneRowPerDelivery'
    BY <1>t, <1>1, <1>2, <1>r DEF RowsOK, OneRowPerDelivery
  <1>6. UniqueDeployment'
    <2> SUFFICES ASSUME NEW j \in Ids, NEW k \in Ids, Exists(j)', Exists(k)',
                        EventOf(j)'.ghId # NoValue,
                        EventOf(j)'.ghId = EventOf(k)'.ghId
                 PROVE  j = k
      BY DEF UniqueDeployment
    <2>1. \A id \in Ids : Exists(id) /\ Event[d].ghId # NoValue
                            => EventOf(id).ghId # Event[d].ghId
      BY DEF GitHubIdTaken, WithGitHubId
    <2> QED BY <2>1, <1>t, <1>1, <1>2, <1>r DEF RowsOK, UniqueDeployment, EventOf
  <1>7. ProcessedMeansStored'
    <2> SUFFICES ASSUME NEW e \in Deliveries, delivery[e] = "processed",
                        Ingests(Event[e])
                 PROVE  \E id \in Ids : deploys'[id].from = e
      BY DEF ProcessedMeansStored
    <2>1. PICK id \in Ids : deploys[id].from = e
      BY <1>t DEF RowsOK, ProcessedMeansStored
    <2>2. Exists(id)
      BY <2>1, <1>t, RowExists
    <2> QED BY <2>1, <2>2, <1>1
  <1>8. RevertsAnEarlierDeploy'
    <2> SUFFICES ASSUME NEW id \in Ids, Exists(id)', NEW target,
                        target = deploys'[id].reverts, target # NoValue
                 PROVE  /\ Exists(target)'
                        /\ EventOf(target)'.env = EventOf(id)'.env
                        /\ target # id /\ deploys'[target].reverts # id
      BY DEF RevertsAnEarlierDeploy, Exists, EventOf
    <2>1. CASE id = i
      <3>1. reverts \in Ids /\ Exists(reverts) /\ reverts # i
            /\ target = reverts
        BY <2>1, <1>1, <1>r
      <3>2. deploys[reverts].reverts # i
        BY <3>1, <1>t, RowExists DEF RowsOK, RevertsAnEarlierDeploy
      <3> QED BY <2>1, <3>1, <3>2, <1>1, <1>2, <1>r DEF EventOf
    <2>2. CASE id # i
      <3>1. Exists(id) /\ deploys'[id] = deploys[id]
        BY <2>2, <1>1, <1>2
      <3>2. target = deploys[id].reverts /\ target \in Ids
        BY <3>1, <1>t, RowExists DEF Row
      <3>3. Exists(target) /\ target # i
        BY <3>1, <3>2, <1>t DEF RowsOK, RevertsAnEarlierDeploy
      <3> QED BY <3>1, <3>2, <3>3, <1>t, <1>1, <1>2
              DEF RowsOK, RevertsAnEarlierDeploy, EventOf
    <2> QED BY <2>1, <2>2
  <1>9. FieldsAreWitnessed'
    <2> SUFFICES ASSUME NEW id \in Ids, Exists(id)'
                 PROVE  Witnessed(deploys[id])'
      BY DEF FieldsAreWitnessed
    <2>1. CASE id = i
      BY <2>1, <1>1, <1>r DEF Witnessed
    <2>2. CASE id # i
      BY <2>2, <1>1, <1>2, <1>t DEF Witnessed, RowsOK, FieldsAreWitnessed
    <2> QED BY <2>1, <2>2
  <1> QED BY <1>1, <1>3, <1>4, <1>5, <1>6, <1>7, <1>8, <1>9, <1>r, <1>t
          DEF RowsOK, TypeOK, new
-----------------------------------------------------------------------------
LEMMA SameGrows == ASSUME deploys' = deploys, delivery' = delivery PROVE Grows
  BY DEF Grows, Exists

\* A worker that goes to a state in which it owns nothing.
LEMMA Leaves ==
    ASSUME IInv, Grows, NEW w \in Workers, NEW x \in WorkState,
           x.pc \notin {"dispatch", "serve"},
           work' = [work EXCEPT ![w] = x], svc' = [svc EXCEPT ![w] = Free],
           deploys' = deploys
    PROVE  /\ OneOwner'
           /\ \A v \in Workers : CallOK(v)'
           /\ svc' \in [Workers -> SvcState]
           /\ work' \in [Workers -> WorkState]
           /\ \A v \in Workers : svc'[v] # Free => At(v, "serve")'
  <1>t. TypeOK /\ OneOwner
    BY DEF IInv
  <1>1. /\ work'[w] = x /\ svc'[w] = Free
        /\ \A v \in Workers \ {w} : work'[v] = work[v] /\ svc'[v] = svc[v]
    BY <1>t DEF TypeOK
  <1>2. svc' \in [Workers -> SvcState] /\ work' \in [Workers -> WorkState]
    BY <1>t DEF TypeOK, SvcState
  <1>3. \A v \in Workers : svc'[v] # Free => At(v, "serve")'
    BY <1>1, <1>t DEF TypeOK, At
  <1>4. ~Owns(w)'
    BY <1>1 DEF Owns, At
  <1>5. OneOwner'
    BY <1>1, <1>4, <1>t DEF OneOwner, Owns, At, D
  <1>6. ASSUME NEW v \in Workers PROVE CallOK(v)'
    <2>1. CASE v = w
      <3>1. ~Unsaved(w)' /\ svc'[w].pc = "free"
        BY <1>1, <1>4, SvcFields DEF Unsaved, Owns, Free
      <3> QED BY <2>1, <3>1, <1>4 DEF CallOK, InService
    <2>2. CASE v # w
      BY <2>2, <1>1, Undisturbed
    <2> QED BY <2>1, <2>2
  <1> QED BY <1>2, <1>3, <1>5, <1>6

\* A worker that owns its delivery goes on, or starts, to serve it.
LEMMA Serves ==
    ASSUME IInv, Grows, NEW w \in Workers, NEW k \in SvcState, Owns(w),
           work' = [work EXCEPT ![w] = [pc |-> "serve", task |-> work[w].task]],
           svc' = [svc EXCEPT ![w] = k],
           \A id \in Ids : \/ deploys'[id].from = deploys[id].from
                           \/ deploys'[id].from = D(w),
           CallOK(w)'
    PROVE  /\ OneOwner'
           /\ \A v \in Workers : CallOK(v)'
           /\ svc' \in [Workers -> SvcState]
           /\ work' \in [Workers -> WorkState]
           /\ \A v \in Workers : svc'[v] # Free => At(v, "serve")'
  <1>t. TypeOK /\ OneOwner
    BY DEF IInv
  <1>1. /\ work'[w] = [pc |-> "serve", task |-> work[w].task] /\ svc'[w] = k
        /\ \A v \in Workers \ {w} : work'[v] = work[v] /\ svc'[v] = svc[v]
    BY <1>t DEF TypeOK
  <1>2. [pc |-> "serve", task |-> work[w].task] \in WorkState
    BY <1>t, OwnerFields DEF WorkState
  <1>3. svc' \in [Workers -> SvcState] /\ work' \in [Workers -> WorkState]
    BY <1>2, <1>t DEF TypeOK
  <1>4. \A v \in Workers : svc'[v] # Free => At(v, "serve")'
    BY <1>1, <1>t DEF TypeOK, At
  <1>5. \A v \in Workers : D(v)' = D(v) /\ (Owns(v)' <=> Owns(v))
    BY <1>1 DEF D, Owns, At
  <1>6. OneOwner'
    BY <1>5, <1>t DEF OneOwner
  <1>7. ASSUME NEW v \in Workers, v # w PROVE CallOK(v)'
    <2>1. Owns(v) => D(v) # D(w)
      BY <1>7, <1>t DEF OneOwner
    <2> QED BY <2>1, <1>1, <1>7, Undisturbed
  <1> QED BY <1>3, <1>4, <1>6, <1>7

\* asynq's bookkeeping of a task keeps its type.
LEMMA SettleType ==
    ASSUME TypeOK, NEW t \in Tasks, NEW b \in BOOLEAN, Settle(t, b)
    PROVE  tasks' \in [Tasks -> Task]
  BY SettledType DEF TypeOK, Settle

\* The steps in which a worker owns nothing afterwards and no table changes.
LEMMA LeavingSteps ==
    ASSUME IInv, NEW w \in Workers, NEW x \in WorkState,
           x.pc \notin {"dispatch", "serve"},
           work' = [work EXCEPT ![w] = x], svc' = [svc EXCEPT ![w] = Free],
           deploys' = deploys, delivery' = delivery, tasks' \in [Tasks -> Task]
    PROVE  IInv'
  <1>t. TypeOK
    BY DEF IInv
  <1>1. Grows
    BY SameGrows
  <1>2. RowsOK'
    BY <1>1, RowsUntouched
  <1>3. /\ OneOwner' /\ \A v \in Workers : CallOK(v)'
        /\ svc' \in [Workers -> SvcState] /\ work' \in [Workers -> WorkState]
        /\ \A v \in Workers : svc'[v] # Free => At(v, "serve")'
    BY <1>1, Leaves
  <1>4. TypeOK'
    BY <1>3, <1>t DEF TypeOK
  <1> QED BY <1>2, <1>3, <1>4 DEF IInv

\* A worker that does not serve is not inside the service.
LEMMA NotServing ==
    ASSUME TypeOK, NEW w \in Workers, ~At(w, "serve")
    PROVE  svc[w] = Free /\ svc = [svc EXCEPT ![w] = Free]
  BY DEF TypeOK
-----------------------------------------------------------------------------
\* The worker's own steps.

LEMMA DequeueIInv ==
    ASSUME IInv, NEW w \in Workers, NEW t \in Tasks, Dequeue(w, t)
    PROVE  IInv'
  <1>t. TypeOK
    BY DEF IInv
  <1> DEFINE x == [pc |-> "check", task |-> t]
  <1>1. x \in WorkState /\ x.pc \notin {"dispatch", "serve"}
    BY DEF WorkState
  <1>2. svc = [svc EXCEPT ![w] = Free]
    <2>1. ~At(w, "serve")
      BY <1>t, WorkFields DEF Dequeue, TypeOK, At
    <2> QED BY <2>1, <1>t, NotServing
  <1>3. tasks' \in [Tasks -> Task]
    BY <1>t DEF Dequeue, TypeOK, Task, TaskStates
  <1> QED BY <1>1, <1>2, <1>3, LeavingSteps DEF Dequeue

LEMMA AtFields ==
    ASSUME TypeOK, NEW w \in Workers,
           At(w, "check") \/ At(w, "record") \/ At(w, "dispatch")
                \/ At(w, "serve") \/ At(w, "ack")
    PROVE  /\ work[w] # Idle
           /\ work[w].task \in Tasks
           /\ D(w) \in Deliveries
  BY WorkFields DEF TypeOK, At, D

LEMMA CheckDeliveryIInv ==
    ASSUME IInv, NEW w \in Workers, CheckDelivery(w)
    PROVE  IInv'
  <1>t. TypeOK
    BY DEF IInv
  <1>1. At(w, "check") /\ work[w] # Idle /\ work[w].task \in Tasks
    BY <1>t, AtFields DEF CheckDelivery
  <1>2. svc = [svc EXCEPT ![w] = Free]
    BY <1>1, <1>t, NotServing DEF At
  <1>3. PICK x \in WorkState : /\ x.pc \notin {"dispatch", "serve"}
                               /\ work' = [work EXCEPT ![w] = x]
    <2>1. Finished(w, FALSE) \in WorkState /\ Finished(w, FALSE).pc = "ack"
      BY <1>1, <1>t, FinishedType
    <2>2. [pc |-> "record", task |-> work[w].task] \in WorkState
      BY <1>1 DEF WorkState
    <2> QED BY <2>1, <2>2 DEF CheckDelivery
  <1> QED BY <1>t, <1>2, <1>3, LeavingSteps DEF CheckDelivery, TypeOK

LEMMA DeliveryFailsIInv ==
    ASSUME IInv, NEW w \in Workers, DeliveryFails(w)
    PROVE  IInv'
  <1>t. TypeOK
    BY DEF IInv
  <1>1. ~At(w, "serve") /\ work[w] # Idle
    BY <1>t, AtFields DEF DeliveryFails, At
  <1>2. svc = [svc EXCEPT ![w] = Free]
    BY <1>1, <1>t, NotServing
  <1>3. Finished(w, TRUE) \in WorkState /\ Finished(w, TRUE).pc = "ack"
    BY <1>1, <1>t, FinishedType
  <1> QED BY <1>t, <1>2, <1>3, LeavingSteps DEF DeliveryFails, TypeOK

LEMMA DispatchUnknownIInv ==
    ASSUME IInv, NEW w \in Workers, DispatchUnknown(w)
    PROVE  IInv'
  <1>t. TypeOK
    BY DEF IInv
  <1>1. ~At(w, "serve") /\ work[w] # Idle
    BY <1>t, AtFields DEF DispatchUnknown, At
  <1>2. svc = [svc EXCEPT ![w] = Free]
    BY <1>1, <1>t, NotServing
  <1>3. Finished(w, FALSE) \in WorkState /\ Finished(w, FALSE).pc = "ack"
    BY <1>1, <1>t, FinishedType
  <1> QED BY <1>t, <1>2, <1>3, LeavingSteps DEF DispatchUnknown, TypeOK

LEMMA IdleType == Idle \in WorkState /\ Idle.pc \notin {"dispatch", "serve"}
  BY DEF Idle, WorkState

LEMMA AckIInv ==
    ASSUME IInv, NEW w \in Workers, Ack(w)
    PROVE  IInv'
  <1>t. TypeOK
    BY DEF IInv
  <1>1. ~At(w, "serve") /\ work[w].task \in Tasks /\ work[w].err \in BOOLEAN
    BY <1>t, AtFields, WorkFields DEF Ack, At, TypeOK
  <1>2. svc = [svc EXCEPT ![w] = Free]
    BY <1>1, <1>t, NotServing
  <1>3. tasks' \in [Tasks -> Task]
    BY <1>1, <1>t, SettleType DEF Ack
  <1> QED BY <1>2, <1>3, IdleType, LeavingSteps DEF Ack

LEMMA CrashIInv ==
    ASSUME IInv, NEW w \in Workers, Crash(w)
    PROVE  IInv'
  <1>t. TypeOK
    BY DEF IInv
  <1>1. work[w].task \in Tasks
    BY <1>t, WorkFields DEF Crash, TypeOK
  <1>2. tasks' \in [Tasks -> Task]
    BY <1>1, <1>t, SettleType DEF Crash
  <1> QED BY <1>2, IdleType, LeavingSteps DEF Crash

\* Recording a delivery makes the worker its only owner: nobody owned it
\* before, since an owned delivery is on record, and no row came from it.
LEMMA RecordDeliveryIInv ==
    ASSUME IInv, NEW w \in Workers, RecordDelivery(w)
    PROVE  IInv'
  <1>t. TypeOK /\ OneOwner /\ RowsOK /\ \A v \in Workers : CallOK(v)
    BY DEF IInv
  <1>1. At(w, "record") /\ work[w].task \in Tasks /\ D(w) \in Deliveries
    BY <1>t, AtFields DEF RecordDelivery
  <1>2. /\ delivery[D(w)] = "absent"
        /\ delivery' = [delivery EXCEPT ![D(w)] = "recorded"]
        /\ work' = [work EXCEPT ![w] = [pc |-> "dispatch", task |-> work[w].task]]
        /\ UNCHANGED <<deploys, svc, tasks>>
    BY DEF RecordDelivery, GoTo
  <1>3. delivery' \in [Deliveries -> DeliveryStates]
    BY <1>1, <1>2, <1>t DEF TypeOK, DeliveryStates
  <1>4. Grows
    BY <1>1, <1>2, <1>t DEF Grows, Exists, TypeOK
  <1>5. RowsOK'
    BY <1>1, <1>2, <1>4, <1>t, RowsUntouched DEF TypeOK
  <1>6. svc[w] = Free
    BY <1>1, <1>t, NotServing DEF At
  <1>7. [pc |-> "dispatch", task |-> work[w].task] \in WorkState
    BY <1>1 DEF WorkState
  <1>8. TypeOK'
    BY <1>2, <1>3, <1>6, <1>7, <1>t DEF TypeOK, At
  <1>9. /\ work'[w] = [pc |-> "dispatch", task |-> work[w].task]
        /\ D(w)' = D(w)
        /\ \A v \in Workers \ {w} : work'[v] = work[v]
    BY <1>2, <1>t DEF TypeOK, D
  <1>10. \A v \in Workers : Owns(v) => D(v) # D(w)
    BY <1>2, <1>t DEF CallOK
  <1>11. OneOwner'
    BY <1>9, <1>10, <1>t DEF OneOwner, Owns, At, D
  <1>12. ASSUME NEW v \in Workers PROVE CallOK(v)'
    <2>1. CASE v # w
      BY <2>1, <1>2, <1>4, <1>9, Undisturbed
    <2>2. CASE v = w
      <3>1. \A id \in Ids : deploys[id].from # D(w)
        BY <1>1, <1>2, <1>t, RowExists DEF RowsOK
      <3>2. delivery'[D(w)] # "absent"
        BY <1>1, <1>2, <1>t DEF TypeOK
      <3>3. svc'[w].pc = "free"
        BY <1>2, <1>6 DEF Free
      <3> QED BY <2>2, <3>1, <3>2, <3>3, <1>2, <1>9 DEF CallOK, InService
    <2> QED BY <2>1, <2>2
  <1> QED BY <1>5, <1>8, <1>11, <1>12 DEF IInv
\* UpdateResult writes "processed" only for a call that returned without an
\* error, and such a call has stored its row.
LEMMA UpdateResultIInv ==
    ASSUME IInv, NEW w \in Workers, UpdateResult(w)
    PROVE  IInv'
  <1>t. TypeOK /\ CallOK(w)
    BY DEF IInv
  <1>1. /\ At(w, "serve") /\ svc[w].pc = "returned" /\ svc[w].err \in BOOLEAN
        /\ work[w] # Idle /\ D(w) \in Deliveries
    BY <1>t, AtFields, SvcFields DEF UpdateResult, TypeOK
  <1>2. PICK result \in {ResultOf(svc[w].err), delivery[D(w)]} :
            delivery' = [delivery EXCEPT ![D(w)] = result]
    BY DEF UpdateResult
  <1>3. delivery[D(w)] # "absent" /\ delivery[D(w)] \in DeliveryStates
    BY <1>1, <1>t DEF CallOK, Owns, TypeOK
  <1>4. result # "absent" /\ result \in DeliveryStates
    BY <1>2, <1>3 DEF ResultOf, DeliveryStates
  <1>5. /\ deploys' = deploys /\ tasks' = tasks
        /\ work' = [work EXCEPT ![w] = Finished(w, svc[w].err)]
        /\ svc' = [svc EXCEPT ![w] = Free]
    BY DEF UpdateResult
  <1>6. /\ delivery' \in [Deliveries -> DeliveryStates]
        /\ delivery'[D(w)] = result
        /\ \A d \in Deliveries \ {D(w)} : delivery'[d] = delivery[d]
    BY <1>1, <1>2, <1>4, <1>t DEF TypeOK
  <1>7. Grows
    BY <1>4, <1>5, <1>6 DEF Grows, Exists
  <1>8. RowsOK'
    <2>1. ASSUME delivery'[D(w)] = "processed", Ingests(Event[D(w)])
          PROVE  \/ delivery[D(w)] = "processed"
                 \/ \E id \in Ids : deploys[id].from = D(w)
      BY <2>1, <1>1, <1>2, <1>6, <1>t DEF ResultOf, CallOK
    <2>2. ASSUME NEW d \in Deliveries, delivery'[d] = "processed",
                 Ingests(Event[d])
          PROVE  \/ delivery[d] = "processed"
                 \/ \E id \in Ids : deploys[id].from = d
      BY <2>1, <2>2, <1>6
    <2> QED BY <2>2, <1>5, <1>7, RowsUntouched
  <1>9. Finished(w, svc[w].err) \in WorkState
        /\ Finished(w, svc[w].err).pc = "ack"
    BY <1>1, <1>t, FinishedType
  <1>10. /\ OneOwner' /\ \A v \in Workers : CallOK(v)'
         /\ svc' \in [Workers -> SvcState] /\ work' \in [Workers -> WorkState]
         /\ \A v \in Workers : svc'[v] # Free => At(v, "serve")'
    BY <1>5, <1>7, <1>9, Leaves
  <1>11. TypeOK'
    BY <1>5, <1>6, <1>10, <1>t DEF TypeOK
  <1> QED BY <1>8, <1>10, <1>11 DEF IInv
-----------------------------------------------------------------------------
\* The service's own steps.

\* The service state k is one that CallOK allows worker w.
Legitimate(w, k) ==
    /\ k.pc \in InService => k.req = D(w)
    /\ k.pc \in {"exists", "lookup", "create"} =>
        \A id \in Ids : deploys[id].from # D(w)
    /\ k.pc = "create" /\ k.reverts # NoValue =>
        Exists(k.reverts) /\ EventOf(k.reverts).env = Event[D(w)].env
    /\ k.pc = "status" =>
        /\ Event[D(w)].kind = "deployment_status"
        /\ Event[k.found.row.from].ghId = Event[D(w)].ghId
        /\ Kept(k.found)
    /\ k.pc = "ci" =>
        /\ Event[D(w)].kind = "check_suite"
        /\ \A f \in k.todo :
            Event[f.row.from].commit = Event[D(w)].commit /\ Kept(f)
    /\ k.pc = "returned" /\ ~k.err /\ Ingests(Event[D(w)]) =>
        \E id \in Ids : deploys[id].from = D(w)

\* The steps in which a worker serves its delivery and writes nothing.
LEMMA ServingSteps ==
    ASSUME IInv, NEW w \in Workers, NEW k \in SvcState, Owns(w),
           work' = [work EXCEPT ![w] = [pc |-> "serve", task |-> work[w].task]],
           svc' = [svc EXCEPT ![w] = k], k # Free, Legitimate(w, k),
           deploys' = deploys, delivery' = delivery, tasks' = tasks
    PROVE  IInv'
  <1>t. TypeOK /\ CallOK(w)
    BY DEF IInv
  <1>1. Grows
    BY SameGrows
  <1>2. RowsOK'
    BY <1>1, RowsUntouched
  <1>3. /\ svc'[w] = k /\ D(w)' = D(w) /\ Owns(w)' /\ ~At(w, "dispatch")'
    BY <1>t DEF TypeOK, D, Owns, At
  <1>4. (Owns(w) => delivery[D(w)] # "absent")'
    BY <1>3, <1>t DEF CallOK
  <1>5. (svc[w].pc = "status" =>
            /\ Event[svc[w].req].kind = "deployment_status"
            /\ Event[svc[w].found.row.from].ghId = Event[svc[w].req].ghId
            /\ Kept(svc[w].found))'
    <2> SUFFICES ASSUME k.pc = "status"
                 PROVE  /\ Event[k.req].kind = "deployment_status"
                        /\ Event[k.found.row.from].ghId = Event[k.req].ghId
                        /\ Kept(svc[w].found)'
      BY <1>3 DEF Kept
    <2>1. PICK f \in Found : f = k.found
      BY SvcFields
    <2>2. Kept(f)'
      BY <2>1, <1>1, KeptKept DEF Legitimate
    <2>3. Kept(svc[w].found)'
      BY <2>1, <2>2, <1>3 DEF Kept
    <2> QED BY <2>3 DEF Legitimate, InService
  <1>6. (svc[w].pc = "ci" =>
            /\ Event[svc[w].req].kind = "check_suite"
            /\ \A f \in svc[w].todo :
                /\ Event[f.row.from].commit = Event[svc[w].req].commit
                /\ Kept(f))'
    <2> SUFFICES ASSUME k.pc = "ci"
                 PROVE  /\ Event[k.req].kind = "check_suite"
                        /\ \A f \in k.todo :
                            /\ Event[f.row.from].commit = Event[k.req].commit
                            /\ Kept(f)'
      BY <1>3
    <2>1. \A f \in k.todo : f \in Found /\ Kept(f)
      BY SvcFields DEF Legitimate
    <2> QED BY <2>1, <1>1, KeptKept DEF Legitimate, InService
  <1>7. CallOK(w)'
    <2>1. (svc[w].pc \in InService => svc[w].req = D(w))'
      BY <1>3 DEF Legitimate
    <2>2. (Unsaved(w) => \A id \in Ids : deploys[id].from # D(w))'
      BY <1>3 DEF Legitimate, Unsaved
    <2>3. (svc[w].pc = "create" /\ svc[w].reverts # NoValue =>
            /\ Exists(svc[w].reverts)
            /\ EventOf(svc[w].reverts).env = Event[svc[w].req].env)'
      BY <1>3 DEF Legitimate, Exists, EventOf, InService
    <2>4. (svc[w].pc = "returned" /\ ~svc[w].err /\ Ingests(Event[D(w)]) =>
            \E id \in Ids : deploys[id].from = D(w))'
      BY <1>3 DEF Legitimate
    <2> QED BY <1>4, <1>5, <1>6, <2>1, <2>2, <2>3, <2>4 DEF CallOK
  <1>8. /\ OneOwner' /\ \A v \in Workers : CallOK(v)'
        /\ svc' \in [Workers -> SvcState] /\ work' \in [Workers -> WorkState]
        /\ \A v \in Workers : svc'[v] # Free => At(v, "serve")'
    BY <1>1, <1>7, Serves
  <1>9. TypeOK'
    BY <1>8, <1>t DEF TypeOK
  <1> QED BY <1>2, <1>8, <1>9 DEF IInv

\* A call that fails leaves its worker with an error and nothing to rely on.
LEMMA FailureIsLegitimate ==
    ASSUME NEW w \in Workers
    PROVE  /\ Returned(TRUE) \in SvcState /\ Returned(TRUE) # Free
           /\ Legitimate(w, Returned(TRUE))
  BY DEF Returned, SvcState, Free, Legitimate, InService

\* A row as it is stored is a faithful copy of itself.
LEMMA FreshCopy ==
    ASSUME IInv, NEW id \in Ids, Exists(id)
    PROVE  /\ [id |-> id, row |-> deploys[id]] \in Found
           /\ Kept([id |-> id, row |-> deploys[id]])
  BY RowExists DEF IInv, RowsOK, FieldsAreWitnessed, Kept, Found, Exists

LEMMA StartIsLegitimate ==
    ASSUME NEW w \in Workers, D(w) \in Deliveries,
           \A id \in Ids : deploys[id].from # D(w)
    PROVE  /\ CreateOrLookup(D(w)) \in SvcState /\ IngestStart(D(w)) \in SvcState
           /\ CreateOrLookup(D(w)) # Free /\ IngestStart(D(w)) # Free
           /\ Legitimate(w, CreateOrLookup(D(w)))
           /\ Legitimate(w, IngestStart(D(w)))
  <1>1. /\ CreateOrLookup(D(w)) \in SvcState /\ CreateOrLookup(D(w)) # Free
        /\ Legitimate(w, CreateOrLookup(D(w)))
    BY DEF CreateOrLookup, SvcState, Free, Legitimate, InService
  <1>2. LET k == [pc |-> "exists", req |-> D(w)]
        IN  k \in SvcState /\ k # Free /\ Legitimate(w, k)
    BY DEF SvcState, Free, Legitimate, InService
  <1> QED BY <1>1, <1>2 DEF IngestStart

LEMMA DispatchFailsIInv ==
    ASSUME IInv, NEW w \in Workers, DispatchFails(w)
    PROVE  IInv'
  BY FailureIsLegitimate, ServingSteps DEF DispatchFails, Owns, GoTo

LEMMA DispatchIInv ==
    ASSUME IInv, NEW w \in Workers, Dispatch(w)
    PROVE  IInv'
  <1>t. TypeOK /\ CallOK(w)
    BY DEF IInv
  <1>1. /\ Owns(w) /\ D(w) \in Deliveries
        /\ work' = [work EXCEPT ![w] = [pc |-> "serve", task |-> work[w].task]]
        /\ UNCHANGED <<deploys, tasks, delivery>>
    BY <1>t, OwnerFields DEF Dispatch, GoTo, Owns
  <1>2. \A id \in Ids : deploys[id].from # D(w)
    BY <1>t DEF Dispatch, CallOK, Unsaved
  <1> SUFFICES \E k \in SvcState : /\ svc' = [svc EXCEPT ![w] = k]
                                   /\ k # Free /\ Legitimate(w, k)
    BY <1>1, ServingSteps
  <1>3. CASE Ignored(Event[D(w)]) /\ svc' = [svc EXCEPT ![w] = Returned(FALSE)]
    <2>1. Returned(FALSE) \in SvcState /\ Returned(FALSE) # Free
      BY DEF Returned, SvcState, Free
    <2>2. Legitimate(w, Returned(FALSE))
      BY <1>3 DEF Returned, Legitimate, InService, Ingests
    <2> QED BY <1>3, <2>1, <2>2
  <1>4. CASE svc' = [svc EXCEPT ![w] = IngestStart(D(w))]
    BY <1>1, <1>2, <1>4, StartIsLegitimate
  <1>5. CASE Event[D(w)].kind = "deployment_status" /\ StatusFind(w, D(w))
    <2>1. CASE svc' = [svc EXCEPT ![w] = Returned(TRUE)]
      BY <2>1, FailureIsLegitimate
    <2>2. CASE \E id \in WithGitHubId(Event[D(w)].ghId) :
                svc' = [svc EXCEPT ![w] = [pc |-> "status", req |-> D(w),
                            found |-> [id |-> id, row |-> deploys[id]]]]
      <3>1. PICK id \in WithGitHubId(Event[D(w)].ghId) :
                svc' = [svc EXCEPT ![w] = [pc |-> "status", req |-> D(w),
                            found |-> [id |-> id, row |-> deploys[id]]]]
        BY <2>2
      <3> DEFINE f == [id |-> id, row |-> deploys[id]]
                 k == [pc |-> "status", req |-> D(w), found |-> f]
      <3>2. id \in Ids /\ Exists(id)
            /\ Event[deploys[id].from].ghId = Event[D(w)].ghId
        BY <3>1 DEF WithGitHubId, EventOf
      <3>3. f \in Found /\ Kept(f)
        BY <3>2, FreshCopy
      <3>4. f.row.from = deploys[id].from
        OBVIOUS
      <3> HIDE DEF f
      <3>5. k \in SvcState /\ k # Free
        BY <1>1, <3>3 DEF SvcState, Free
      <3>6. Legitimate(w, k)
        BY <1>5, <3>2, <3>3, <3>4 DEF Legitimate, InService
      <3> QED BY <3>1, <3>5, <3>6 DEF f
    <2> QED BY <1>5, <2>1, <2>2 DEF StatusFind
  <1>6. CASE Event[D(w)].kind = "check_suite" /\ CIFind(w, D(w))
    <2> DEFINE found == {[id |-> id, row |-> deploys[id]] :
                            id \in WithCommit(Event[D(w)].commit)}
               k == [pc |-> "ci", req |-> D(w), todo |-> found]
    <2>1. ASSUME NEW f \in found
          PROVE  /\ f \in Found /\ Kept(f)
                 /\ Event[f.row.from].commit = Event[D(w)].commit
      <3>1. PICK id \in WithCommit(Event[D(w)].commit) :
                f = [id |-> id, row |-> deploys[id]]
        OBVIOUS
      <3>2. id \in Ids /\ Exists(id)
            /\ Event[deploys[id].from].commit = Event[D(w)].commit
        BY <3>1 DEF WithCommit, EventOf
      <3> QED BY <3>1, <3>2, FreshCopy
    <2>2. \/ svc' = [svc EXCEPT ![w] = Returned(FALSE)]
          \/ svc' = [svc EXCEPT ![w] = k]
      BY <1>6 DEF CIFind
    <2> HIDE DEF found
    <2>3. k \in SvcState /\ k # Free /\ Legitimate(w, k)
      BY <1>1, <1>6, <2>1 DEF SvcState, Free, Legitimate, InService
    <2>4. Returned(FALSE) \in SvcState /\ Returned(FALSE) # Free
          /\ Legitimate(w, Returned(FALSE))
      BY <1>6 DEF Returned, SvcState, Free, Legitimate, InService, Ingests
    <2> QED BY <2>2, <2>3, <2>4
  <1> QED BY <1>3, <1>4, <1>5, <1>6 DEF Dispatch

\* A worker inside the service serves, and what it relies on.
LEMMA Serving ==
    ASSUME IInv, NEW w \in Workers, svc[w].pc \in InService
    PROVE  /\ Owns(w) /\ At(w, "serve") /\ D(w) \in Deliveries
           /\ work = [work EXCEPT ![w] = [pc |-> "serve", task |-> work[w].task]]
           /\ svc[w].req = D(w)
           /\ svc[w] \in SvcState /\ work[w].task \in Tasks
  <1>t. TypeOK /\ CallOK(w)
    BY DEF IInv
  <1>1. svc[w] \in SvcState /\ svc[w] # Free
    BY <1>t, SvcFields DEF TypeOK
  <1>2. At(w, "serve") /\ Owns(w) /\ D(w) \in Deliveries /\ work[w].task \in Tasks
    BY <1>t, <1>1, ServiceOwns, OwnerFields
  <1>3. work[w] = [pc |-> "serve", task |-> work[w].task]
    BY <1>t, <1>2 DEF TypeOK, WorkState, Idle, At
  <1> QED BY <1>t, <1>1, <1>2, <1>3 DEF CallOK, TypeOK

LEMMA IngestCheckExistsIInv ==
    ASSUME IInv, NEW w \in Workers, IngestCheckExists(w),
           UNCHANGED <<tasks, work, delivery>>
    PROVE  IInv'
  <1>1. svc[w].pc = "exists" /\ Unsaved(w) /\ svc[w].pc \in InService
    BY DEF IngestCheckExists, Unsaved, InService
  <1>2. /\ Owns(w) /\ D(w) \in Deliveries /\ svc[w].req = D(w)
        /\ work' = [work EXCEPT ![w] = [pc |-> "serve", task |-> work[w].task]]
    BY <1>1, Serving
  <1>3. \A id \in Ids : deploys[id].from # D(w)
    BY <1>1 DEF IInv, CallOK
  <1>4. PICK k \in {Returned(TRUE), CreateOrLookup(D(w))} :
            svc' = [svc EXCEPT ![w] = k] /\ deploys' = deploys
    BY <1>2 DEF IngestCheckExists
  <1>5. k \in SvcState /\ k # Free /\ Legitimate(w, k)
    BY <1>2, <1>3, <1>4, FailureIsLegitimate, StartIsLegitimate
  <1> QED BY <1>2, <1>4, <1>5, ServingSteps

LEMMA IngestFindLastIInv ==
    ASSUME IInv, NEW w \in Workers, IngestFindLast(w),
           UNCHANGED <<tasks, work, delivery>>
    PROVE  IInv'
  <1>1. svc[w].pc = "lookup" /\ Unsaved(w) /\ svc[w].pc \in InService
    BY DEF IngestFindLast, Unsaved, InService
  <1>2. /\ Owns(w) /\ D(w) \in Deliveries /\ svc[w].req = D(w)
        /\ work' = [work EXCEPT ![w] = [pc |-> "serve", task |-> work[w].task]]
    BY <1>1, Serving
  <1>3. \A id \in Ids : deploys[id].from # D(w)
    BY <1>1 DEF IInv, CallOK
  <1>4. PICK last \in LastInEnv(Event[D(w)].env) \cup {NoValue} :
            /\ svc' = [svc EXCEPT ![w] = [pc |-> "create", req |-> D(w),
                                          reverts |-> last]]
            /\ deploys' = deploys
    BY <1>2 DEF IngestFindLast
  <1>5. /\ last \in Ids \cup {NoValue}
        /\ last # NoValue => Exists(last)
                             /\ EventOf(last).env = Event[D(w)].env
    BY <1>4 DEF LastInEnv
  <1> DEFINE k == [pc |-> "create", req |-> D(w), reverts |-> last]
  <1>6. k \in SvcState /\ k # Free /\ Legitimate(w, k)
    BY <1>2, <1>3, <1>5 DEF SvcState, Free, Legitimate, InService
  <1> QED BY <1>2, <1>4, <1>6, ServingSteps

LEMMA SvcFailsIInv ==
    ASSUME IInv, NEW w \in Workers, SvcFails(w),
           UNCHANGED <<tasks, work, delivery>>
    PROVE  IInv'
  <1>1. /\ Owns(w)
        /\ work' = [work EXCEPT ![w] = [pc |-> "serve", task |-> work[w].task]]
    BY Serving DEF SvcFails, InService
  <1> QED BY <1>1, FailureIsLegitimate, ServingSteps DEF SvcFails

\* A worker whose call returned, when its delivery made no row or has made it.
LEMMA ReturnedOK ==
    ASSUME IInv, Grows, NEW w \in Workers, svc[w].pc \in InService,
           NEW err \in BOOLEAN,
           work' = work, svc' = [svc EXCEPT ![w] = Returned(err)],
           Ingests(Event[D(w)]) => \E id \in Ids : deploys'[id].from = D(w)
    PROVE  CallOK(w)'
  <1>t. TypeOK /\ CallOK(w)
    BY DEF IInv
  <1>1. Owns(w) /\ D(w) \in Deliveries /\ At(w, "serve")
    BY Serving
  <1>2. svc'[w] = Returned(err) /\ D(w)' = D(w) /\ ~At(w, "dispatch")'
    BY <1>t, <1>1 DEF TypeOK, D, At
  <1>3. (Owns(w) => delivery[D(w)] # "absent")'
    BY <1>1, <1>2, <1>t DEF CallOK, Grows
  <1> QED BY <1>2, <1>3 DEF CallOK, Returned, InService, Unsaved

LEMMA IngestCreateIInv ==
    ASSUME IInv, NEW w \in Workers, IngestCreate(w),
           UNCHANGED <<tasks, work, delivery>>
    PROVE  IInv'
  <1>t. TypeOK /\ CallOK(w)
    BY DEF IInv
  <1>1. svc[w].pc = "create" /\ Unsaved(w) /\ svc[w].pc \in InService
    BY DEF IngestCreate, Unsaved, InService
  <1>2. /\ Owns(w) /\ D(w) \in Deliveries /\ svc[w].req = D(w)
        /\ work' = [work EXCEPT ![w] = [pc |-> "serve", task |-> work[w].task]]
        /\ svc[w].reverts \in Ids \cup {NoValue}
    BY <1>1, Serving, SvcFields
  <1>3. PICK i \in Ids :
            /\ ~Exists(i)
            /\ deploys' = [deploys EXCEPT ![i] = NewRow(D(w), svc[w].reverts)]
    BY <1>2 DEF IngestCreate
  <1>4. /\ RowsOK' /\ Grows /\ deploys' \in [Ids -> Row \cup {NoRow}]
        /\ deploys'[i].from = D(w)
        /\ \A id \in Ids \ {i} : deploys'[id] = deploys[id]
    <2>1. delivery[D(w)] # "absent" /\ \A id \in Ids : deploys[id].from # D(w)
      BY <1>1, <1>2, <1>t DEF CallOK
    <2>2. ~GitHubIdTaken(Event[D(w)].ghId)
      BY <1>2 DEF IngestCreate
    <2>3. svc[w].reverts # NoValue =>
            /\ Exists(svc[w].reverts)
            /\ EventOf(svc[w].reverts).env = Event[D(w)].env
      BY <1>1, <1>2, <1>t DEF CallOK
    <2> QED BY <2>1, <2>2, <2>3, <1>2, <1>3, RowInserted
  <1>r. PICK err \in BOOLEAN : svc' = [svc EXCEPT ![w] = Returned(err)]
    BY DEF IngestCreate
  <1>5. Returned(err) \in SvcState
    BY ReturnedType
  <1>6. CallOK(w)'
    BY <1>1, <1>4, <1>r, ReturnedOK
  <1>7. /\ OneOwner' /\ \A v \in Workers : CallOK(v)'
        /\ svc' \in [Workers -> SvcState] /\ work' \in [Workers -> WorkState]
        /\ \A v \in Workers : svc'[v] # Free => At(v, "serve")'
    BY <1>2, <1>4, <1>r, <1>5, <1>6, Serves
  <1>8. TypeOK'
    BY <1>4, <1>7, <1>t DEF TypeOK
  <1> QED BY <1>4, <1>7, <1>8 DEF IInv

\* What a status call saves was said by the status delivery it processes, which
\* is on record.
LEMMA StatusWitnessed ==
    ASSUME IInv, NEW w \in Workers, svc[w].pc = "status"
    PROVE  LET row == WithStatus(svc[w].found, Event[svc[w].req])
           IN  /\ row \in Row
               /\ row.from = svc[w].found.row.from
               /\ row.reverts = svc[w].found.row.reverts
               /\ Witnessed(row)
  <1>t. CallOK(w)
    BY DEF IInv
  <1>1. /\ Owns(w) /\ D(w) \in Deliveries /\ svc[w].req = D(w)
        /\ svc[w].found \in Found
    BY Serving, SvcFields DEF InService
  <1> DEFINE d == D(w)
             old == svc[w].found.row
             row == WithStatus(svc[w].found, Event[d])
  <1>2. /\ old \in Row /\ Witnessed(old) /\ delivery[d] # "absent"
        /\ Event[d].kind = "deployment_status"
        /\ Event[old.from].ghId = Event[d].ghId
    BY <1>1, <1>t, FoundFields DEF CallOK, Kept
  <1>3. Event[d].at \in Nat /\ OutcomeOf(Event[d].verdict) \in Outcomes
    BY <1>1, EventsOK DEF OutcomeOf, Outcomes
  <1>4. row = IF Event[d].verdict \in Terminal
              THEN [old EXCEPT !.outcome = OutcomeOf(Event[d].verdict),
                               !.completedAt = Event[d].at]
              ELSE old
    BY DEF WithStatus
  <1> HIDE DEF row, old, d
  <1>5. CASE Event[d].verdict \in Terminal
    <2>1. /\ row \in Row /\ row.from = old.from /\ row.reverts = old.reverts
          /\ row.outcome = OutcomeOf(Event[d].verdict)
          /\ row.completedAt = Event[d].at /\ row.ci = old.ci
      BY <1>2, <1>3, <1>4, <1>5 DEF Row
    <2>2. Witnessed(row)
      BY <2>1, <1>1, <1>2, <1>5 DEF Witnessed, d
    <2> QED BY <2>1, <2>2, <1>1 DEF row, old, d
  <1>6. CASE Event[d].verdict \notin Terminal
    BY <1>6, <1>1, <1>2, <1>4 DEF row, old, d
  <1> QED BY <1>5, <1>6

LEMMA StatusSaveIInv ==
    ASSUME IInv, NEW w \in Workers, StatusSave(w),
           UNCHANGED <<tasks, work, delivery>>
    PROVE  IInv'
  <1>t. TypeOK /\ CallOK(w)
    BY DEF IInv
  <1>1. svc[w].pc = "status" /\ svc[w].pc \in InService
    BY DEF StatusSave, InService
  <1>2. /\ Owns(w) /\ svc[w].req = D(w) /\ svc[w].found \in Found
        /\ work' = [work EXCEPT ![w] = [pc |-> "serve", task |-> work[w].task]]
        /\ Event[D(w)].kind = "deployment_status" /\ Kept(svc[w].found)
    BY <1>1, <1>t, Serving, SvcFields DEF CallOK
  <1>3. PICK i \in Ids, row \in Row :
            /\ Exists(i) /\ Witnessed(row)
            /\ row.from = deploys[i].from /\ row.reverts = deploys[i].reverts
            /\ deploys' = [deploys EXCEPT ![i] = row]
    BY <1>1, <1>2, StatusWitnessed, FoundFields DEF StatusSave, Kept
  <1>4. /\ RowsOK' /\ Grows /\ deploys' \in [Ids -> Row \cup {NoRow}]
        /\ \A id \in Ids : deploys'[id].from = deploys[id].from
    BY <1>3, RowSaved
  <1>r. PICK err \in BOOLEAN : svc' = [svc EXCEPT ![w] = Returned(err)]
    BY DEF StatusSave
  <1>5. Returned(err) \in SvcState
    BY ReturnedType
  <1>6. CallOK(w)'
    BY <1>1, <1>2, <1>4, <1>r, ReturnedOK DEF Ingests
  <1>7. /\ OneOwner' /\ \A v \in Workers : CallOK(v)'
        /\ svc' \in [Workers -> SvcState] /\ work' \in [Workers -> WorkState]
        /\ \A v \in Workers : svc'[v] # Free => At(v, "serve")'
    BY <1>2, <1>4, <1>r, <1>5, <1>6, Serves
  <1>8. TypeOK'
    BY <1>4, <1>7, <1>t DEF TypeOK
  <1> QED BY <1>4, <1>7, <1>8 DEF IInv

\* What a CI call saves was said by the check suite it processes.
LEMMA CIWitnessed ==
    ASSUME IInv, NEW w \in Workers, svc[w].pc = "ci", NEW f \in svc[w].todo
    PROVE  LET row == WithCI(f, Event[svc[w].req])
           IN  /\ f \in Found /\ row \in Row
               /\ row.from = f.row.from /\ row.reverts = f.row.reverts
               /\ Witnessed(row)
  <1>t. CallOK(w)
    BY DEF IInv
  <1>1. /\ Owns(w) /\ D(w) \in Deliveries /\ svc[w].req = D(w) /\ f \in Found
    BY Serving, SvcFields DEF InService
  <1> DEFINE d == D(w)
             row == WithCI(f, Event[d])
  <1>2. /\ f.row \in Row /\ Witnessed(f.row) /\ delivery[d] # "absent"
        /\ Event[d].kind = "check_suite"
        /\ Event[f.row.from].commit = Event[d].commit
    BY <1>1, <1>t, FoundFields DEF CallOK, Kept
  <1>3. CIOf(Event[d].verdict) \in CIStatuses
    BY DEF CIOf, CIStatuses
  <1>4. /\ row \in Row /\ row.from = f.row.from /\ row.reverts = f.row.reverts
        /\ row.outcome = f.row.outcome /\ row.completedAt = f.row.completedAt
        /\ row.ci = CIOf(Event[d].verdict)
    BY <1>2, <1>3 DEF WithCI, Row
  <1> HIDE DEF row, d
  <1>5. Witnessed(row)
    BY <1>1, <1>2, <1>4 DEF Witnessed, d
  <1> QED BY <1>1, <1>4, <1>5 DEF row, d

LEMMA CISaveIInv ==
    ASSUME IInv, NEW w \in Workers, CISave(w),
           UNCHANGED <<tasks, work, delivery>>
    PROVE  IInv'
  <1>t. TypeOK /\ CallOK(w)
    BY DEF IInv
  <1>1. svc[w].pc = "ci" /\ svc[w].pc \in InService
    BY DEF CISave, InService
  <1>2. /\ Owns(w) /\ At(w, "serve") /\ svc[w].req = D(w) /\ D(w) \in Deliveries
        /\ svc[w].todo \in SUBSET Found
        /\ work' = [work EXCEPT ![w] = [pc |-> "serve", task |-> work[w].task]]
        /\ Event[D(w)].kind = "check_suite" /\ delivery[D(w)] # "absent"
    BY <1>1, <1>t, Serving, SvcFields DEF CallOK
  <1>3. PICK f \in svc[w].todo :
            /\ deploys' = [deploys EXCEPT ![f.id] = WithCI(f, Event[svc[w].req])]
            /\ \/ \E err \in BOOLEAN : svc' = [svc EXCEPT ![w] = Returned(err)]
               \/ svc' = [svc EXCEPT ![w] =
                            [svc[w] EXCEPT !.todo = svc[w].todo \ {f}]]
    BY DEF CISave
  <1>4. PICK i \in Ids, row \in Row :
            /\ Exists(i) /\ Witnessed(row)
            /\ row.from = deploys[i].from /\ row.reverts = deploys[i].reverts
            /\ deploys' = [deploys EXCEPT ![i] = row]
    BY <1>1, <1>3, <1>t, CIWitnessed, FoundFields DEF CallOK, Kept
  <1>5. /\ RowsOK' /\ Grows /\ deploys' \in [Ids -> Row \cup {NoRow}]
        /\ \A id \in Ids : deploys'[id].from = deploys[id].from
    BY <1>4, RowSaved
  <1>6. PICK k \in SvcState : svc' = [svc EXCEPT ![w] = k] /\ CallOK(w)'
    <2>1. ASSUME NEW err \in BOOLEAN, svc' = [svc EXCEPT ![w] = Returned(err)]
          PROVE  \E k \in SvcState : svc' = [svc EXCEPT ![w] = k] /\ CallOK(w)'
      <3>1. CallOK(w)'
        BY <2>1, <1>1, <1>2, <1>5, ReturnedOK DEF Ingests
      <3> QED BY <2>1, <3>1, ReturnedType
    <2>2. CASE svc' = [svc EXCEPT ![w] = [svc[w] EXCEPT !.todo = svc[w].todo \ {f}]]
      <3> DEFINE k == [pc |-> "ci", req |-> D(w), todo |-> svc[w].todo \ {f}]
      <3>1. svc[w] = [pc |-> "ci", req |-> D(w), todo |-> svc[w].todo]
        BY <1>1, <1>2, <1>t DEF TypeOK, SvcState, Free
      <3>2. [svc[w] EXCEPT !.todo = svc[w].todo \ {f}] = k
        <4>1. \A c \in SvcState : \A d, t, s :
                c = [pc |-> "ci", req |-> d, todo |-> t] =>
                    [c EXCEPT !.todo = s] = [pc |-> "ci", req |-> d, todo |-> s]
          OBVIOUS
        <4>2. svc[w] \in SvcState
          BY <1>t DEF TypeOK
        <4> QED BY <3>1, <4>1, <4>2
      <3>3. svc' = [svc EXCEPT ![w] = k]
        BY <2>2, <3>2
      <3>4. k \in SvcState
        BY <1>2 DEF SvcState
      <3>5. /\ svc'[w] = k /\ D(w)' = D(w) /\ ~At(w, "dispatch")'
        BY <3>3, <1>2, <1>t DEF TypeOK, D, At
      <3>6. \A g \in svc[w].todo : Kept(g)' /\ Event[g.row.from].commit
                                                    = Event[D(w)].commit
        BY <1>1, <1>2, <1>5, <1>t, KeptKept DEF CallOK
      <3>7. (svc[w].pc = "ci" =>
                /\ Event[svc[w].req].kind = "check_suite"
                /\ \A g \in svc[w].todo :
                    /\ Event[g.row.from].commit = Event[svc[w].req].commit
                    /\ Kept(g))'
        BY <3>5, <3>6, <1>2
      <3>8. CallOK(w)'
        BY <3>5, <3>7, <1>2 DEF CallOK, InService, Unsaved
      <3> QED BY <3>3, <3>4, <3>8
    <2> QED BY <2>1, <2>2, <1>3
  <1>7. /\ OneOwner' /\ \A v \in Workers : CallOK(v)'
        /\ svc' \in [Workers -> SvcState] /\ work' \in [Workers -> WorkState]
        /\ \A v \in Workers : svc'[v] # Free => At(v, "serve")'
    BY <1>2, <1>5, <1>6, Serves
  <1>8. TypeOK'
    BY <1>5, <1>7, <1>t DEF TypeOK
  <1> QED BY <1>5, <1>7, <1>8 DEF IInv
-----------------------------------------------------------------------------
LEMMA InitIInv == Init => IInv
  <1> SUFFICES ASSUME Init PROVE IInv
    OBVIOUS
  <1> USE DEF Init, InitDeploys
  <1>1. TypeOK
    <2>1. Free \in SvcState /\ Idle \in WorkState
      BY DEF SvcState, WorkState
    <2>2. tasks \in [Tasks -> Task]
      BY TasksOK DEF Task, TaskStates
    <2> QED BY <2>1, <2>2 DEF TypeOK, DeliveryStates
  <1>2. \A w \in Workers : work[w].pc = "idle" /\ svc[w].pc = "free"
    BY DEF Idle, Free
  <1>3. \A id \in Ids : ~Exists(id)
    BY DEF Exists
  <1>4. OneOwner
    BY <1>2 DEF OneOwner, Owns, At
  <1>5. RowsOK
    BY <1>3 DEF RowsOK, UniqueDeployment, OneRowPerDelivery,
                ProcessedMeansStored, RevertsAnEarlierDeploy, FieldsAreWitnessed
  <1>6. \A w \in Workers : CallOK(w)
    BY <1>2 DEF CallOK, Owns, Unsaved, At, InService
  <1> QED BY <1>1, <1>4, <1>5, <1>6 DEF IInv

LEMMA NextIInv == IInv /\ [Next]_vars => IInv'
  <1> SUFFICES ASSUME IInv, [Next]_vars PROVE IInv'
    OBVIOUS
  <1>1. CASE UNCHANGED vars
    BY <1>1 DEF IInv, TypeOK, OneOwner, RowsOK, CallOK, Owns, Unsaved, Kept, At,
                D, Exists, EventOf, UniqueDeployment, OneRowPerDelivery,
                ProcessedMeansStored, RevertsAnEarlierDeploy,
                FieldsAreWitnessed, Witnessed, vars
  <1>2. ASSUME NEW w \in Workers, NEW t \in Tasks, Dequeue(w, t) PROVE IInv'
    BY <1>2, DequeueIInv
  <1>3. ASSUME NEW w \in Workers, Step(w) PROVE IInv'
    <2>1. CASE CheckDelivery(w)
      BY <2>1, CheckDeliveryIInv
    <2>2. CASE RecordDelivery(w)
      BY <2>2, RecordDeliveryIInv
    <2>3. CASE Dispatch(w)
      BY <2>3, DispatchIInv
    <2>4. CASE DispatchUnknown(w)
      BY <2>4, DispatchUnknownIInv
    <2>5. CASE Serve(w)
      <3>1. UNCHANGED <<tasks, work, delivery>>
        BY <2>5 DEF Serve
      <3>2. CASE IngestCheckExists(w)
        BY <3>1, <3>2, IngestCheckExistsIInv
      <3>3. CASE IngestFindLast(w)
        BY <3>1, <3>3, IngestFindLastIInv
      <3>4. CASE IngestCreate(w)
        BY <3>1, <3>4, IngestCreateIInv
      <3>5. CASE StatusSave(w)
        BY <3>1, <3>5, StatusSaveIInv
      <3>6. CASE CISave(w)
        BY <3>1, <3>6, CISaveIInv
      <3>7. CASE SvcFails(w)
        BY <3>1, <3>7, SvcFailsIInv
      <3> QED BY <2>5, <3>2, <3>3, <3>4, <3>5, <3>6, <3>7 DEF Serve, SvcStep
    <2>6. CASE UpdateResult(w)
      BY <2>6, UpdateResultIInv
    <2>7. CASE Ack(w)
      BY <2>7, AckIInv
    <2>8. CASE DeliveryFails(w)
      BY <2>8, DeliveryFailsIInv
    <2> QED BY <1>3, <2>1, <2>2, <2>3, <2>4, <2>5, <2>6, <2>7, <2>8 DEF Step
  <1>4. ASSUME NEW w \in Workers, DispatchFails(w) PROVE IInv'
    BY <1>4, DispatchFailsIInv
  <1>5. ASSUME NEW w \in Workers, Crash(w) PROVE IInv'
    BY <1>5, CrashIInv
  <1> QED BY <1>1, <1>2, <1>3, <1>4, <1>5 DEF Next

LEMMA Invariance == Spec => []IInv
  BY InitIInv, NextIInv, PTL DEF Spec

\* For any workers, tasks and deliveries, and through every retry and crash, the
\* tables, the queue and the calls in flight keep their types, and a worker is
\* inside the service only while it serves a task.
THEOREM TypeCorrect == Spec => []TypeOK
  <1>1. IInv => TypeOK
    BY DEF IInv
  <1> QED BY <1>1, Invariance, PTL

\* A GitHub deployment never has two rows, however many workers ingest it: the
\* check before the insert is not enough, the unique index is.
THEOREM UniqueDeploymentCorrect == Spec => []UniqueDeployment
  <1>1. IInv => UniqueDeployment
    BY DEF IInv, RowsOK
  <1> QED BY <1>1, Invariance, PTL

\* A delivery never makes two rows, through retries, crashes and duplicate
\* tasks: the record of the delivery has one owner, and a retry finds it.
THEOREM OneRowCorrect == Spec => []OneRowPerDelivery
  <1>1. IInv => OneRowPerDelivery
    BY DEF IInv, RowsOK
  <1> QED BY <1>1, Invariance, PTL

\* UpdateResult marks no delivery "processed" whose row is missing, even when
\* the process dies between the insert and the mark.
THEOREM ProcessedCorrect == Spec => []ProcessedMeansStored
  <1>1. IInv => ProcessedMeansStored
    BY DEF IInv, RowsOK
  <1> QED BY <1>1, Invariance, PTL

\* A revert link leads to a row of the same environment and never back, though
\* rows are inserted between the lookup and the insert.
THEOREM RevertsCorrect == Spec => []RevertsAnEarlierDeploy
  <1>1. IInv => RevertsAnEarlierDeploy
    BY DEF IInv, RowsOK
  <1> QED BY <1>1, Invariance, PTL

\* Lost updates lose values but never make one up: a known outcome, with its
\* time, and a known CI status were each said by one recorded delivery.
THEOREM FieldsCorrect == Spec => []FieldsAreWitnessed
  <1>1. IInv => FieldsAreWitnessed
    BY DEF IInv, RowsOK
  <1> QED BY <1>1, Invariance, PTL

\* UpdateCIStatus changes an outcome, and UpdateDeploymentStatus a CI status,
\* only by saving a copy that has become stale.
THEOREM ForeignFieldsCorrect == Spec => ForeignFieldsOnlyByStaleSave
  <1> DEFINE Foreign(id) ==
        Exists(id) =>
        /\ deploys'[id].outcome # deploys[id].outcome => \E w \in Workers :
                \/ svc[w].pc = "status" /\ svc[w].found.id = id
                \/ svc[w].pc = "ci" /\ \E f \in svc[w].todo :
                        f.id = id /\ f.row.outcome # deploys[id].outcome
        /\ deploys'[id].ci # deploys[id].ci => \E w \in Workers :
                \/ svc[w].pc = "ci" /\ \E f \in svc[w].todo : f.id = id
                \/ svc[w].pc = "status" /\ svc[w].found.id = id
                        /\ svc[w].found.row.ci # deploys[id].ci
  <1>1. ASSUME IInv, Next, NEW id \in Ids PROVE Foreign(id)
    <2>t. TypeOK
      BY <1>1 DEF IInv
    <2>1. CASE UNCHANGED deploys
      BY <2>1
    <2>2. ASSUME NEW w \in Workers, IngestCreate(w) PROVE Foreign(id)
      <3>1. Exists(id) => deploys'[id] = deploys[id]
        BY <2>2, <2>t DEF IngestCreate, TypeOK
      <3> QED BY <3>1
    <2>3. ASSUME NEW w \in Workers, StatusSave(w) PROVE Foreign(id)
      <3> DEFINE i == svc[w].found.id
                 row == WithStatus(svc[w].found, Event[svc[w].req])
      <3>1. /\ svc[w].pc = "status" /\ svc[w] \in SvcState
            /\ deploys' = [deploys EXCEPT ![i] = row]
        BY <2>3, <2>t DEF StatusSave, TypeOK
      <3>2. svc[w].found \in Found /\ svc[w].found.row \in Row
        BY <3>1, SvcFields, FoundFields
      <3>3. row.ci = svc[w].found.row.ci
        BY <3>2 DEF WithStatus, Row
      <3>4. IF id = i THEN deploys'[id] = row ELSE deploys'[id] = deploys[id]
        BY <3>1, <2>t DEF TypeOK
      <3> HIDE DEF row
      <3> QED BY <3>1, <3>3, <3>4
    <2>4. ASSUME NEW w \in Workers, CISave(w) PROVE Foreign(id)
      <3>1. PICK f \in svc[w].todo :
                deploys' = [deploys EXCEPT ![f.id] = WithCI(f, Event[svc[w].req])]
        BY <2>4 DEF CISave
      <3> DEFINE row == WithCI(f, Event[svc[w].req])
      <3>2. svc[w].pc = "ci" /\ svc[w] \in SvcState
        BY <2>4, <2>t DEF CISave, TypeOK
      <3>3. f \in Found /\ f.row \in Row
        BY <3>2, SvcFields, FoundFields
      <3>4. row.outcome = f.row.outcome
        BY <3>3 DEF WithCI, Row
      <3>5. IF id = f.id THEN deploys'[id] = row ELSE deploys'[id] = deploys[id]
        BY <3>1, <2>t DEF TypeOK
      <3> HIDE DEF row
      <3> QED BY <3>2, <3>4, <3>5
    <2>5. \/ UNCHANGED deploys
          \/ \E w \in Workers : IngestCreate(w) \/ StatusSave(w) \/ CISave(w)
      BY <1>1 DEF Next, Step, Dequeue, CheckDelivery, RecordDelivery, Dispatch,
                  DispatchUnknown, Serve, UpdateResult, Ack, DeliveryFails,
                  DispatchFails, Crash, SvcStep, IngestCheckExists,
                  IngestFindLast, SvcFails
    <2> HIDE DEF Foreign
    <2> QED BY <2>1, <2>2, <2>3, <2>4, <2>5
  <1>2. IInv /\ [Next]_vars => [\A id \in Ids : Foreign(id)]_vars
    BY <1>1
  <1>3. IInv /\ [Next]_vars =>
            [\A id \in Ids : Exists(id) =>
        /\ deploys'[id].outcome # deploys[id].outcome => \E w \in Workers :
                \/ svc[w].pc = "status" /\ svc[w].found.id = id
                \/ svc[w].pc = "ci" /\ \E f \in svc[w].todo :
                        f.id = id /\ f.row.outcome # deploys[id].outcome
        /\ deploys'[id].ci # deploys[id].ci => \E w \in Workers :
                \/ svc[w].pc = "ci" /\ \E f \in svc[w].todo : f.id = id
                \/ svc[w].pc = "status" /\ svc[w].found.id = id
                        /\ svc[w].found.row.ci # deploys[id].ci]_vars
    BY <1>2
  <1> QED BY <1>3, Invariance, PTL DEF Spec, ForeignFieldsOnlyByStaleSave

-----------------------------------------------------------------------------
\* One worker at a time.  The copy that it holds is the row as it is stored.
FreshCall(k) ==
    /\ k.pc = "status" => k.found.row = deploys[k.found.id]
    /\ k.pc = "ci" => \A f \in k.todo : f.row = deploys[f.id]

CopiesFresh == \A w \in Workers : FreshCall(svc[w])

\* Steps that save no row.
LEMMA ReadingKeepsFresh ==
    ASSUME TypeOK, CopiesFresh, deploys' = deploys, NEW w \in Workers, NEW k,
           FreshCall(k), svc' = [svc EXCEPT ![w] = k]
    PROVE  CopiesFresh'
  BY DEF TypeOK, CopiesFresh, FreshCall

\* A row that a CI call has saved stays the copy of no other row of its loop.
LEMMA CISaveKeepsFresh ==
    ASSUME \A v, w \in Workers : v = w, IInv, CopiesFresh, NEW w \in Workers, CISave(w)
    PROVE  CopiesFresh'
  <1>t. TypeOK
    BY DEF IInv
  <1>1. svc[w].pc = "ci" /\ svc[w] \in SvcState
    BY <1>t DEF CISave, TypeOK
  <1>2. svc[w].todo \in SUBSET Found /\ \A f \in svc[w].todo : f.row = deploys[f.id]
    BY <1>1, SvcFields DEF CopiesFresh, FreshCall
  <1>3. PICK f \in svc[w].todo :
            /\ deploys' = [deploys EXCEPT ![f.id] = WithCI(f, Event[svc[w].req])]
            /\ \/ \E err \in BOOLEAN : svc' = [svc EXCEPT ![w] = Returned(err)]
               \/ svc' = [svc EXCEPT ![w] =
                            [svc[w] EXCEPT !.todo = svc[w].todo \ {f}]]
    BY DEF CISave
  <1>4. \A v \in Workers : v = w
    OBVIOUS
  <1>5. ASSUME NEW err \in BOOLEAN, svc' = [svc EXCEPT ![w] = Returned(err)]
        PROVE  CopiesFresh'
    <2>1. svc'[w] = Returned(err)
      BY <1>5, <1>t DEF TypeOK
    <2> QED BY <1>4, <2>1 DEF CopiesFresh, FreshCall, Returned
  <1>6. CASE svc' = [svc EXCEPT ![w] = [svc[w] EXCEPT !.todo = svc[w].todo \ {f}]]
    <2>1. svc'[w] = [svc[w] EXCEPT !.todo = svc[w].todo \ {f}]
      BY <1>6, <1>t DEF TypeOK
    <2>2. svc'[w].pc = "ci" /\ svc'[w].todo = svc[w].todo \ {f}
      <3>1. \A c \in SvcState : c.pc = "ci" => \A s :
                LET m == [c EXCEPT !.todo = s] IN m.pc = "ci" /\ m.todo = s
        BY DEF SvcState, Free
      <3> QED BY <1>1, <2>1, <3>1
    <2>3. ASSUME NEW g \in svc[w].todo, g # f PROVE g.id # f.id
      <3>1. g \in Found /\ f \in Found /\ g.row = deploys[g.id] /\ f.row = deploys[f.id]
        BY <1>2, <2>3
      <3> QED BY <2>3, <3>1 DEF Found
    <2>4. \A g \in svc[w].todo \ {f} : g.row = deploys'[g.id]
      <3>1. \A g \in svc[w].todo : g.id \in Ids /\ g.row = deploys[g.id]
        BY <1>2, FoundFields
      <3>2. \A i \in Ids : i # f.id => deploys'[i] = deploys[i]
        BY <1>3, <1>t DEF TypeOK
      <3> QED BY <2>3, <3>1, <3>2
    <2> QED BY <1>4, <2>2, <2>4 DEF CopiesFresh, FreshCall
  <1> QED BY <1>3, <1>5, <1>6

LEMMA NextKeepsFresh ==
    ASSUME \A v, w \in Workers : v = w, IInv, CopiesFresh, [Next]_vars
    PROVE  CopiesFresh'
  <1>t. TypeOK
    BY DEF IInv
  <1>1. CASE UNCHANGED <<deploys, svc>>
    BY <1>1 DEF CopiesFresh, FreshCall
  <1>2. ASSUME NEW w \in Workers, NEW k, k.pc \notin {"status", "ci"}, deploys' = deploys,
               svc' = [svc EXCEPT ![w] = k]
        PROVE  CopiesFresh'
    BY <1>2, <1>t, ReadingKeepsFresh DEF FreshCall
  <1>3. ASSUME NEW w \in Workers, UpdateResult(w) \/ Crash(w) \/ DispatchFails(w)
        PROVE  CopiesFresh'
    BY <1>2, <1>3 DEF UpdateResult, Crash, DispatchFails, Free, Returned
  <1>4. ASSUME NEW w \in Workers, Dispatch(w)
        PROVE  CopiesFresh'
    <2>1. deploys' = deploys
      BY <1>4 DEF Dispatch
    <2>2. CASE svc' = [svc EXCEPT ![w] = Returned(FALSE)]
      BY <1>2, <2>1, <2>2 DEF Returned
    <2>3. CASE svc' = [svc EXCEPT ![w] = IngestStart(D(w))]
      <3>1. IngestStart(D(w)).pc \notin {"status", "ci"}
        BY DEF IngestStart, CreateOrLookup
      <3> QED BY <1>2, <2>1, <2>3, <3>1
    <2>4. CASE StatusFind(w, D(w))
      <3>1. CASE svc' = [svc EXCEPT ![w] = Returned(TRUE)]
        BY <1>2, <2>1, <3>1 DEF Returned
      <3>2. ASSUME NEW id, svc' = [svc EXCEPT ![w] = [pc |-> "status", req |-> D(w),
                        found |-> [id |-> id, row |-> deploys[id]]]]
            PROVE  CopiesFresh'
        <4> DEFINE k == [pc |-> "status", req |-> D(w), found |-> [id |-> id, row |-> deploys[id]]]
        <4>1. FreshCall(k)
          BY DEF FreshCall
        <4> HIDE DEF k
        <4>2. svc' = [svc EXCEPT ![w] = k]
          BY <3>2 DEF k
        <4> QED BY <1>t, <2>1, <4>1, <4>2, ReadingKeepsFresh
      <3> QED BY <2>4, <3>1, <3>2 DEF StatusFind
    <2>5. CASE CIFind(w, D(w))
      <3> DEFINE found == {[id |-> id, row |-> deploys[id]] :
                               id \in WithCommit(Event[D(w)].commit)}
      <3>1. CASE svc' = [svc EXCEPT ![w] = Returned(FALSE)]
        BY <1>2, <2>1, <3>1 DEF Returned
      <3>2. CASE svc' = [svc EXCEPT ![w] = [pc |-> "ci", req |-> D(w), todo |-> found]]
        <4> DEFINE k == [pc |-> "ci", req |-> D(w), todo |-> found]
        <4>1. FreshCall(k)
          BY DEF FreshCall
        <4> HIDE DEF k
        <4>2. svc' = [svc EXCEPT ![w] = k]
          BY <3>2 DEF k
        <4> QED BY <1>t, <2>1, <4>1, <4>2, ReadingKeepsFresh
      <3> QED BY <2>5, <3>1, <3>2 DEF CIFind
    <2> QED BY <1>4, <2>2, <2>3, <2>4, <2>5 DEF Dispatch
  <1>5. ASSUME NEW w \in Workers, IngestCheckExists(w) \/ IngestFindLast(w) \/ SvcFails(w)
        PROVE  CopiesFresh'
    <2>1. PICK k : /\ k.pc \notin {"status", "ci"}
                   /\ deploys' = deploys /\ svc' = [svc EXCEPT ![w] = k]
      BY <1>5 DEF IngestCheckExists, IngestFindLast, SvcFails, CreateOrLookup, Returned
    <2> QED BY <1>2, <2>1
  <1>6. ASSUME NEW w \in Workers, IngestCreate(w) \/ StatusSave(w)
        PROVE  CopiesFresh'
    <2>1. PICK err \in BOOLEAN : svc' = [svc EXCEPT ![w] = Returned(err)]
      BY <1>6 DEF IngestCreate, StatusSave
    <2>2. \A v \in Workers : svc'[v] = Returned(err)
      BY <2>1, <1>t DEF TypeOK
    <2> QED BY <2>2 DEF CopiesFresh, FreshCall, Returned
  <1> QED BY <1>1, <1>3, <1>4, <1>5, <1>6, CISaveKeepsFresh
          DEF Next, Step, Dequeue, CheckDelivery, RecordDelivery, DispatchUnknown, Serve, Ack,
              DeliveryFails, SvcStep, vars

\* With at most one worker, through every retry and crash, an outcome once
\* recorded is never erased, neither by a CI update nor by a status that is not
\* terminal (UpdateCIStatus and UpdateDeploymentStatus).
THEOREM SerialOutcomesStay ==
    ASSUME \A v, w \in Workers : v = w
    PROVE  Spec => OutcomeNeverErased
  <1> DEFINE Stays(id) == Exists(id) /\ deploys[id].outcome # "unknown"
                            => deploys'[id].outcome # "unknown"
  <1>1. Init => CopiesFresh
    <2>1. Free.pc \notin {"status", "ci"}
      BY DEF Free
    <2>2. ASSUME Init PROVE svc = [w \in Workers |-> Free]
      BY <2>2 DEF Init, InitDeploys
    <2> QED BY <2>1, <2>2 DEF CopiesFresh, FreshCall
  <1>2. IInv /\ CopiesFresh /\ [Next]_vars => CopiesFresh'
    BY NextKeepsFresh
  <1>3. ASSUME IInv, CopiesFresh, Next, NEW id \in Ids PROVE Stays(id)
    <2>t. TypeOK
      BY <1>3 DEF IInv
    <2>1. CASE UNCHANGED deploys
      BY <2>1
    <2>2. ASSUME NEW w \in Workers, IngestCreate(w) PROVE Stays(id)
      <3>1. Exists(id) => deploys'[id] = deploys[id]
        BY <2>2, <2>t DEF IngestCreate, TypeOK
      <3> QED BY <3>1
    <2>3. ASSUME NEW w \in Workers, StatusSave(w) PROVE Stays(id)
      <3> DEFINE i == svc[w].found.id
                 row == WithStatus(svc[w].found, Event[svc[w].req])
      <3>1. /\ svc[w].pc = "status" /\ svc[w] \in SvcState
            /\ deploys' = [deploys EXCEPT ![i] = row]
        BY <2>3, <2>t DEF StatusSave, TypeOK
      <3>2. /\ svc[w].found.row \in Row /\ svc[w].found.row = deploys[i]
        BY <1>3, <3>1, SvcFields, FoundFields DEF CopiesFresh, FreshCall
      <3>3. row.outcome \in {svc[w].found.row.outcome, "success", "failure"}
        BY <3>2 DEF WithStatus, OutcomeOf, Row
      <3>4. IF id = i THEN deploys'[id] = row ELSE deploys'[id] = deploys[id]
        BY <3>1, <2>t DEF TypeOK
      <3> HIDE DEF row
      <3> QED BY <3>2, <3>3, <3>4
    <2>4. ASSUME NEW w \in Workers, CISave(w) PROVE Stays(id)
      <3>1. PICK f \in svc[w].todo :
                deploys' = [deploys EXCEPT ![f.id] = WithCI(f, Event[svc[w].req])]
        BY <2>4 DEF CISave
      <3> DEFINE row == WithCI(f, Event[svc[w].req])
      <3>2. svc[w].pc = "ci" /\ svc[w] \in SvcState
        BY <2>4, <2>t DEF CISave, TypeOK
      <3>3. f.row \in Row /\ f.row = deploys[f.id]
        BY <1>3, <3>1, <3>2, SvcFields, FoundFields DEF CopiesFresh, FreshCall
      <3>4. row.outcome = f.row.outcome
        BY <3>3 DEF WithCI, Row
      <3>5. IF id = f.id THEN deploys'[id] = row ELSE deploys'[id] = deploys[id]
        BY <3>1, <2>t DEF TypeOK
      <3> HIDE DEF row
      <3> QED BY <3>3, <3>4, <3>5
    <2>5. \/ UNCHANGED deploys
          \/ \E w \in Workers : IngestCreate(w) \/ StatusSave(w) \/ CISave(w)
      BY <1>3 DEF Next, Step, Dequeue, CheckDelivery, RecordDelivery, Dispatch,
                  DispatchUnknown, Serve, UpdateResult, Ack, DeliveryFails,
                  DispatchFails, Crash, SvcStep, IngestCheckExists,
                  IngestFindLast, SvcFails
    <2> HIDE DEF Stays
    <2> QED BY <2>1, <2>2, <2>3, <2>4, <2>5
  <1>4. IInv /\ CopiesFresh /\ [Next]_vars => [\A id \in Ids : Stays(id)]_vars
    BY <1>3
  <1> QED BY <1>1, <1>2, <1>4, Invariance, PTL DEF Spec, OutcomeNeverErased

-----------------------------------------------------------------------------
\* The refinement of DeliveryLog.

\* What a worker knows of the delivery it owns: nobody has settled it, and the
\* calls that lead to a row are made only for a delivery that makes one.
PendingCall(w) ==
    /\ Owns(w) => delivery[D(w)] = "recorded"
    /\ svc[w].pc \in {"exists", "lookup", "create"} => Ingests(Event[D(w)])

Pending == \A w \in Workers : PendingCall(w)

\* A step of one worker that leaves it with the delivery it had, or with none.
LEMMA OwnStepPending ==
    ASSUME IInv, Pending, NEW w \in Workers, NEW x, NEW k,
           work' = [work EXCEPT ![w] = x], svc' = [svc EXCEPT ![w] = k],
           delivery' = delivery,
           x.pc \in {"dispatch", "serve"} => Owns(w) /\ x.task = work[w].task,
           k.pc \in {"exists", "lookup", "create"} =>
               x.task = work[w].task /\ Ingests(Event[D(w)])
    PROVE  Pending'
  <1>1. TypeOK
    BY DEF IInv
  <1>2. work'[w] = x /\ svc'[w] = k
    BY <1>1 DEF TypeOK
  <1>3. \A v \in Workers \ {w} : work'[v] = work[v] /\ svc'[v] = svc[v]
    BY <1>1 DEF TypeOK
  <1>4. ASSUME NEW v \in Workers \ {w} PROVE PendingCall(v)'
    BY <1>3, <1>4 DEF Pending, PendingCall, Owns, At, D
  <1>5. PendingCall(w)'
    BY <1>2 DEF Pending, PendingCall, Owns, At, D
  <1> QED BY <1>4, <1>5 DEF Pending

\* A delivery is recorded by a worker that nobody shares it with.
LEMMA RecordPending ==
    ASSUME IInv, Pending, NEW w \in Workers, RecordDelivery(w)
    PROVE  Pending'
  <1>1. TypeOK /\ svc[w] = Free
    BY NotServing DEF IInv, RecordDelivery, At
  <1>2. /\ delivery[D(w)] = "absent" /\ D(w) \in Deliveries
        /\ delivery' = [delivery EXCEPT ![D(w)] = "recorded"]
        /\ work' = [work EXCEPT ![w] = [pc |-> "dispatch", task |-> work[w].task]]
        /\ svc' = svc
    BY <1>1, AtFields DEF RecordDelivery, GoTo
  <1>3. PendingCall(w)'
    BY <1>1, <1>2 DEF PendingCall, Owns, At, D, TypeOK, Free
  <1>4. ASSUME NEW v \in Workers \ {w} PROVE PendingCall(v)'
    <2>1. work'[v] = work[v] /\ svc'[v] = svc[v] /\ PendingCall(v)
      BY <1>1, <1>2, <1>4 DEF TypeOK, Pending
    <2>2. Owns(v) => D(v) \in Deliveries
      BY <1>1, <1>4, OwnerFields
    <2> QED BY <1>1, <1>2, <2>1, <2>2 DEF PendingCall, Owns, At, D, TypeOK
  <1> QED BY <1>3, <1>4 DEF Pending

\* A delivery is settled by the only worker that owned it.
LEMMA ResultPending ==
    ASSUME IInv, Pending, NEW w \in Workers, UpdateResult(w)
    PROVE  Pending'
  <1>1. TypeOK /\ OneOwner /\ Owns(w)
    BY DEF IInv, UpdateResult, Owns
  <1>2. PICK result : delivery' = [delivery EXCEPT ![D(w)] = result]
    BY DEF UpdateResult
  <1>3. /\ work' = [work EXCEPT ![w] = Finished(w, svc[w].err)]
        /\ svc' = [svc EXCEPT ![w] = Free]
    BY DEF UpdateResult
  <1>4. PendingCall(w)'
    BY <1>1, <1>3 DEF PendingCall, Owns, At, D, TypeOK, Free, Finished
  <1>5. ASSUME NEW v \in Workers \ {w} PROVE PendingCall(v)'
    <2>1. work'[v] = work[v] /\ svc'[v] = svc[v] /\ PendingCall(v)
      BY <1>1, <1>3, <1>5 DEF TypeOK, Pending
    <2>2. Owns(v) => D(v) # D(w) /\ D(v) \in Deliveries
      BY <1>1, <1>5, OwnerFields DEF OneOwner
    <2> QED BY <1>1, <1>2, <2>1, <2>2 DEF PendingCall, Owns, At, D, TypeOK
  <1> QED BY <1>4, <1>5 DEF Pending

LEMMA DispatchPending ==
    ASSUME IInv, Pending, NEW w \in Workers, Dispatch(w)
    PROVE  Pending'
  <1>1. /\ Owns(w) /\ delivery' = delivery
        /\ work' = [work EXCEPT ![w] = [pc |-> "serve", task |-> work[w].task]]
    BY DEF Dispatch, Owns, GoTo
  <1> DEFINE Fits(k) == k.pc \in {"exists", "lookup", "create"} => Ingests(Event[D(w)])
  <1>r. \A b : Fits(Returned(b))
    BY DEF Returned
  <1>s. \A f : Fits([pc |-> "status", req |-> D(w), found |-> f])
    OBVIOUS
  <1>c. \A f : Fits([pc |-> "ci", req |-> D(w), todo |-> f])
    OBVIOUS
  <1>2. PICK k : svc' = [svc EXCEPT ![w] = k] /\ Fits(k)
    <2> HIDE DEF Fits
    <2>1. CASE svc' = [svc EXCEPT ![w] = Returned(FALSE)]
      BY <1>r, <2>1
    <2>2. CASE Ingests(Event[D(w)]) /\ svc' = [svc EXCEPT ![w] = IngestStart(D(w))]
      BY <2>2 DEF Fits
    <2>3. CASE StatusFind(w, D(w))
      BY <1>r, <1>s, <2>3 DEF StatusFind
    <2>4. CASE CIFind(w, D(w))
      <3> DEFINE found == {[id |-> id, row |-> deploys[id]] :
                              id \in WithCommit(Event[D(w)].commit)}
      <3>1. CASE found = {}
        BY <1>r, <2>4, <3>1 DEF CIFind
      <3>2. CASE found # {}
        BY <1>c, <2>4, <3>2 DEF CIFind
      <3> QED BY <3>1, <3>2
    <2> QED BY <2>1, <2>2, <2>3, <2>4 DEF Dispatch
  <1> QED BY <1>1, <1>2, OwnStepPending

\* Inside the service a call leads to a row only if it did before.
LEMMA ServePending ==
    ASSUME IInv, Pending, NEW w \in Workers, Serve(w)
    PROVE  Pending'
  <1>1. svc[w].pc \in InService
    BY DEF Serve, SvcStep, IngestCheckExists, IngestFindLast, IngestCreate,
           StatusSave, CISave, SvcFails, InService
  <1>2. /\ Owns(w) /\ PendingCall(w) /\ delivery' = delivery
        /\ work' = [work EXCEPT ![w] = [pc |-> "serve", task |-> work[w].task]]
        /\ svc[w] \in SvcState
    BY <1>1, Serving DEF Serve, Pending
  <1> DEFINE Fits(k) == k.pc \in {"exists", "lookup", "create"} =>
                            svc[w].pc \in {"exists", "lookup", "create"}
  <1>r. \A b : Fits(Returned(b))
    BY DEF Returned
  <1>3. PICK k : svc' = [svc EXCEPT ![w] = k] /\ Fits(k)
    <2>1. CASE IngestCheckExists(w)
      BY <2>1 DEF IngestCheckExists
    <2>2. CASE IngestFindLast(w)
      BY <2>2 DEF IngestFindLast
    <2>3. CASE IngestCreate(w) \/ StatusSave(w) \/ SvcFails(w)
      <3> HIDE DEF Fits
      <3> QED BY <1>r, <2>3 DEF IngestCreate, StatusSave, SvcFails
    <2>4. CASE CISave(w)
      <3>1. PICK f \in svc[w].todo :
                \/ \E err \in BOOLEAN : svc' = [svc EXCEPT ![w] = Returned(err)]
                \/ svc' = [svc EXCEPT ![w] = [svc[w] EXCEPT !.todo = svc[w].todo \ {f}]]
        BY <2>4 DEF CISave
      <3>2. \A c \in SvcState : c.pc = "ci" => \A s : [c EXCEPT !.todo = s].pc = "ci"
        BY DEF SvcState, Free
      <3>3. Fits([svc[w] EXCEPT !.todo = svc[w].todo \ {f}])
        BY <1>2, <2>4, <3>2 DEF CISave
      <3> HIDE DEF Fits
      <3> QED BY <1>r, <3>1, <3>3
    <2> QED BY <2>1, <2>2, <2>3, <2>4 DEF Serve, SvcStep
  <1> QED BY <1>2, <1>3, OwnStepPending DEF PendingCall

LEMMA PendingInit == Init => Pending
  <1> SUFFICES ASSUME Init PROVE Pending
    OBVIOUS
  <1>1. Idle.pc \notin {"dispatch", "serve"}
    BY DEF Idle
  <1>2. Free.pc \notin {"exists", "lookup", "create"}
    BY DEF Free
  <1>3. \A w \in Workers : work[w] = Idle /\ svc[w] = Free
    BY DEF Init, InitDeploys
  <1> QED BY <1>1, <1>2, <1>3 DEF Pending, PendingCall, Owns, At

LEMMA PendingNext ==
    ASSUME IInv, Pending, [Next]_vars
    PROVE  Pending'
  <1>t. TypeOK
    BY DEF IInv
  <1>1. CASE UNCHANGED vars
    BY <1>1 DEF vars, Pending, PendingCall, Owns, At, D
  <1>2. ASSUME NEW w \in Workers, NEW x, x.pc \notin {"dispatch", "serve"},
               work' = [work EXCEPT ![w] = x],
               svc' = [svc EXCEPT ![w] = Free], delivery' = delivery
        PROVE  Pending'
    BY <1>2, OwnStepPending DEF Free
  <1>3. ASSUME NEW w \in Workers, NEW t \in Tasks, Dequeue(w, t)
        PROVE  Pending'
    <2>1. svc' = [svc EXCEPT ![w] = Free]
      BY <1>3, <1>t, NotServing DEF Dequeue, At, Idle
    <2> QED BY <1>2, <1>3, <2>1 DEF Dequeue
  <1>4. ASSUME NEW w \in Workers,
               CheckDelivery(w) \/ DeliveryFails(w) \/ DispatchUnknown(w) \/ Ack(w)
        PROVE  Pending'
    <2>1. svc' = [svc EXCEPT ![w] = Free] /\ delivery' = delivery
      BY <1>4, <1>t, NotServing
         DEF CheckDelivery, DeliveryFails, DispatchUnknown, Ack, At
    <2> DEFINE Unowned(x) == x.pc \notin {"dispatch", "serve"}
    <2>2. /\ \A b : Unowned(Finished(w, b))
          /\ Unowned([pc |-> "record", task |-> work[w].task]) /\ Unowned(Idle)
      BY DEF Finished, Idle
    <2>3. \E x : Unowned(x) /\ work' = [work EXCEPT ![w] = x]
      <3> HIDE DEF Unowned
      <3>1. CASE CheckDelivery(w)
        BY <2>2, <3>1 DEF CheckDelivery
      <3>2. CASE DeliveryFails(w) \/ DispatchUnknown(w) \/ Ack(w)
        BY <2>2, <3>2 DEF DeliveryFails, DispatchUnknown, Ack
      <3> QED BY <1>4, <3>1, <3>2
    <2> QED BY <1>2, <2>1, <2>3
  <1>5. ASSUME NEW w \in Workers, Crash(w)
        PROVE  Pending'
    BY <1>2, <1>5 DEF Crash, Idle
  <1>6. ASSUME NEW w \in Workers, DispatchFails(w)
        PROVE  Pending'
    BY <1>6, OwnStepPending DEF DispatchFails, GoTo, Owns, Returned
  <1> QED
    BY <1>1, <1>3, <1>4, <1>5, <1>6, RecordPending, ResultPending, DispatchPending,
       ServePending DEF Next, Step

\* A whole-row save leaves each row with the delivery it came from.
LEMMA SavesKeepFrom ==
    ASSUME IInv, NEW w \in Workers, StatusSave(w) \/ CISave(w)
    PROVE  \A id \in Ids : deploys'[id].from = deploys[id].from
  <1>1. TypeOK /\ CallOK(w)
    BY DEF IInv
  <1>2. PICK f \in Found, row \in Row :
            /\ Kept(f) /\ row.from = f.row.from
            /\ deploys' = [deploys EXCEPT ![f.id] = row]
    <2>1. CASE StatusSave(w)
      <3>1. svc[w].pc = "status" /\ svc[w].found \in Found /\ Kept(svc[w].found)
        BY <1>1, <2>1, SvcFields DEF StatusSave, TypeOK, CallOK
      <3> QED BY <2>1, <3>1, StatusWitnessed DEF StatusSave
    <2>2. CASE CISave(w)
      <3>1. svc[w].pc = "ci" /\ \A f \in svc[w].todo : Kept(f)
        BY <1>1, <2>2 DEF CISave, CallOK
      <3> QED BY <2>2, <3>1, CIWitnessed DEF CISave
    <2> QED BY <2>1, <2>2
  <1>3. deploys[f.id].from = row.from
    BY <1>2 DEF Kept
  <1>4. \A id \in Ids : IF id = f.id THEN deploys'[id] = row ELSE deploys'[id] = deploys[id]
    BY <1>1, <1>2 DEF TypeOK
  <1> QED BY <1>3, <1>4

\* The log is settled by the result of a worker that owns its delivery.
LEMMA ResultStep ==
    ASSUME IInv, Pending, NEW w \in Workers, UpdateResult(w)
    PROVE  [Log!Next]_<<delivery, source>>
  <1>1. /\ TypeOK /\ CallOK(w) /\ Owns(w) /\ svc[w].pc = "returned"
        /\ svc[w].err \in BOOLEAN
    BY SvcFields DEF IInv, TypeOK, UpdateResult, Owns
  <1>2. D(w) \in Deliveries /\ delivery[D(w)] = "recorded"
    BY <1>1, OwnerFields DEF Pending, PendingCall
  <1>3. source' = source
    BY DEF UpdateResult, source
  <1>4. PICK result \in {ResultOf(svc[w].err), delivery[D(w)]} :
            delivery' = [delivery EXCEPT ![D(w)] = result]
    BY DEF UpdateResult
  <1>5. CASE result = delivery[D(w)]
    <2>1. delivery' = delivery
      BY <1>1, <1>2, <1>4, <1>5 DEF TypeOK
    <2> QED BY <1>3, <2>1
  <1>6. CASE result = ResultOf(svc[w].err)
    <2>1. result \in {"processed", "failed"}
      BY <1>6 DEF ResultOf
    <2>2. ASSUME result = "processed", Ingests(Event[D(w)])
          PROVE  Log!HasRow(D(w))
      <3>1. ~svc[w].err
        BY <1>1, <1>6, <2>2 DEF ResultOf
      <3>2. PICK id \in Ids : deploys[id].from = D(w)
        BY <1>1, <2>2, <3>1 DEF CallOK
      <3> QED BY <3>2 DEF Log!HasRow, source
    <2>3. Log!Settle(D(w), result)
      BY <1>2, <1>3, <1>4, <2>2 DEF Log!Settle
    <2> QED BY <1>2, <2>1, <2>3 DEF Log!Next
  <1> QED BY <1>4, <1>5, <1>6

\* An insert stores the row of a delivery that is recorded and had none.
LEMMA CreateStep ==
    ASSUME IInv, Pending, NEW w \in Workers, IngestCreate(w), delivery' = delivery
    PROVE  Log!Next
  <1>1. TypeOK /\ CallOK(w) /\ svc[w].pc = "create" /\ svc[w].pc \in InService
    BY DEF IInv, IngestCreate, InService
  <1>2. /\ Owns(w) /\ D(w) \in Deliveries /\ svc[w].req = D(w)
    BY <1>1, Serving
  <1>3. delivery[D(w)] = "recorded" /\ Ingests(Event[D(w)])
    BY <1>1, <1>2 DEF Pending, PendingCall
  <1>4. \A id \in Ids : deploys[id].from # D(w)
    BY <1>1 DEF CallOK, Unsaved
  <1>5. PICK i \in Ids :
            /\ ~Exists(i)
            /\ deploys' = [deploys EXCEPT ![i] = NewRow(D(w), svc[w].reverts)]
    BY <1>2 DEF IngestCreate
  <1>6. NewRow(D(w), svc[w].reverts).from = D(w)
    BY DEF NewRow
  <1>7. deploys[i].from = NoValue
    BY <1>5 DEF Exists, NoRow
  <1>8. source' = [source EXCEPT ![i] = D(w)]
    BY <1>1, <1>5, <1>6 DEF source, TypeOK
  <1>9. Log!Store(D(w), i)
    BY <1>2, <1>3, <1>4, <1>7, <1>8 DEF Log!Store, Log!HasRow, source
  <1> QED BY <1>2, <1>9 DEF Log!Next

LEMMA LogStep ==
    ASSUME IInv, Pending, [Next]_vars
    PROVE  [Log!Next]_<<delivery, source>>
  <1>t. TypeOK
    BY DEF IInv
  <1>1. CASE UNCHANGED <<deploys, delivery>>
    BY <1>1 DEF source
  <1>2. ASSUME NEW w \in Workers, RecordDelivery(w)
        PROVE  [Log!Next]_<<delivery, source>>
    <2>1. D(w) \in Deliveries
      BY <1>2, <1>t, AtFields DEF RecordDelivery
    <2>2. Log!Record(D(w))
      BY <1>2 DEF RecordDelivery, Log!Record, source
    <2> QED BY <2>1, <2>2 DEF Log!Next
  <1>3. ASSUME NEW w \in Workers, StatusSave(w) \/ CISave(w), delivery' = delivery
        PROVE  [Log!Next]_<<delivery, source>>
    <2>1. \A id \in Ids : deploys'[id].from = deploys[id].from
      BY <1>3, SavesKeepFrom
    <2> QED BY <1>3, <2>1 DEF source
  <1>4. ASSUME NEW w \in Workers, Serve(w)
        PROVE  [Log!Next]_<<delivery, source>>
    <2>1. delivery' = delivery
      BY <1>4 DEF Serve
    <2>2. CASE IngestCreate(w)
      BY <2>1, <2>2, CreateStep
    <2>3. CASE StatusSave(w) \/ CISave(w)
      BY <1>3, <2>1, <2>3
    <2>4. CASE IngestCheckExists(w) \/ IngestFindLast(w) \/ SvcFails(w)
      BY <1>1, <2>1, <2>4 DEF IngestCheckExists, IngestFindLast, SvcFails
    <2> QED BY <1>4, <2>2, <2>3, <2>4 DEF Serve, SvcStep
  <1>5. ASSUME NEW w \in Workers, Step(w)
        PROVE  [Log!Next]_<<delivery, source>>
    <2>1. CASE \/ CheckDelivery(w) \/ Dispatch(w) \/ DispatchUnknown(w) \/ Ack(w)
               \/ DeliveryFails(w)
      BY <1>1, <2>1 DEF CheckDelivery, Dispatch, DispatchUnknown, Ack, DeliveryFails
    <2>2. CASE UpdateResult(w)
      BY <2>2, ResultStep
    <2> QED BY <1>2, <1>4, <1>5, <2>1, <2>2 DEF Step
  <1>6. ASSUME NEW w \in Workers,
               DispatchFails(w) \/ Crash(w) \/ \E t \in Tasks : Dequeue(w, t)
        PROVE  [Log!Next]_<<delivery, source>>
    BY <1>1, <1>6 DEF DispatchFails, Crash, Dequeue
  <1>7. CASE UNCHANGED vars
    BY <1>1, <1>7 DEF vars
  <1> QED BY <1>5, <1>6, <1>7 DEF Next

\* The workers implement the log, whatever is retried, handed out twice or left
\* by a crash: a delivery is recorded, stored and settled in this order and at
\* most once, and settled as processed only with its row.
THEOREM LogCorrect == Spec => KeepsTheLog
  <1>1. Init => Pending
    BY PendingInit
  <1>2. Init => Log!Init
    BY DEF Init, InitDeploys, Log!Init, source, NoRow
  <1>3. IInv /\ Pending /\ [Next]_vars => Pending'
    BY PendingNext
  <1>4. IInv /\ Pending /\ [Next]_vars => [Log!Next]_<<delivery, source>>
    BY LogStep
  <1> QED BY <1>1, <1>2, <1>3, <1>4, Invariance, PTL DEF Spec, KeepsTheLog, Log!Spec

-----------------------------------------------------------------------------
\* Tasks that are run once, one for each delivery.
RunOnce ==
    /\ MaxRetry = 0
    /\ \A t, u \in Tasks : TaskDelivery[t] = TaskDelivery[u] => t = u

\* What a task in some state says of its delivery.
TaskFits(t) ==
    /\ tasks[t].state \in {"absent", "queued"} => delivery[TaskDelivery[t]] = "absent"
    /\ tasks[t].state = "done" => delivery[TaskDelivery[t]] # "failed"

\* What a worker at some point of its task says of the delivery.
WorkerFits(w) ==
    /\ work[w] # Idle => tasks[work[w].task].state = "active"
    /\ At(w, "check") \/ At(w, "record") => delivery[D(w)] = "absent"
    /\ At(w, "ack") /\ ~work[w].err => delivery[D(w)] # "failed"

\* A task is handed to one worker at most.
Unshared ==
    \A v, w \in Workers :
        work[v] # Idle /\ work[w] # Idle /\ work[v].task = work[w].task => v = w

FirstRun ==
    Unshared /\ (\A t \in Tasks : TaskFits(t)) /\ (\A w \in Workers : WorkerFits(w))

\* A step of a worker on its task, which touches no other task's delivery.
LEMMA OwnTaskStep ==
    ASSUME RunOnce, TypeOK, FirstRun, NEW w \in Workers, NEW t \in Tasks,
           \A v \in Workers \ {w} : work'[v] = work[v],
           \A v \in Workers \ {w} : work[v] # Idle => work[v].task # t,
           \A u \in Tasks \ {t} : tasks'[u] = tasks[u],
           \A d \in Deliveries : d # TaskDelivery[t] => delivery'[d] = delivery[d],
           work'[w] # Idle => work'[w].task = t,
           TaskFits(t)', WorkerFits(w)'
    PROVE  FirstRun'
  <1>1. \A u \in Tasks : TaskDelivery[u] \in Deliveries
    BY TasksOK
  <1>2. Unshared'
    BY DEF FirstRun, Unshared
  <1>3. ASSUME NEW u \in Tasks PROVE TaskFits(u)'
    <2>1. CASE u = t
      BY <2>1
    <2>2. CASE u # t
      <3>1. /\ tasks'[u] = tasks[u] /\ TaskFits(u)
            /\ delivery'[TaskDelivery[u]] = delivery[TaskDelivery[u]]
        BY <1>1, <2>2 DEF RunOnce, FirstRun
      <3> QED BY <3>1 DEF TaskFits
    <2> QED BY <2>1, <2>2
  <1>4. ASSUME NEW v \in Workers PROVE WorkerFits(v)'
    <2>1. CASE v = w
      BY <2>1
    <2>2. CASE v # w /\ work[v] = Idle
      BY <2>2 DEF WorkerFits, At, Idle
    <2>3. CASE v # w /\ work[v] # Idle
      <3>1. work[v].task \in Tasks \ {t}
        BY <2>3, WorkFields DEF TypeOK
      <3>2. /\ work'[v] = work[v] /\ tasks'[work[v].task] = tasks[work[v].task]
            /\ delivery'[D(v)] = delivery[D(v)] /\ WorkerFits(v)
        BY <1>1, <2>3, <3>1 DEF RunOnce, FirstRun, D
      <3> QED BY <3>2 DEF WorkerFits, At, D
    <2> QED BY <2>1, <2>2, <2>3
  <1> QED BY <1>2, <1>3, <1>4 DEF FirstRun

LEMMA FirstRunNext ==
    ASSUME RunOnce, IInv, Pending, FirstRun, [Next]_vars
    PROVE  FirstRun'
  <1>t. TypeOK
    BY DEF IInv
  <1>1. CASE UNCHANGED vars
    BY <1>1 DEF vars, FirstRun, Unshared, TaskFits, WorkerFits, At, D
  <1>2. ASSUME NEW w \in Workers, NEW t \in Tasks, Dequeue(w, t)
        PROVE  FirstRun'
    <2>1. /\ work'[w] = [pc |-> "check", task |-> t]
          /\ tasks'[t].state = "active" /\ delivery' = delivery
          /\ delivery[TaskDelivery[t]] = "absent"
      BY <1>2, <1>t DEF Dequeue, TypeOK, FirstRun, TaskFits, Task
    <2>2. /\ \A v \in Workers \ {w} : work'[v] = work[v]
          /\ \A u \in Tasks \ {t} : tasks'[u] = tasks[u]
      BY <1>2, <1>t DEF Dequeue, TypeOK
    <2>3. \A v \in Workers \ {w} : work[v] # Idle => work[v].task # t
      BY <1>2 DEF Dequeue, FirstRun, WorkerFits
    <2>4. TaskFits(t)' /\ WorkerFits(w)'
      BY <2>1 DEF TaskFits, WorkerFits, At, D
    <2> QED BY <1>t, <2>1, <2>2, <2>3, <2>4, OwnTaskStep
  \* A worker that is not idle: its task is active, and nobody else has it.
  <1>3. ASSUME NEW w \in Workers, work[w] # Idle, NEW t \in Tasks, t = work[w].task,
               NEW x, work' = [work EXCEPT ![w] = x], x # Idle => x.task = t,
               \A u \in Tasks \ {t} : tasks'[u] = tasks[u],
               \A d \in Deliveries : d # TaskDelivery[t] => delivery'[d] = delivery[d],
               TaskFits(t)', WorkerFits(w)'
        PROVE  FirstRun'
    <2>1. /\ \A v \in Workers \ {w} : work'[v] = work[v]
          /\ work'[w] = x
          /\ \A v \in Workers \ {w} : work[v] # Idle => work[v].task # t
      BY <1>3, <1>t DEF TypeOK, FirstRun, Unshared
    <2> QED BY <1>3, <1>t, <2>1, OwnTaskStep
  <1>4. ASSUME NEW w \in Workers, NEW x, work[w] # Idle,
               work' = [work EXCEPT ![w] = x], x.pc \in {"record", "dispatch", "serve", "ack"},
               x.task = work[w].task, tasks' = tasks,
               \A d \in Deliveries : d # D(w) => delivery'[d] = delivery[d],
               x.pc = "record" => delivery'[TaskDelivery[x.task]] = "absent",
               x.pc = "ack" /\ ~x.err => delivery'[TaskDelivery[x.task]] # "failed"
        PROVE  FirstRun'
    <2>1. PICK t \in Tasks : t = work[w].task
      BY <1>4, <1>t, WorkFields DEF TypeOK
    <2>2. work'[w] = x /\ tasks[t].state = "active" /\ TaskDelivery[t] = D(w)
      BY <1>4, <1>t, <2>1 DEF TypeOK, FirstRun, WorkerFits, D
    <2>3. TaskFits(t)'
      BY <1>4, <2>2 DEF TaskFits
    <2>4. WorkerFits(w)'
      BY <1>4, <2>1, <2>2 DEF WorkerFits, At, D
    <2> QED BY <1>3, <1>4, <2>1, <2>2, <2>3, <2>4
  <1>5. ASSUME NEW w \in Workers, work[w] # Idle, NEW err \in BOOLEAN,
               Settle(work[w].task, err), work' = [work EXCEPT ![w] = Idle],
               delivery' = delivery, ~err => delivery[D(w)] # "failed"
        PROVE  FirstRun'
    <2>1. PICK t \in Tasks : t = work[w].task
      BY <1>5, <1>t, WorkFields DEF TypeOK
    <2>2. Settled(tasks[t], err).state = IF err THEN "archived" ELSE "done"
      BY <1>t DEF Settled, RunOnce, Task, TypeOK
    <2>3. /\ tasks'[t] = Settled(tasks[t], err)
          /\ \A u \in Tasks \ {t} : tasks'[u] = tasks[u]
      BY <1>5, <1>t, <2>1 DEF Settle, TypeOK
    <2>4. TaskFits(t)'
      BY <1>5, <2>1, <2>2, <2>3 DEF TaskFits, D
    <2>5. WorkerFits(w)'
      BY <1>5, <1>t DEF WorkerFits, At, Idle, TypeOK
    <2> QED BY <1>3, <1>5, <2>1, <2>3, <2>4, <2>5
  <1>6. ASSUME NEW w \in Workers, Step(w) \/ DispatchFails(w) \/ Crash(w)
        PROVE  FirstRun'
    <2>w. WorkerFits(w) /\ CallOK(w) /\ PendingCall(w)
      BY DEF FirstRun, IInv, Pending
    <2>1. CASE CheckDelivery(w)
      <3>1. work[w] # Idle /\ delivery[TaskDelivery[work[w].task]] = "absent"
        BY <1>t, <2>1, <2>w, AtFields DEF CheckDelivery, WorkerFits, D
      <3>2. work' = [work EXCEPT ![w] = [pc |-> "record", task |-> work[w].task]]
        BY <2>1, <3>1 DEF CheckDelivery, D
      <3> QED BY <1>4, <2>1, <3>1, <3>2 DEF CheckDelivery
    <2>2. CASE RecordDelivery(w)
      BY <1>4, <1>t, <2>2, AtFields DEF RecordDelivery, GoTo, TypeOK
    <2>3. CASE Dispatch(w) \/ DispatchFails(w)
      BY <1>4, <1>t, <2>3, AtFields DEF Dispatch, DispatchFails, GoTo
    <2>4. CASE DispatchUnknown(w)
      <3>1. work[w] # Idle /\ delivery[TaskDelivery[work[w].task]] = "recorded"
        BY <1>t, <2>4, <2>w, AtFields DEF DispatchUnknown, PendingCall, Owns, D
      <3> QED BY <1>4, <2>4, <3>1 DEF DispatchUnknown, Finished
    <2>5. CASE Serve(w)
      BY <2>5 DEF Serve, FirstRun, Unshared, TaskFits, WorkerFits, At, D
    <2>6. CASE UpdateResult(w)
      <3>1. /\ work[w] # Idle /\ D(w) \in Deliveries /\ delivery[D(w)] = "recorded"
        BY <1>t, <2>6, <2>w, AtFields DEF UpdateResult, PendingCall, Owns
      <3>2. ~svc[w].err => delivery'[TaskDelivery[work[w].task]] # "failed"
        BY <1>t, <2>6, <3>1 DEF UpdateResult, ResultOf, TypeOK, D
      <3>3. \A d \in Deliveries : d # D(w) => delivery'[d] = delivery[d]
        BY <1>t, <2>6 DEF UpdateResult, TypeOK
      <3> QED BY <1>4, <2>6, <3>1, <3>2, <3>3 DEF UpdateResult, Finished
    <2>7. CASE Ack(w)
      <3>1. work[w] # Idle /\ work[w].err \in BOOLEAN
        BY <1>t, <2>7, AtFields, WorkFields DEF Ack, At, TypeOK
      <3> QED BY <1>5, <2>7, <2>w, <3>1 DEF Ack, WorkerFits
    <2>8. CASE DeliveryFails(w)
      BY <1>4, <1>t, <2>8, AtFields DEF DeliveryFails, Finished
    <2>9. CASE Crash(w)
      BY <1>5, <2>9 DEF Crash
    <2> QED BY <1>6, <2>1, <2>2, <2>3, <2>4, <2>5, <2>6, <2>7, <2>8, <2>9 DEF Step
  <1> QED BY <1>1, <1>2, <1>6 DEF Next

\* Retries and second tasks are all that hides a failure: with no retry and one
\* task to a delivery, a task is acknowledged only if its delivery did not fail.
THEOREM SingleRunsReportFailures ==
    ASSUME RunOnce
    PROVE  Spec => []FailedIsNotAcknowledged
  <1>1. ASSUME Init PROVE FirstRun
    <2>1. \A w \in Workers : work[w] = Idle
      BY <1>1 DEF Init
    <2>2. Idle.pc = "idle"
      BY DEF Idle
    <2>3. \A t \in Tasks : tasks[t].state \in {"absent", "queued"}
      BY <1>1 DEF Init
    <2>4. \A t \in Tasks : delivery[TaskDelivery[t]] = "absent"
      BY <1>1, TasksOK DEF Init
    <2> QED BY <2>1, <2>2, <2>3, <2>4 DEF FirstRun, Unshared, TaskFits, WorkerFits, At
  <1>2. Init => Pending
    BY PendingInit
  <1>3. IInv /\ Pending /\ [Next]_vars => Pending'
    BY PendingNext
  <1>4. IInv /\ Pending /\ FirstRun /\ [Next]_vars => FirstRun'
    BY FirstRunNext
  <1>5. FirstRun => FailedIsNotAcknowledged
    BY DEF FirstRun, TaskFits, FailedIsNotAcknowledged
  <1> QED BY <1>1, <1>2, <1>3, <1>4, <1>5, Invariance, PTL DEF Spec
=============================================================================
