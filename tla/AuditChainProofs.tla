-------------------------- MODULE AuditChainProofs --------------------------
(***************************************************************************)
(* Proofs about AuditChain for any number of writers, organisations,       *)
(* records and clock readings.                                             *)
(*                                                                         *)
(* VerifyChain speaks of a sorted table; the invariant that the appends    *)
(* preserve speaks of each record alone: Linked says that a record names   *)
(* the newest of the records stamped before it.  It survives an append     *)
(* because, in an undisturbed organisation, the one writer in flight still *)
(* holds the newest record (HoldsNewest) and was stamped after all of them.*)
(***************************************************************************)
EXTENDS AuditChain, FiniteSetTheorems, TLAPS

OrgOf(s) == IF s.pc = "stamp" THEN s.org ELSE s.record.org

PrevOf(s) == IF s.pc = "stamp" THEN s.previousHash ELSE s.record.previousHash

LinkOK(prev, o) == prev = NoValue \/ prev \in RecordsOf(o)

\* Every link, stored or about to be, leads to a stored record of its tenant.
LinksOK ==
    /\ \A id \in Ids : Stored(id) =>
            LinkOK(records[id].previousHash, records[id].org)
    /\ \A w \in Writers : writers[w] # Idle =>
            LinkOK(PrevOf(writers[w]), OrgOf(writers[w]))

\* An organisation that has records has one without a predecessor.
Genesis ==
    \A o \in Orgs : RecordsOf(o) # {} =>
        \E id \in RecordsOf(o) : records[id].previousHash = NoValue

OneWriter(o) ==
    \A v, w \in Writers :
        writers[v] # Idle /\ writers[w] # Idle
            /\ OrgOf(writers[v]) = o /\ OrgOf(writers[w]) = o => v = w

DistinctStamps(o) ==
    \A i, j \in RecordsOf(o) :
        records[i].createdAt = records[j].createdAt => i = j

Linked(id, o) ==
    LET earlier == {j \in RecordsOf(o) :
                        records[j].createdAt < records[id].createdAt}
        prev == records[id].previousHash
    IN  IF earlier = {} THEN prev = NoValue
        ELSE prev \in earlier /\ \A j \in earlier :
                records[j].createdAt <= records[prev].createdAt

HoldsNewest(o) ==
    \A w \in Writers : writers[w] # Idle /\ OrgOf(writers[w]) = o =>
        /\ IsLatest(PrevOf(writers[w]), o)
        /\ writers[w].pc = "insert" => \A id \in RecordsOf(o) :
                records[id].createdAt < writers[w].record.createdAt

QuietOK ==
    \A o \in Orgs \ disturbed :
        /\ OneWriter(o)
        /\ DistinctStamps(o)
        /\ \A id \in RecordsOf(o) : Linked(id, o)
        /\ HoldsNewest(o)

IInv == TypeOK /\ LinksOK /\ Genesis /\ QuietOK

-----------------------------------------------------------------------------
LEMMA RecordExists == ASSUME NEW r \in Record PROVE r # NoRecord
  BY ChainOK DEF Record, NoRecord

\* Each of a writer's three states has its own pc, so the pc tells its fields.
LEMMA WriterFields ==
    ASSUME NEW s \in WriterState
    PROVE  /\ s.pc = "stamp" => /\ s.id \in Ids
                                /\ s.org \in Orgs
                                /\ s.previousHash \in Ids \cup {NoValue}
                                /\ s # Idle
           /\ s.pc = "insert" => /\ s.id \in Ids
                                 /\ s.record \in Record
                                 /\ s # Idle
           /\ s # Idle => s.pc \in {"stamp", "insert"}
           /\ s = Idle => s.pc = "idle"
  BY DEF WriterState, Idle

LEMMA StoredFields ==
    ASSUME TypeOK, NEW o, NEW id \in RecordsOf(o)
    PROVE  /\ id \in Ids
           /\ records[id] \in Record
           /\ records[id].org = o
           /\ records[id].createdAt \in Nat
           /\ records[id].previousHash \in Ids \cup {NoValue}
  BY DEF TypeOK, RecordsOf, Stored, Record

LEMMA InFlightIsActive ==
    ASSUME TypeOK, NEW o \in Orgs, NEW w \in Writers
    PROVE  w \in InFlight(o) <=> writers[w] # Idle /\ OrgOf(writers[w]) = o
  BY WriterFields DEF TypeOK, InFlight, OrgOf

LEMMA InitIInv == Init => IInv
  <1> SUFFICES ASSUME Init PROVE IInv
    OBVIOUS
  <1>1. \A o : RecordsOf(o) = {}
    BY DEF Init, RecordsOf, Stored
  <1>2. TypeOK
    BY DEF Init, TypeOK, WriterState
  <1>3. LinksOK /\ Genesis
    BY <1>1 DEF Init, LinksOK, Genesis, Stored
  <1>4. QuietOK
    BY <1>1 DEF Init, QuietOK, OneWriter, DistinctStamps, HoldsNewest
  <1> QED BY <1>2, <1>3, <1>4 DEF IInv

-----------------------------------------------------------------------------
LEMMA BeforeCreateKeepsIInv ==
    ASSUME IInv, NEW w \in Writers, NEW o \in Orgs, NEW id \in Ids,
           BeforeCreate(w, o, id)
    PROVE  IInv'
  <1>1. PICK prev \in Ids \cup {NoValue} :
          /\ IsLatest(prev, o)
          /\ writers' = [writers EXCEPT ![w] =
                [pc |-> "stamp", id |-> id, org |-> o, previousHash |-> prev]]
    BY DEF BeforeCreate
  <1>2. records' = records /\ writers[w] = Idle
    BY DEF BeforeCreate
  <1>3. /\ writers'[w].pc = "stamp" /\ writers'[w] # Idle
        /\ OrgOf(writers'[w]) = o /\ PrevOf(writers'[w]) = prev
        /\ \A v \in Writers \ {w} : writers'[v] = writers[v]
    BY <1>1 DEF IInv, TypeOK, OrgOf, PrevOf, Idle
  <1>4. \A oo : RecordsOf(oo)' = RecordsOf(oo)
    BY <1>2 DEF RecordsOf, Stored
  <1>5. TypeOK'
    BY <1>1, <1>2 DEF IInv, TypeOK, BeforeCreate, WriterState
  <1>6. LinkOK(prev, o)
    BY <1>1 DEF IsLatest, NewestOf, LinkOK
  <1>7. LinksOK'
    BY <1>2, <1>3, <1>4, <1>6 DEF IInv, LinksOK, LinkOK, Stored
  <1>8. Genesis'
    BY <1>2, <1>4 DEF IInv, Genesis
  <1>9. ASSUME NEW oo \in (Orgs \ disturbed)'
        PROVE  /\ OneWriter(oo)' /\ DistinctStamps(oo)'
               /\ \A i \in RecordsOf(oo)' : Linked(i, oo)'
               /\ HoldsNewest(oo)'
    <2>1. oo \in Orgs \ disturbed /\ (oo = o => InFlight(o) = {})
      BY DEF BeforeCreate
    <2>2. /\ OneWriter(oo) /\ DistinctStamps(oo) /\ HoldsNewest(oo)
          /\ \A i \in RecordsOf(oo) : Linked(i, oo)
      BY <2>1 DEF IInv, QuietOK
    <2>3. oo = o => \A v \in Writers : writers[v] # Idle => OrgOf(writers[v]) # o
      BY <2>1, InFlightIsActive DEF IInv
    <2>4. OneWriter(oo)'
      BY <1>3, <2>2, <2>3 DEF OneWriter
    <2>5. DistinctStamps(oo)' /\ \A i \in RecordsOf(oo)' : Linked(i, oo)'
      BY <1>2, <1>4, <2>2 DEF DistinctStamps, Linked
    <2>6. IsLatest(prev, o)'
      BY <1>1, <1>2, <1>4 DEF IsLatest, NewestOf, Newer
    <2>7. \A p : IsLatest(p, oo)' <=> IsLatest(p, oo)
      BY <1>2, <1>4 DEF IsLatest, NewestOf, Newer
    <2>8. HoldsNewest(oo)'
      BY <1>2, <1>3, <1>4, <2>2, <2>3, <2>6, <2>7 DEF HoldsNewest
    <2> QED BY <2>4, <2>5, <2>8
  <1>10. QuietOK'
    BY <1>9 DEF QuietOK
  <1> QED BY <1>5, <1>7, <1>8, <1>10 DEF IInv

LEMMA StampKeepsIInv ==
    ASSUME IInv, NEW w \in Writers, Stamp(w) PROVE IInv'
  <1> DEFINE o == writers[w].org
             new == [org |-> o, previousHash |-> writers[w].previousHash,
                     createdAt |-> now]
  <1>1. /\ writers[w].pc = "stamp" /\ writers[w] # Idle
        /\ o \in Orgs /\ new \in Record
        /\ OrgOf(writers[w]) = o /\ PrevOf(writers[w]) = new.previousHash
    BY WriterFields DEF IInv, TypeOK, Stamp, Record, OrgOf, PrevOf
  <1>2. records' = records /\ now' = now
    BY DEF Stamp
  <1>3. writers' = [writers EXCEPT ![w] = [pc |-> "insert",
                                           id |-> writers[w].id,
                                           record |-> new]]
    BY DEF Stamp, CreatedAt
  <1>4. /\ writers'[w] # Idle /\ writers'[w].pc = "insert"
        /\ writers'[w].record = new
        /\ OrgOf(writers'[w]) = OrgOf(writers[w])
        /\ PrevOf(writers'[w]) = PrevOf(writers[w])
        /\ \A v \in Writers \ {w} : writers'[v] = writers[v]
    BY <1>1, <1>3 DEF IInv, TypeOK, OrgOf, PrevOf, Idle
  <1>5. \A oo : RecordsOf(oo)' = RecordsOf(oo)
    BY <1>2 DEF RecordsOf, Stored
  <1>6. TypeOK'
    <2>1. writers[w].id \in Ids
      BY <1>1, WriterFields DEF IInv, TypeOK
    <2>2. disturbed' \subseteq Orgs
      BY <1>1 DEF IInv, TypeOK, Stamp
    <2> QED BY <1>1, <1>2, <1>3, <2>1, <2>2 DEF IInv, TypeOK, WriterState
  <1>7. LinksOK' /\ Genesis'
    BY <1>1, <1>2, <1>4, <1>5 DEF IInv, LinksOK, LinkOK, Genesis, Stored
  <1>8. ASSUME NEW oo \in (Orgs \ disturbed)'
        PROVE  /\ OneWriter(oo)' /\ DistinctStamps(oo)'
               /\ \A i \in RecordsOf(oo)' : Linked(i, oo)'
               /\ HoldsNewest(oo)'
    <2>1. /\ oo \in Orgs \ disturbed
          /\ oo = o => \A id \in RecordsOf(o) : records[id].createdAt < now
      BY DEF Stamp
    <2>2. /\ OneWriter(oo) /\ DistinctStamps(oo) /\ HoldsNewest(oo)
          /\ \A i \in RecordsOf(oo) : Linked(i, oo)
      BY <2>1 DEF IInv, QuietOK
    <2>3. OneWriter(oo)'
      BY <1>1, <1>4, <2>2 DEF OneWriter
    <2>4. DistinctStamps(oo)' /\ \A i \in RecordsOf(oo)' : Linked(i, oo)'
      BY <1>2, <1>5, <2>2 DEF DistinctStamps, Linked
    <2>5. \A p : IsLatest(p, oo)' <=> IsLatest(p, oo)
      BY <1>2, <1>5 DEF IsLatest, NewestOf, Newer
    <2>6. HoldsNewest(oo)'
      BY <1>1, <1>2, <1>4, <1>5, <2>1, <2>2, <2>5 DEF HoldsNewest
    <2> QED BY <2>3, <2>4, <2>6
  <1>9. QuietOK'
    BY <1>8 DEF QuietOK
  <1> QED BY <1>6, <1>7, <1>9 DEF IInv

\* What an INSERT does to the table, to its own organisation and to the others.
LEMMA InsertEffect ==
    ASSUME IInv, NEW w \in Writers, Insert(w),
           NEW id, id = writers[w].id, NEW r, r = writers[w].record
    PROVE  /\ id \in Ids /\ ~Stored(id) /\ r \in Record
           /\ writers[w].pc = "insert" /\ writers[w] # Idle
           /\ OrgOf(writers[w]) = r.org /\ PrevOf(writers[w]) = r.previousHash
           /\ records' = [records EXCEPT ![id] = r]
           /\ writers' = [writers EXCEPT ![w] = Idle]
           /\ RecordsOf(r.org)' = RecordsOf(r.org) \cup {id}
           /\ \A o : o # r.org => RecordsOf(o)' = RecordsOf(o)
           /\ \A i \in Ids : i # id => records'[i] = records[i]
           /\ records'[id] = r
  <1>1. /\ writers[w].pc = "insert" /\ writers[w] # Idle
        /\ id \in Ids /\ r \in Record /\ ~Stored(id)
    BY WriterFields DEF IInv, TypeOK, Insert
  <1>2. OrgOf(writers[w]) = r.org /\ PrevOf(writers[w]) = r.previousHash
    BY <1>1 DEF OrgOf, PrevOf
  <1>3. /\ records' = [records EXCEPT ![id] = r]
        /\ writers' = [writers EXCEPT ![w] = Idle]
    BY DEF Insert
  <1>4. records'[id] = r /\ \A i \in Ids : i # id => records'[i] = records[i]
    BY <1>1, <1>3 DEF IInv, TypeOK
  <1>5. r # NoRecord
    BY <1>1, RecordExists
  <1> QED BY <1>1, <1>2, <1>3, <1>4, <1>5 DEF RecordsOf, Stored

LEMMA InsertKeepsIInv ==
    ASSUME IInv, NEW w \in Writers, Insert(w) PROVE IInv'
  <1>0. PICK id, r : id = writers[w].id /\ r = writers[w].record
    OBVIOUS
  <1>1. /\ id \in Ids /\ ~Stored(id) /\ r \in Record
        /\ writers[w].pc = "insert" /\ writers[w] # Idle
        /\ OrgOf(writers[w]) = r.org /\ PrevOf(writers[w]) = r.previousHash
        /\ records' = [records EXCEPT ![id] = r]
        /\ writers' = [writers EXCEPT ![w] = Idle]
        /\ RecordsOf(r.org)' = RecordsOf(r.org) \cup {id}
        /\ \A o : o # r.org => RecordsOf(o)' = RecordsOf(o)
        /\ \A i \in Ids : i # id => records'[i] = records[i]
        /\ records'[id] = r
    BY <1>0, InsertEffect
  <1>2. /\ disturbed' = disturbed /\ now' = now
        /\ writers'[w] = Idle /\ \A v \in Writers \ {w} : writers'[v] = writers[v]
    BY <1>1 DEF Insert, IInv, TypeOK
  <1>3. TypeOK'
    BY <1>1, <1>2 DEF IInv, TypeOK, WriterState
  <1>4. /\ r.org \in Orgs /\ LinkOK(r.previousHash, r.org)
        /\ id \notin RecordsOf(r.org)
    BY <1>1 DEF IInv, LinksOK, Record, RecordsOf
  <1>5. \A o, p : LinkOK(p, o) => LinkOK(p, o)'
    BY <1>1 DEF LinkOK
  <1>6. LinksOK'
    BY <1>1, <1>2, <1>4, <1>5 DEF IInv, LinksOK, Stored
  <1>7. Genesis'
    <2>1. ASSUME NEW o \in Orgs, RecordsOf(o)' # {}
          PROVE  \E i \in RecordsOf(o)' : records'[i].previousHash = NoValue
      <3>1. CASE RecordsOf(o) = {}
        BY <1>1, <1>4, <2>1, <3>1 DEF LinkOK
      <3>2. CASE RecordsOf(o) # {}
        <4>1. PICK i \in RecordsOf(o) : records[i].previousHash = NoValue
          BY <3>2 DEF IInv, Genesis
        <4> QED BY <1>1, <4>1 DEF RecordsOf
      <3> QED BY <3>1, <3>2
    <2> QED BY <2>1 DEF Genesis
  <1>8. ASSUME NEW o \in (Orgs \ disturbed)', o # r.org
        PROVE  /\ OneWriter(o)' /\ DistinctStamps(o)'
               /\ \A i \in RecordsOf(o)' : Linked(i, o)'
               /\ HoldsNewest(o)'
    <2>1. /\ OneWriter(o) /\ DistinctStamps(o) /\ HoldsNewest(o)
          /\ \A i \in RecordsOf(o) : Linked(i, o)
      BY <1>2 DEF IInv, QuietOK
    <2>2. /\ RecordsOf(o)' = RecordsOf(o)
          /\ \A i \in RecordsOf(o) : i # id /\ records'[i] = records[i]
      BY <1>1, <1>8 DEF RecordsOf
    <2>3. OneWriter(o)'
      BY <1>2, <2>1 DEF OneWriter
    <2>4. DistinctStamps(o)'
      BY <2>1, <2>2 DEF DistinctStamps
    <2>5. ASSUME NEW i \in RecordsOf(o) PROVE Linked(i, o)'
      BY <2>1, <2>2 DEF Linked
    <2>6. \A p : IsLatest(p, o)' <=> IsLatest(p, o)
      BY <2>2 DEF IsLatest, NewestOf, Newer
    <2>7. HoldsNewest(o)'
      BY <1>2, <2>1, <2>2, <2>6 DEF HoldsNewest
    <2> QED BY <2>2, <2>3, <2>4, <2>5, <2>7
  <1>9. ASSUME r.org \in (Orgs \ disturbed)'
        PROVE  /\ OneWriter(r.org)' /\ DistinctStamps(r.org)'
               /\ \A i \in RecordsOf(r.org)' : Linked(i, r.org)'
               /\ HoldsNewest(r.org)'
    <2> DEFINE R == RecordsOf(r.org)
    <2>1. /\ OneWriter(r.org) /\ DistinctStamps(r.org) /\ HoldsNewest(r.org)
          /\ \A i \in R : Linked(i, r.org)
      BY <1>2, <1>9 DEF IInv, QuietOK
    <2>2. /\ \A i \in R : records[i].createdAt < r.createdAt
          /\ IsLatest(r.previousHash, r.org)
      BY <1>0, <1>1, <2>1 DEF HoldsNewest
    <2>3. \A i \in R : /\ i # id /\ records'[i] = records[i]
                       /\ records[i].createdAt \in Nat /\ i \in Ids
      BY <1>1, StoredFields DEF RecordsOf, IInv
    <2>4. \A v \in Writers : writers'[v] # Idle => OrgOf(writers'[v]) # r.org
      BY <1>1, <1>2, <2>1 DEF OneWriter
    <2>5. OneWriter(r.org)' /\ HoldsNewest(r.org)'
      BY <2>4 DEF OneWriter, HoldsNewest
    <2>6. r.createdAt \in Nat
      BY <1>1 DEF Record
    <2>7. DistinctStamps(r.org)'
      BY <1>1, <2>1, <2>2, <2>3, <2>6 DEF DistinctStamps
    <2>8. ASSUME NEW i \in R PROVE Linked(i, r.org)'
      <3>1. {j \in RecordsOf(r.org)' : records'[j].createdAt < records'[i].createdAt}
              = {j \in R : records[j].createdAt < records[i].createdAt}
        BY <1>1, <2>2, <2>3, <2>6
      <3> QED BY <2>1, <2>3, <3>1 DEF Linked
    <2>9. Linked(id, r.org)'
      <3>1. {j \in RecordsOf(r.org)' : records'[j].createdAt < records'[id].createdAt}
              = R
        BY <1>1, <2>2, <2>3, <2>6
      <3>2. R # {} => /\ r.previousHash \in R
                      /\ \A j \in R : records[j].createdAt
                                        <= records[r.previousHash].createdAt
        BY <2>2, <2>3 DEF IsLatest, NewestOf, Newer
      <3>3. R = {} => r.previousHash = NoValue
        BY <2>2 DEF IsLatest
      <3> QED BY <1>1, <2>3, <3>1, <3>2, <3>3 DEF Linked
    <2> QED BY <1>1, <2>5, <2>7, <2>8, <2>9
  <1>10. QuietOK'
    BY <1>8, <1>9 DEF QuietOK
  <1> QED BY <1>3, <1>6, <1>7, <1>10 DEF IInv

\* A Create that fails, and a clock that moves, leave the table alone and take
\* nothing but a writer away.
LEMMA TableUntouchedKeepsIInv ==
    ASSUME IInv, UNCHANGED <<records, disturbed>>, now' \in Nat,
           \A w \in Writers : writers'[w] \in {writers[w], Idle},
           writers' \in [Writers -> WriterState]
    PROVE  IInv'
  <1>1. \A o : RecordsOf(o)' = RecordsOf(o)
    BY DEF RecordsOf, Stored
  <1>2. TypeOK'
    BY DEF IInv, TypeOK
  <1>3. \A w \in Writers : writers'[w] # Idle => writers'[w] = writers[w]
    OBVIOUS
  <1>4. LinksOK' /\ Genesis'
    BY <1>1, <1>3 DEF IInv, LinksOK, LinkOK, Genesis, Stored
  <1>5. ASSUME NEW o \in (Orgs \ disturbed)'
        PROVE  /\ OneWriter(o)' /\ DistinctStamps(o)'
               /\ \A i \in RecordsOf(o)' : Linked(i, o)'
               /\ HoldsNewest(o)'
    <2>1. /\ OneWriter(o) /\ DistinctStamps(o) /\ HoldsNewest(o)
          /\ \A i \in RecordsOf(o) : Linked(i, o)
      BY DEF IInv, QuietOK
    <2>2. OneWriter(o)'
      BY <1>3, <2>1 DEF OneWriter
    <2>3. DistinctStamps(o)' /\ \A i \in RecordsOf(o)' : Linked(i, o)'
      BY <1>1, <2>1 DEF DistinctStamps, Linked
    <2>4. \A p : IsLatest(p, o)' <=> IsLatest(p, o)
      BY <1>1 DEF IsLatest, NewestOf, Newer
    <2>5. HoldsNewest(o)'
      BY <1>1, <1>3, <2>1, <2>4 DEF HoldsNewest
    <2> QED BY <2>2, <2>3, <2>5
  <1>6. QuietOK'
    BY <1>5 DEF QuietOK
  <1> QED BY <1>2, <1>4, <1>6 DEF IInv

LEMMA NextIInv == IInv /\ [Next]_vars => IInv'
  <1> SUFFICES ASSUME IInv, [Next]_vars PROVE IInv'
    OBVIOUS
  <1>1. CASE ClockMoves
    <2>1. now' \in Nat
      BY <1>1, ChainOK DEF ClockMoves
    <2> QED BY <1>1, <2>1, TableUntouchedKeepsIInv DEF ClockMoves, IInv, TypeOK
  <1>2. ASSUME NEW w \in Writers, NEW o \in Orgs, NEW id \in Ids,
               BeforeCreate(w, o, id)
        PROVE  IInv'
    BY <1>2, BeforeCreateKeepsIInv
  <1>3. ASSUME NEW w \in Writers, Stamp(w) PROVE IInv'
    BY <1>3, StampKeepsIInv
  <1>4. ASSUME NEW w \in Writers, Insert(w) PROVE IInv'
    BY <1>4, InsertKeepsIInv
  <1>5. ASSUME NEW w \in Writers, CreateFails(w) PROVE IInv'
    <2>1. writers' \in [Writers -> WriterState]
      BY <1>5 DEF CreateFails, IInv, TypeOK, WriterState
    <2>2. \A v \in Writers : writers'[v] \in {writers[v], Idle}
      BY <1>5 DEF CreateFails, IInv, TypeOK
    <2> QED BY <1>5, <2>1, <2>2, TableUntouchedKeepsIInv
            DEF CreateFails, IInv, TypeOK
  <1>6. CASE UNCHANGED vars
    BY <1>6, TableUntouchedKeepsIInv DEF vars, IInv, TypeOK
  <1> QED BY <1>1, <1>2, <1>3, <1>4, <1>5, <1>6 DEF Next

\* The invariant holds in every reachable state of the audit log.
THEOREM Invariance == Spec => []IInv
  BY InitIInv, NextIInv, PTL DEF Spec

\* Type correctness of the audit log.
THEOREM TypeCorrect == Spec => []TypeOK
  BY Invariance, PTL DEF IInv

-----------------------------------------------------------------------------
\* Distinct records of a walk are in the strict order of their stamps, so the
\* row before another is the newest of the earlier ones.
LEMMA WalkOfLinked ==
    ASSUME TypeOK, NEW o \in Orgs, DistinctStamps(o),
           \A id \in RecordsOf(o) : Linked(id, o), NEW walk \in Walks(o)
    PROVE  ~Broken(walk)
  <1> DEFINE n == Cardinality(RecordsOf(o))
  <1>1. n \in Nat
    BY ChainOK, FS_Subset, FS_CardinalityType DEF RecordsOf
  <1>2. /\ walk \in [1 .. n -> RecordsOf(o)]
        /\ \A id \in RecordsOf(o) : \E i \in 1 .. n : walk[i] = id
        /\ \A i, j \in 1 .. n : i < j =>
              /\ walk[i] # walk[j]
              /\ records[walk[i]].createdAt <= records[walk[j]].createdAt
    BY DEF Walks
  <1> HIDE DEF n
  <1>3. ASSUME NEW i \in 1 .. n, i > 1
        PROVE  ~LinkBroken(walk[i - 1], walk[i])
    <2>1. i - 1 \in 1 .. n /\ i - 1 < i
      BY <1>1, <1>3
    <2>2. \A id \in RecordsOf(o) : records[id].createdAt \in Nat
      BY StoredFields
    <2>3. \A j, k \in 1 .. n : j < k =>
            records[walk[j]].createdAt < records[walk[k]].createdAt
      <3>1. ASSUME NEW j \in 1 .. n, NEW k \in 1 .. n, j < k
            PROVE  records[walk[j]].createdAt < records[walk[k]].createdAt
        <4>1. /\ walk[j] \in RecordsOf(o) /\ walk[k] \in RecordsOf(o)
              /\ walk[j] # walk[k]
              /\ records[walk[j]].createdAt <= records[walk[k]].createdAt
          BY <1>2, <3>1
        <4>2. records[walk[j]].createdAt # records[walk[k]].createdAt
          BY <4>1 DEF DistinctStamps
        <4> QED BY <2>2, <4>1, <4>2
      <3> QED BY <3>1
    <2>4. /\ walk[i] \in RecordsOf(o) /\ walk[i - 1] \in RecordsOf(o)
          /\ records[walk[i - 1]].createdAt < records[walk[i]].createdAt
      BY <1>2, <2>1, <2>3
    <2> DEFINE prev == records[walk[i]].previousHash
    <2>5. /\ prev \in RecordsOf(o)
          /\ records[prev].createdAt < records[walk[i]].createdAt
          /\ records[walk[i - 1]].createdAt <= records[prev].createdAt
      BY <2>4 DEF Linked
    <2>6. PICK k \in 1 .. n : walk[k] = prev
      BY <1>2, <2>5
    <2>7. ~(k > i) /\ k # i
      BY <2>2, <2>3, <2>4, <2>5, <2>6
    <2>8. ~(k < i - 1)
      BY <2>1, <2>2, <2>3, <2>4, <2>5, <2>6
    <2>9. k = i - 1
      BY <1>1, <2>7, <2>8
    <2>10. prev # NoValue
      BY <2>5, ChainOK DEF RecordsOf
    <2> QED BY <2>6, <2>9, <2>10 DEF LinkBroken
  <1> QED BY <1>2, <1>3 DEF Broken

\* VerifyChain never raises a false alarm about an organisation whose appends
\* neither overlapped nor met a clock that stood still or went back.
THEOREM QuietChainCorrect == Spec => []QuietChainVerifies
  <1>1. IInv => QuietChainVerifies
    BY WalkOfLinked DEF IInv, QuietOK, QuietChainVerifies
  <1> QED BY <1>1, Invariance, PTL

\* A log that VerifyChain finds intact has no fork and a single start, whatever
\* appends overlapped and whatever the clock did.
THEOREM IntactCorrect == Spec => []IntactMeansOneLine
  <1>1. ASSUME IInv, NEW o \in Orgs, NEW walk \in Walks(o), ~Broken(walk),
               NEW i \in RecordsOf(o), NEW j \in RecordsOf(o),
               records[i].previousHash = records[j].previousHash
        PROVE  i = j
    <2> DEFINE n == Cardinality(RecordsOf(o))
    <2>1. n \in Nat
      BY ChainOK, FS_Subset, FS_CardinalityType DEF RecordsOf
    <2>2. /\ walk \in [1 .. n -> RecordsOf(o)]
          /\ \A id \in RecordsOf(o) : \E k \in 1 .. n : walk[k] = id
          /\ \A k, l \in 1 .. n : k < l => walk[k] # walk[l]
      BY DEF Walks
    <2> HIDE DEF n
    <2>3. \A k \in 1 .. n : k > 1 =>
            /\ records[walk[k]].previousHash = walk[k - 1]
            /\ walk[k - 1] # NoValue
      BY <1>1, <2>2 DEF Broken, LinkBroken
    <2>4. PICK g \in RecordsOf(o) : records[g].previousHash = NoValue
      BY <1>1 DEF IInv, Genesis
    <2>5. g = walk[1] /\ 1 \in 1 .. n
      BY <2>1, <2>2, <2>3, <2>4
    <2>6. PICK a \in 1 .. n, b \in 1 .. n : walk[a] = i /\ walk[b] = j
      BY <2>2
    <2>7. CASE a = 1 \/ b = 1
      BY <1>1, <2>1, <2>3, <2>4, <2>5, <2>6, <2>7
    <2>8. CASE a > 1 /\ b > 1
      <3>1. walk[a - 1] = walk[b - 1] /\ a - 1 \in 1 .. n /\ b - 1 \in 1 .. n
        BY <1>1, <2>1, <2>3, <2>6, <2>8
      <3>2. a - 1 = b - 1
        BY <2>1, <2>2, <3>1
      <3> QED BY <2>6, <3>2
    <2> QED BY <2>1, <2>7, <2>8
  <1>2. IInv => IntactMeansOneLine
    BY <1>1 DEF IntactMeansOneLine
  <1> QED BY <1>2, Invariance, PTL

\* Records are immutable, and each is linked to one already stored for its
\* tenant: links cannot loop or leave the tenant.
THEOREM LinksCorrect == Spec => LinksPointBack
  <1> DEFINE Step == \A id \in Ids :
        /\ Stored(id) => records'[id] = records[id]
        /\ ~Stored(id) /\ records'[id] # NoRecord =>
            \/ records'[id].previousHash = NoValue
            \/ records'[id].previousHash \in RecordsOf(records'[id].org)
  <1>1. ASSUME IInv, [Next]_vars PROVE Step
    <2>1. CASE UNCHANGED records
      BY <2>1 DEF Stored
    <2>2. ASSUME NEW w \in Writers, Insert(w) PROVE Step
      <3>1. PICK id, r : id = writers[w].id /\ r = writers[w].record
        OBVIOUS
      <3>2. /\ writers[w] # Idle /\ ~Stored(id) /\ records'[id] = r
            /\ OrgOf(writers[w]) = r.org /\ PrevOf(writers[w]) = r.previousHash
            /\ \A i \in Ids : i # id => records'[i] = records[i]
        BY <1>1, <2>2, <3>1, InsertEffect
      <3>3. LinkOK(r.previousHash, r.org)
        BY <1>1, <3>2 DEF IInv, LinksOK
      <3> QED BY <3>2, <3>3 DEF LinkOK, Stored
    <2> QED BY <1>1, <2>1, <2>2
            DEF Next, ClockMoves, BeforeCreate, Stamp, CreateFails, vars
  <1>2. IInv /\ [Next]_vars => [Step]_vars
    BY <1>1
  <1> QED BY <1>2, Invariance, PTL DEF Spec, LinksPointBack

-----------------------------------------------------------------------------
\* One Create at a time.  A record about to be stored without a predecessor
\* still finds its organisation empty.
StartsOnce ==
    /\ NullOnlyForTheFirst
    /\ \A w \in Writers :
        writers[w] # Idle /\ PrevOf(writers[w]) = NoValue
            => RecordsOf(OrgOf(writers[w])) = {}

\* The clock, and a Create that ends without a record.
LEMMA TableKeepsStart ==
    ASSUME StartsOnce, records' = records,
           \A w \in Writers : writers'[w] \in {writers[w], Idle}
    PROVE  StartsOnce'
  <1>1. \A o : RecordsOf(o)' = RecordsOf(o)
    BY DEF RecordsOf, Stored
  <1> QED BY <1>1 DEF StartsOnce, NullOnlyForTheFirst

LEMMA BeforeCreateKeepsStart ==
    ASSUME IInv, StartsOnce, NEW w \in Writers, NEW o \in Orgs, NEW id \in Ids,
           BeforeCreate(w, o, id)
    PROVE  StartsOnce'
  <1>1. PICK prev \in Ids \cup {NoValue} :
          /\ IsLatest(prev, o)
          /\ writers' = [writers EXCEPT ![w] =
                [pc |-> "stamp", id |-> id, org |-> o, previousHash |-> prev]]
    BY DEF BeforeCreate
  <1>2. /\ OrgOf(writers'[w]) = o /\ PrevOf(writers'[w]) = prev
        /\ \A v \in Writers \ {w} : writers'[v] = writers[v]
    BY <1>1 DEF IInv, TypeOK, OrgOf, PrevOf
  <1>3. records' = records /\ \A oo : RecordsOf(oo)' = RecordsOf(oo)
    BY DEF BeforeCreate, RecordsOf, Stored
  <1>4. prev = NoValue => RecordsOf(o) = {}
    BY <1>1, ChainOK DEF IsLatest, NewestOf, RecordsOf
  <1> QED BY <1>2, <1>3, <1>4 DEF StartsOnce, NullOnlyForTheFirst

LEMMA StampKeepsStart ==
    ASSUME IInv, StartsOnce, NEW w \in Writers, Stamp(w)
    PROVE  StartsOnce'
  <1>1. writers[w].pc = "stamp" /\ writers[w] # Idle
    BY WriterFields DEF IInv, TypeOK, Stamp
  <1>2. PICK r : /\ r.org = writers[w].org /\ r.previousHash = writers[w].previousHash
                 /\ writers' = [writers EXCEPT ![w] =
                        [pc |-> "insert", id |-> writers[w].id, record |-> r]]
    BY DEF Stamp
  <1>3. /\ OrgOf(writers'[w]) = OrgOf(writers[w])
        /\ PrevOf(writers'[w]) = PrevOf(writers[w])
        /\ \A v \in Writers \ {w} : writers'[v] = writers[v]
    BY <1>1, <1>2 DEF IInv, TypeOK, OrgOf, PrevOf
  <1>4. records' = records /\ \A o : RecordsOf(o)' = RecordsOf(o)
    BY DEF Stamp, RecordsOf, Stored
  <1> QED BY <1>1, <1>3, <1>4 DEF StartsOnce, NullOnlyForTheFirst

LEMMA InsertKeepsStart ==
    ASSUME \A v, w \in Writers : v = w, IInv, StartsOnce, NEW w \in Writers, Insert(w)
    PROVE  StartsOnce'
  <1>0. PICK id, r : id = writers[w].id /\ r = writers[w].record
    OBVIOUS
  <1>1. /\ writers[w] # Idle /\ ~Stored(id) /\ records'[id] = r /\ r \in Record
        /\ OrgOf(writers[w]) = r.org /\ PrevOf(writers[w]) = r.previousHash
        /\ writers' = [writers EXCEPT ![w] = Idle]
        /\ RecordsOf(r.org)' = RecordsOf(r.org) \cup {id}
        /\ \A o : o # r.org => RecordsOf(o)' = RecordsOf(o)
        /\ \A i \in Ids : i # id => records'[i] = records[i]
    BY <1>0, InsertEffect
  <1>2. \A v \in Writers : writers'[v] = Idle
    BY <1>1 DEF IInv, TypeOK
  <1>3. r.previousHash = NoValue => RecordsOf(r.org) = {}
    BY <1>1 DEF StartsOnce
  <1>4. ASSUME NEW o \in Orgs, NEW i \in RecordsOf(o)', NEW j \in RecordsOf(o)',
               records'[i].previousHash = NoValue, records'[j].previousHash = NoValue
        PROVE  i = j
    <2>1. CASE o # r.org
      <3>1. i \in RecordsOf(o) /\ j \in RecordsOf(o)
        BY <1>1, <2>1
      <3>2. records'[i] = records[i] /\ records'[j] = records[j]
        BY <1>1, <3>1 DEF RecordsOf
      <3> QED BY <1>4, <3>1, <3>2 DEF StartsOnce, NullOnlyForTheFirst
    <2>2. CASE o = r.org /\ r.previousHash = NoValue
      BY <1>1, <1>3, <2>2
    <2>3. CASE o = r.org /\ r.previousHash # NoValue
      <3>1. i \in RecordsOf(o) /\ j \in RecordsOf(o)
        BY <1>1, <1>4, <2>3
      <3>2. records'[i] = records[i] /\ records'[j] = records[j]
        BY <1>1, <3>1 DEF RecordsOf
      <3> QED BY <1>4, <3>1, <3>2 DEF StartsOnce, NullOnlyForTheFirst
    <2> QED BY <2>1, <2>2, <2>3
  <1> QED BY <1>2, <1>4 DEF StartsOnce, NullOnlyForTheFirst

\* With at most one Create at a time, whatever the clock does and whichever of
\* them fail, an organisation has at most one record without a predecessor.
THEOREM SerialChainsStartOnce ==
    ASSUME \A v, w \in Writers : v = w
    PROVE  Spec => []NullOnlyForTheFirst
  <1>1. Init => StartsOnce
    BY DEF Init, StartsOnce, NullOnlyForTheFirst, RecordsOf, Stored
  <1>2. IInv /\ StartsOnce /\ [Next]_vars => StartsOnce'
    <2> SUFFICES ASSUME IInv, StartsOnce, [Next]_vars PROVE StartsOnce'
      OBVIOUS
    <2>1. CASE UNCHANGED vars \/ ClockMoves
      BY <2>1, TableKeepsStart DEF vars, ClockMoves
    <2>2. ASSUME NEW w \in Writers, CreateFails(w) PROVE StartsOnce'
      <3>1. \A v \in Writers : writers'[v] \in {writers[v], Idle}
        BY <2>2 DEF CreateFails, IInv, TypeOK
      <3> QED BY <2>2, <3>1, TableKeepsStart DEF CreateFails
    <2> QED BY <2>1, <2>2, BeforeCreateKeepsStart, StampKeepsStart, InsertKeepsStart DEF Next
  <1>3. StartsOnce => NullOnlyForTheFirst
    BY DEF StartsOnce
  <1> QED BY <1>1, <1>2, <1>3, Invariance, PTL DEF Spec
=============================================================================
