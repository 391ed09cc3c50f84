----------------------------- MODULE AuditChain -----------------------------
(***************************************************************************)
(* The audit log's hash chain (src/internal/domain/audit): Create of an    *)
(* AuditRecord with its BeforeCreate hook, and VerifyChain.                *)
(*                                                                         *)
(* A Create is three steps: the hook queries the newest record of the      *)
(* organisation and copies its hash, gorm then stamps created_at from the  *)
(* process's clock, and the INSERT commits.  gorm wraps them in one READ   *)
(* COMMITTED transaction, which locks nothing, so the Creates of several   *)
(* requests interleave between the steps.                                  *)
(*                                                                         *)
(* The record hash is SHA-256 over the id and the other columns.  Ids are  *)
(* primary keys, so two stored records never have one hash: the id stands  *)
(* for the hash, and the columns the chain does not order are left out.    *)
(*                                                                         *)
(* No code gives a record its id today (LogEvent sets none, and the hook   *)
(* of AppendOnlyBase, "BeforeCreate generates a snowflake ID", is hidden   *)
(* by AuditRecord's own): IdAssigned = FALSE is the program as it stands,  *)
(* whose log takes one record, under the key 0, and refuses every other.   *)
(* What is said of longer chains is said of IdAssigned = TRUE, a program   *)
(* that calls that hook first.                                             *)
(***************************************************************************)
EXTENDS Integers, FiniteSets

CONSTANTS
    Writers,     \* concurrent calls of Create
    Orgs,        \* organisations (tenants)
    Ids,         \* primary keys, and so record hashes
    ZeroId,      \* Go's zero value of ID
    NoValue,     \* SQL NULL
    MaxTime,     \* bound on the clock
    IdAssigned   \* whether something gives each record a new ID before Create

ASSUME ChainOK ==
    /\ Ids \subseteq Nat
    /\ IsFiniteSet(Ids)
    /\ ZeroId \in Ids
    /\ NoValue \notin Nat \cup Orgs
    /\ MaxTime \in Nat
    /\ IdAssigned \in BOOLEAN

VARIABLES
    records,   \* the audit_records table
    writers,   \* how far each Create is, and what it holds
    now,       \* the clock gorm stamps with
    disturbed  \* history: the organisations whose appends overlapped or met a
               \* clock that had not moved on

vars == <<records, writers, now, disturbed>>

NoRecord == [org |-> NoValue]

Record == [org : Orgs, previousHash : Ids \cup {NoValue}, createdAt : Nat]

Idle == [pc |-> "idle"]

WriterState ==
    {Idle}
    \cup [pc : {"stamp"}, id : Ids, org : Orgs,
          previousHash : Ids \cup {NoValue}]
    \cup [pc : {"insert"}, id : Ids, record : Record]

Init ==
    /\ records = [id \in Ids |-> NoRecord]
    /\ writers = [w \in Writers |-> Idle]
    /\ now = 0
    /\ disturbed = {}

Stored(id) == records[id] # NoRecord

RecordsOf(o) == {id \in Ids : Stored(id) /\ records[id].org = o}

-----------------------------------------------------------------------------
\* fetchLatestHash: ORDER BY created_at DESC, and then by primary key, which
\* gorm's First appends; the first row's hash, or NULL if there is none.
Newer(i, j) ==
    \/ records[i].createdAt > records[j].createdAt
    \/ records[i].createdAt = records[j].createdAt /\ i < j

NewestOf(S) == {id \in S : \A other \in S \ {id} : Newer(id, other)}

IsLatest_OfAnyOrg(prev, o) ==
    LET all == {id \in Ids : Stored(id)}
    IN  IF all = {} THEN prev = NoValue ELSE prev \in NewestOf(all)

IsLatest(prev, o) ==
    IF RecordsOf(o) = {} THEN prev = NoValue ELSE prev \in NewestOf(RecordsOf(o))

InFlight(o) ==
    {w \in Writers : \/ writers[w].pc = "stamp" /\ writers[w].org = o
                     \/ writers[w].pc = "insert" /\ writers[w].record.org = o}

InUse(id) ==
    Stored(id) \/ \E w \in Writers : writers[w] # Idle /\ writers[w].id = id

NewIds == IF IdAssigned THEN {id \in Ids : ~InUse(id)} ELSE {ZeroId}

\* BeforeCreate.
BeforeCreate(w, o, id) ==
    /\ writers[w] = Idle
    /\ id \in NewIds
    /\ \E prev \in Ids \cup {NoValue} :
        /\ IsLatest(prev, o)
        /\ writers' = [writers EXCEPT ![w] =
                [pc |-> "stamp", id |-> id, org |-> o, previousHash |-> prev]]
    /\ disturbed' = disturbed \cup (IF InFlight(o) = {} THEN {} ELSE {o})
    /\ UNCHANGED <<records, now>>

CreatedAt_LeftNull == NoValue

CreatedAt == now

\* gorm fills created_at after the hook has run.
Stamp(w) ==
    /\ writers[w].pc = "stamp"
    /\ LET o == writers[w].org
       IN  /\ writers' = [writers EXCEPT ![w] =
                [pc |-> "insert", id |-> writers[w].id,
                 record |-> [org |-> o,
                             previousHash |-> writers[w].previousHash,
                             createdAt |-> CreatedAt]]]
           /\ disturbed' = disturbed \cup
                (IF \A id \in RecordsOf(o) : records[id].createdAt < now
                 THEN {} ELSE {o})
    /\ UNCHANGED <<records, now>>

\* The INSERT, when the primary key is free.
Insert(w) ==
    /\ writers[w].pc = "insert"
    /\ ~Stored(writers[w].id)
    /\ records' = [records EXCEPT ![writers[w].id] = writers[w].record]
    /\ writers' = [writers EXCEPT ![w] = Idle]
    /\ UNCHANGED <<now, disturbed>>

\* The hook's query or the INSERT fails: LogEvent returns the error.
CreateFails(w) ==
    /\ writers[w] # Idle
    /\ writers' = [writers EXCEPT ![w] = Idle]
    /\ UNCHANGED <<records, now, disturbed>>

\* The clock moves on, or is set back.
ClockMoves ==
    /\ now' \in (0 .. MaxTime) \ {now}
    /\ UNCHANGED <<records, writers, disturbed>>

Next ==
    \/ ClockMoves
    \/ \E w \in Writers :
        \/ \E o \in Orgs, id \in Ids : BeforeCreate(w, o, id)
        \/ Stamp(w)
        \/ Insert(w)
        \/ CreateFails(w)

Spec == Init /\ [][Next]_vars

-----------------------------------------------------------------------------
\* VerifyChain reads the records ORDER BY created_at ASC; rows of one instant
\* come in any order.
Walks(o) ==
    LET n == Cardinality(RecordsOf(o))
    IN  {walk \in [1 .. n -> RecordsOf(o)] :
            /\ \A id \in RecordsOf(o) : \E i \in 1 .. n : walk[i] = id
            /\ \A i, j \in 1 .. n : i < j =>
                    /\ walk[i] # walk[j]
                    /\ records[walk[i]].createdAt <= records[walk[j]].createdAt}

LinkBroken_NullPasses(prev, cur) ==
    records[cur].previousHash # NoValue /\ records[cur].previousHash # prev

LinkBroken(prev, cur) ==
    records[cur].previousHash = NoValue \/ records[cur].previousHash # prev

\* The first result of VerifyChain for one order of the rows.  It does not
\* recompute a hash, and asks nothing of the first row.
Broken(walk) ==
    \E i \in DOMAIN walk : i > 1 /\ LinkBroken(walk[i - 1], walk[i])

-----------------------------------------------------------------------------
\* Every variable stays within its type: a stored record has its organisation,
\* its link and its stamp.
TypeOK ==
    /\ records \in [Ids -> Record \cup {NoRecord}]
    /\ writers \in [Writers -> WriterState]
    /\ now \in Nat
    /\ disturbed \subseteq Orgs

\* A record is immutable and its link was not made up: what an INSERT adds
\* names a record of the SAME organisation that was already stored, or nothing,
\* however long ago the hook looked.  So following links never loops and never
\* leaves the tenant.
LinksPointBack ==
    [][\A id \in Ids :
        /\ Stored(id) => records'[id] = records[id]
        /\ ~Stored(id) /\ records'[id] # NoRecord =>
            \/ records'[id].previousHash = NoValue
            \/ records'[id].previousHash \in RecordsOf(records'[id].org)]_vars

\* As long as an organisation's appends neither overlapped nor met a clock that
\* had not moved on since the last record, VerifyChain finds its chain whole:
\* it never raises a false alarm over appends of other tenants, failed appends
\* or records stored between.
QuietChainVerifies ==
    \A o \in Orgs \ disturbed : \A walk \in Walks(o) : ~Broken(walk)

\* When VerifyChain finds no broken link the log is one line: one record has no
\* predecessor, and no two records claim the same one.  A fork cannot hide.
IntactMeansOneLine ==
    \A o \in Orgs :
        (\E walk \in Walks(o) : ~Broken(walk)) =>
            \A i, j \in RecordsOf(o) :
                records[i].previousHash = records[j].previousHash => i = j

\* No two records of an organisation start a chain ("Null only for the very first
\* record of an org", of PreviousHash).  It is proved of appends that do not
\* overlap; were ids assigned, two first records that overlap would both have NULL.
NullOnlyForTheFirst ==
    \A o \in Orgs : \A i, j \in RecordsOf(o) :
        records[i].previousHash = NoValue /\ records[j].previousHash = NoValue
            => i = j
=============================================================================
