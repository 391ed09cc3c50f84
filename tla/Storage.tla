------------------------------ MODULE Storage ------------------------------
(***************************************************************************)
(* What the database plugins do to a row on its way in and out             *)
(* (platform/plugins.go): the encryption of crypto fields, the format      *)
(* guard of hash fields, the field deltas of audited fields, and the       *)
(* tenant scope of queries.                                                *)
(*                                                                         *)
(* A session is a goroutine with a model in memory: it loads one row,      *)
(* changes the model and saves it, in a transaction of its own.  GORM      *)
(* places a callback that was registered before the statement next to it,  *)
(* and one that was registered only after it behind all the others, the    *)
(* commit of the transaction included; it calls them whatever errors came  *)
(* before.  So a delta is told when row and lock are released, by a writer *)
(* with a connection of its own.  PostgreSQL gives read-committed          *)
(* isolation and a row lock from the write to the end of the transaction.  *)
(***************************************************************************)
EXTENDS Naturals, Sequences, FiniteSets, FiniteSetsExt, SequencesExt

CONSTANTS
    Sessions,
    Rows,      \* primary keys
    OrgOf,     \* the organisation a row belongs to
    Orgs,
    Values,    \* of the audited field
    Plain,     \* plaintexts of the crypto field
    Prefixed,  \* those that begin with the cipher's own prefix
    Blank,     \* the zero value of a field, ""
    NoRow,
    MaxSaves   \* statements of all sessions together

ASSUME StorageOK ==
    /\ OrgOf \in [Rows -> Orgs] /\ Prefixed \subseteq Plain
    /\ Blank \notin Values \cup Plain
    /\ NoRow \notin Values \cup {Blank} \cup Sessions \cup Rows
    /\ MaxSaves \in Nat

VARIABLES
    row,      \* what is committed: NoRow, or a row that is live or soft-deleted
    lock,     \* the session that holds the row's lock
    delta,    \* the field deltas written for each row
    session,
    clouded   \* a history: the rows whose trail may have missed something

storageVars == <<row, lock, delta, session, clouded>>

Cipher(plain, by, n) == [plain |-> plain, by |-> by, nonce |-> n]

Ciphers == [plain : Plain \ Prefixed, by : Sessions, nonce : Nat]

AtRest == {Blank} \cup Prefixed \cup Ciphers

RowState == [val : Values \cup {Blank}, secret : AtRest, deleted : BOOLEAN]

\* No row is taken for NoRow, and no ciphertext for a plaintext.
ASSUME NoRowOK == NoRow \notin RowState /\ \A p \in Plain \cup {Blank} : p \notin Ciphers

\* An upsert is what Save does about a row it did not find.
Inserts == {"create", "upsert"}
Statements == Inserts \cup {"save", "delete"}

Idle == [pc |-> "idle", org |-> NoRow, at |-> NoRow, val |-> Blank, secret |-> Blank, hash |-> TRUE,
         does |-> "save", snapshot |-> NoRow, blind |-> FALSE, failed |-> FALSE, saves |-> 0]

StorageInit(active) ==
    /\ row = [r \in Rows |-> NoRow]
    /\ lock = [r \in Rows |-> NoRow]
    /\ delta = [r \in Rows |-> <<>>]
    /\ session = [s \in Sessions |-> [Idle EXCEPT !.pc = IF s \in active THEN "idle" ELSE "none"]]
    /\ clouded = {}

Live(r) == row[r] # NoRow /\ ~row[r].deleted

-----------------------------------------------------------------------------
\* The request and its context.

\* OrgIDFromContext: ScopeFromContext fails a query without an organisation.
InScope(s, r) == session[s].org # NoRow /\ OrgOf[r] = session[s].org

MoreStatements == MapThenSumSet(LAMBDA u : session[u].saves, Sessions) < MaxSaves

TenantMiddleware(s) ==
    /\ session[s].pc = "idle" /\ session[s].org = NoRow
    /\ \E o \in Orgs : session' = [session EXCEPT ![s].org = o]
    /\ UNCHANGED <<row, lock, delta, clouded>>

\* Decrypt: what does not begin with the prefix, or is none of the cipher's,
\* fails the query.
Decrypted(stored) == IF stored = Blank THEN Blank ELSE stored.plain

Load(s) ==
    /\ session[s].pc = "idle" /\ session[s].at = NoRow
    /\ \E r \in Rows :
        /\ Live(r) /\ InScope(s, r) /\ row[r].secret \notin Plain
        /\ session' = [session EXCEPT ![s] =
               [@ EXCEPT !.at = r, !.val = row[r].val, !.secret = Decrypted(row[r].secret)]]
    /\ UNCHANGED <<row, lock, delta, clouded>>

\* A new model: its hash field may hold what is no hash.
Fill(s) ==
    /\ session[s].pc = "idle" /\ session[s].at = NoRow /\ MoreStatements
    /\ \E r \in Rows, v \in Values, p \in Plain \cup {Blank}, h \in BOOLEAN :
        /\ InScope(s, r) /\ row[r] = NoRow
        /\ session' = [session EXCEPT ![s] =
               [@ EXCEPT !.at = r, !.val = v, !.secret = p, !.hash = h,
                         !.does = "create", !.pc = "encrypt", !.saves = session[s].saves + 1]]
    /\ UNCHANGED <<row, lock, delta, clouded>>

\* The caller changes the model it loaded, or deletes it.
Change(s) ==
    /\ session[s].pc = "idle" /\ session[s].at # NoRow /\ MoreStatements
    /\ \/ \E v \in Values \cup {Blank} :
            session' = [session EXCEPT ![s] =
                [@ EXCEPT !.val = v, !.does = "save", !.pc = "encrypt",
                          !.saves = session[s].saves + 1]]
       \/ session' = [session EXCEPT ![s] =
                [@ EXCEPT !.does = "delete", !.pc = "snapshot",
                          !.saves = session[s].saves + 1]]
    /\ UNCHANGED <<row, lock, delta, clouded>>

\* UpdateSettings and RemoveMember name their row in a Where and hand over an
\* empty model: no field is encrypted, and both the snapshot, which takes any row
\* of the table, and the delta are those of record 0.
Where(s) ==
    /\ session[s].pc = "idle" /\ session[s].at = NoRow /\ MoreStatements
    /\ \E r \in Rows, v \in Values, does \in {"save", "delete"} :
        /\ Live(r) /\ InScope(s, r)
        /\ session' = [session EXCEPT ![s] =
               [@ EXCEPT !.at = r, !.val = v, !.does = does, !.blind = TRUE, !.pc = "write",
                         !.saves = session[s].saves + 1]]
    /\ UNCHANGED <<row, lock, delta, clouded>>

-----------------------------------------------------------------------------
\* What recordDelta compares.

Old(s) == IF session[s].does \in Inserts THEN NoRow ELSE session[s].snapshot

New_Kept(s) == session[s].val

New(s) == IF session[s].does = "delete" THEN NoRow ELSE session[s].val

Tells(s) == Old(s) # New(s) /\ ~session[s].blind

\* The model in memory afterwards has the ciphertext it was saved with.
Rest(s, at) == [session EXCEPT ![s] = [@ EXCEPT !.pc = "idle", !.at = at, !.does = "save",
                  !.snapshot = NoRow, !.blind = FALSE, !.failed = FALSE, !.hash = TRUE]]

Released(s) == [r \in Rows |-> IF lock[r] = s THEN NoRow ELSE lock[r]]

\* A statement fails: its transaction is rolled back.  Only of an update without
\* a row does recordDelta ask what became of it.
Fails(s) ==
    /\ lock' = Released(s)
    /\ IF session[s].does = "save" /\ session[s].pc # "commit"
       THEN session' = Rest(s, NoRow) /\ UNCHANGED clouded
       ELSE /\ session' = [session EXCEPT ![s] = [@ EXCEPT !.pc = "diff", !.failed = TRUE]]
            /\ clouded' = IF Tells(s) THEN clouded \cup {session[s].at} ELSE clouded
    /\ UNCHANGED <<row, delta>>

Fail(s) == session[s].pc \in {"encrypt", "snapshot", "write", "commit"} /\ Fails(s)

-----------------------------------------------------------------------------
\* Callbacks before the statement.

Encrypted_Again(s) ==
    IF session[s].secret = Blank THEN Blank
    ELSE Cipher(session[s].secret, s, session[s].saves)

\* The model itself is changed.  What looks encrypted is left as it is.
Encrypted(s) ==
    IF session[s].secret \in Plain \ Prefixed
    THEN Cipher(session[s].secret, s, session[s].saves) ELSE session[s].secret

Encrypt(s) ==
    /\ session[s].pc = "encrypt"
    /\ session' = [session EXCEPT ![s] =
           [@ EXCEPT !.secret = Encrypted(s),
                     !.pc = IF session[s].does \in Inserts THEN "guard" ELSE "snapshot"]]
    /\ UNCHANGED <<row, lock, delta, clouded>>

\* The guard is registered for inserts alone.
Guard(s) ==
    /\ session[s].pc = "guard"
    /\ \/ /\ session[s].hash /\ session' = [session EXCEPT ![s].pc = "write"]
          /\ UNCHANGED <<row, lock, delta, clouded>>
       \/ ~session[s].hash /\ Fails(s)

\* The row is asked for by every field of the model that is not zero, new
\* values included: a row whose fields differ is not found.
Matches(r, m) == /\ Live(r)
                 /\ m.val \in {Blank, row[r].val}
                 /\ m.secret \in {Blank, row[r].secret}

Snapshot(s) ==
    /\ session[s].pc = "snapshot"
    /\ session' = [session EXCEPT ![s] =
           [@ EXCEPT !.pc = "write",
                     !.snapshot = IF Matches(session[s].at, session[s])
                                  THEN row[session[s].at].val ELSE NoRow]]
    /\ UNCHANGED <<row, lock, delta, clouded>>

-----------------------------------------------------------------------------
\* The statement, which waits for the row's lock, and its transaction's end.

Finds(s) == CASE session[s].does = "create" -> row[session[s].at] = NoRow
              [] session[s].does = "upsert" -> TRUE
              [] session[s].does \in {"save", "delete"} -> Live(session[s].at)

Write(s) ==
    /\ session[s].pc = "write" /\ lock[session[s].at] = NoRow
    /\ \/ /\ Finds(s)
          /\ lock' = [lock EXCEPT ![session[s].at] = s]
          /\ session' = [session EXCEPT ![s].pc = "commit"]
          /\ UNCHANGED <<row, delta, clouded>>
       \/ ~Finds(s) /\ session[s].does = "create" /\ Fails(s)
       \/ /\ ~Finds(s) /\ session[s].does # "create"
          /\ session' = IF session[s].does = "delete" THEN [session EXCEPT ![s].pc = "diff"]
                        ELSE IF session[s].blind THEN Rest(s, NoRow)
                        ELSE [session EXCEPT ![s] =
                                 [@ EXCEPT !.does = "upsert", !.snapshot = NoRow, !.pc = "encrypt"]]
          /\ UNCHANGED <<row, lock, delta, clouded>>

\* A blind update has one column.
Stored(s) ==
    LET r == session[s].at
    IN  IF session[s].does = "delete" THEN [row[r] EXCEPT !.deleted = TRUE]
        ELSE IF session[s].blind THEN [row[r] EXCEPT !.val = session[s].val]
        ELSE [val |-> session[s].val, secret |-> session[s].secret, deleted |-> FALSE]

\* A session with a delta still to tell of row r.
Pending(s, r) == session[s].at = r /\ session[s].pc = "diff" /\ Tells(s)

\* What s commits comes between a snapshot of another session and its delta.
Overtakes(s, r) ==
    \E u \in Sessions \ {s} :
        \/ session[u].at = r /\ session[u].pc = "write" /\ session[u].snapshot # NoRow
        \/ Pending(u, r)

Commit(s) ==
    LET r == session[s].at
    IN  /\ session[s].pc = "commit"
        /\ row' = [row EXCEPT ![r] = Stored(s)]
        /\ lock' = Released(s)
        /\ session' = [session EXCEPT ![s].pc = "diff"]
        /\ clouded' = IF \/ session[s].blind \/ Overtakes(s, r)
                         \/ session[s].does = "delete" /\ session[s].snapshot = NoRow
                      THEN clouded \cup {r} ELSE clouded
        /\ UNCHANGED delta

-----------------------------------------------------------------------------
\* recordDelta.  The writer's error is added to a statement that has committed.

RecordDelta(s) ==
    LET r == session[s].at
        done == session[s].failed \/ session[s].blind \/ session[s].does = "delete"
    IN  /\ session[s].pc = "diff"
        /\ \/ /\ delta' = IF Tells(s)
                        THEN [delta EXCEPT ![r] = Append(@, [old |-> Old(s), new |-> New(s)])]
                        ELSE delta
             /\ session' = Rest(s, IF done THEN NoRow ELSE r)
             /\ UNCHANGED clouded
          \/ /\ Tells(s)
             /\ session' = Rest(s, NoRow)
             /\ clouded' = clouded \cup {r}
             /\ UNCHANGED delta
        /\ UNCHANGED <<row, lock>>

\* The process stops: the open transaction is rolled back, and a delta that was
\* not written never is.
Stop(s) ==
    /\ session[s].pc \notin {"none", "idle"}
    /\ lock' = Released(s)
    /\ session' = Rest(s, NoRow)
    /\ clouded' = IF Pending(s, session[s].at) THEN clouded \cup {session[s].at} ELSE clouded
    /\ UNCHANGED <<row, delta>>

-----------------------------------------------------------------------------
StorageNext ==
    \E s \in Sessions :
        \/ TenantMiddleware(s) \/ Load(s) \/ Fill(s) \/ Change(s) \/ Where(s)
        \/ Encrypt(s) \/ Guard(s) \/ Snapshot(s) \/ Write(s)
        \/ Commit(s) \/ RecordDelta(s) \/ Fail(s) \/ Stop(s)

StorageSpec == (\E active \in SUBSET Sessions : StorageInit(active)) /\ [][StorageNext]_storageVars

-----------------------------------------------------------------------------
(* Properties.                                                             *)

Opened(secret) == IF secret \in {Blank} \cup Plain THEN secret ELSE secret.plain

\* A row keeps the secret it was created with, however many sessions load the
\* model, save it, or save it again with the ciphertext still in memory, and when
\* a deleted row is saved back: it is never encrypted twice.  (A secret that begins
\* with the cipher's prefix is kept too, in the clear.)
SecretKept ==
    [][\A r \in Rows : row[r] # NoRow =>
          row'[r] # NoRow /\ Opened(row'[r].secret) = Opened(row[r].secret)]_storageVars

Shown(r) == IF row[r] = NoRow \/ row[r].deleted THEN NoRow ELSE row[r].val

Trail(r) == IF delta[r] = <<>> THEN NoRow ELSE Last(delta[r]).new

\* The last delta of a row tells what the row shows now, once no session has one
\* left to tell (DeltaPlugin).  Not so for a row where a change was committed by a
\* statement that does not name it, by a deletion whose snapshot was not found, or
\* between the snapshot and the delta of another session; or where a delta was not
\* written, or was written of a statement that failed.
TrailTellsTheRow ==
    \A r \in Rows \ clouded :
        (\A s \in Sessions : ~Pending(s, r)) => Trail(r) = Shown(r)

\* "captures the pre-save state, diffs it after save, and writes an AuditRecord if
\* any audited field changed": a commit of a model that changes the audited field
\* leaves a delta to tell.
ChangesAreAudited ==
    [][\A s \in Sessions, r \in Rows :
          /\ session[s].at = r /\ session[s].pc = "commit" /\ ~session[s].blind
          /\ Shown(r)' # Shown(r)
          => Pending(s, r)']_storageVars

\* "Strict Audit Mode: if we cannot audit the change, the change fails": a value
\* that a row shows is in a delta of the row, once no session has one left to tell.
StrictAudit ==
    \A r \in Rows :
        Shown(r) # NoRow /\ (\A s \in Sessions : ~Pending(s, r)) =>
            \E i \in DOMAIN delta[r] : delta[r][i].new = Shown(r)
=============================================================================
