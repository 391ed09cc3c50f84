# DeployGuard (watchnoc) in TLA+

The repository is the back end of DeployGuard, a service that collects
deployments from GitHub, has people approve them, and keeps an audit log as
evidence for SOC 2.  This directory holds TLA+ modules of its core, TLC
configurations that check them on small instances, and TLAPS proofs for every
value of the constants.

Paths below are relative to `internal/` unless they start with `db/` or `cmd/`.

## 1. Inventory

| Component | State | Operations that change it | What is hard | What makes it correct |
|---|---|---|---|---|
| Approval (`domain/approval`) | table `approvals` | `RequestApproval`, `GrantApproval`, `RejectApproval`, each a query, then an INSERT or a save of the whole row | requests interleave between the two statements; a failed write; a deadline nobody enforces | one approval of a status per deploy; evidence of one decision, whole; never reopened |
| Deploy (`domain/deploy`) | table `deploy_events` | `IngestFromWebhook`, `UpdateDeploymentStatus`, `UpdateCIStatus` | check-then-insert; several workers save the same row whole; a loop of saves that fails halfway | one row per GitHub deployment; fields are never invented; revert links point to earlier deploys |
| Ingestion worker (`worker/deploy_ingestion.go`) | asynq queue, delivery records | check, record, dispatch on event type, update result, return | duplicates, retries, crash between any two steps, a status before its deployment | a delivery is stored at most once; "processed" means stored; every task leaves the queue |
| Audit log (`domain/audit`) | table `audit_records` | `Create` with the `BeforeCreate` hook; `VerifyChain` reads | link chosen, stamped and committed at three different times; clocks; tenants | links name stored records of the tenant; no false alarm; a fork cannot hide |
| Snowflake (`platform/snowflake`) | `Generator` per process | `NextID` | clock set back during a sleep, sequence overflow, restart | increasing, and unique across processes |
| Base hooks (`platform/model`) | a package variable | `SetIDGenerator`, `BeforeCreate` | never called; hidden by hooks of the embedding types | every stored row has its own key |
| Webhook receivers (`integrations/*/webhook.go`) | deliveries in flight, installations | `Handle`, `Route`, `HandleUninstall` | 202 before the work; a goroutine that outlives its request, or dies with the process | what was acknowledged is recorded, or its process died |
| GitHub App (`integrations/github/app.go`) | cache of installation tokens | `InstallationClient`, `getInstallationToken` | cache versus revocation, clock, a slow answer | no token long after revocation |
| Payload parsers and enrichment (`github/parser.go`, `github/enrichment.go`, `gitlab/parser.go`) | an event being filled | parse, then up to five requests | two copies of one rule, quoting inside quotes, requests that fail one by one | both hosts agree; the payload's word stands |
| Jira, Linear, Slack, GitLab connections | token stores, installations, clients | connect, disconnect, refresh | rotating refresh tokens, a mutex per client only, half-done connect | the store holds the live refresh token; connected once |
| Trello (`integrations/trello`, `worker/trello_enrichment.go`) | board webhooks, asynq tasks | register a board webhook, enrich and link | check, remote call, save; a retry after the insert | one record per board but for overlaps; every task settles |
| Ticket domain, manual linking | linked tickets | `LinkTicket`, `LinkManual` | no key on (deploy, ticket); a pasted reference | links name live issues; no more links than attempts |
| Organisations, auth | orgs, members, users | create, add and remove member, first login | check-then-insert, soft delete against a unique index | one membership per user, an answer names a stored user |
| gorm plugins (`platform/audit`, `crypto`, `hash`, `tenant`) | rows in flight | snapshot and diff, encrypt and decrypt | value in memory versus value stored, a record written after the commit | the last record tells the row; a secret is kept, and not encrypted twice |
| Retention, PII | table policies | exemption, tombstone column, nullify | a table with two policies | audit data is never purged |
| Policy, evidence, incident, dora, health; the other workers | - | scaffolds that return placeholders | - | - |
| HTTP platform, wiring, store, frontend | - | stateless, or start-up only | - | - |

How they interact: the GitHub receiver is to enqueue a task per delivery (its
router stops at a TODO today, so only installation events change state); the
ingestion worker takes it, parses and enriches the payload and calls the deploy
service; the Trello worker and the manual linkers attach tickets to a deploy; the
integrations' callbacks store the tokens their clients use; the approval service
is driven by HTTP requests (it is given a `deployReader` and never calls
it, so that only the foreign key asks whether a deploy exists); every table is reached through gorm, whose hooks draw
keys (base model) and compute the audit chain.  No service opens a transaction
over two statements and none locks a row, so every pair of statements of two
requests may interleave.  All the models rest on that.

## 2. Modules

| Module | Models | Correspondence |
|---|---|---|
| `Approval` | approval service, repository, unique key | one action per statement: `RequestFind`/`RequestCreate`, `GrantApproval` or `RejectApproval` (the query and the status check) and `DecideSave`; `CallFails` is any error or crash before the write |
| `ApprovalLedger` | what an auditor is promised | a review of a deploy: none, open, decided; a decision may be replaced whole, never lost, and a deploy may have several reviews; `Approval` holds the refinement mapping (`review`) |
| `DeployEvents` | deploy service and repository | one action per database call of the three writers, whose answer may be lost after the commit; a row keeps the delivery it came from in place of the columns copied from it |
| `DeployIngestion` | the worker, extends `DeployEvents` | `processDelivery` step by step; `Settled`, `Dequeue` and `Crash` are asynq; the delivery table is external (the repository has only its interface) |
| `DeliveryLog` | what the worker promises of a delivery | recorded, stored and settled at most once each, in this order; `DeployIngestion` holds the refinement mapping (`source`) |
| `AuditChain` | `Create`, its hook, `VerifyChain` | `BeforeCreate`, `Stamp` (gorm's created_at), `Insert`; `Walks` and `Broken` are `VerifyChain` |
| `Snowflake` | `NextID` | split where the clock is read: `NextID`, `NextIDSleeps`, `Wake`, `SpinEnds`; `Tick`, `SetBack` and `Restart` are the environment |
| `Connections` | the callbacks of Jira, Linear, Slack and GitLab, Jira's disconnect, the clients with their refresh | a call is a goroutine, one action per request or statement; the provider's tokens (`issued`, `alive`) rotate on each refresh; `ConnCrash` kills every call |
| `GitHubApp` | the installation token cache | `LoadToken`, `MintToken`, `StoreToken` with the App's JWT and the margin; `Remove` is GitHub's side, `AppCrash` empties the cache |
| `Webhooks` | the seven receivers, composed with the two above | `Handle` answers by the first check that fails (`Checks`), or spawns the goroutine that routes; `RouteRemoval` marks the installation that `GitHubApp` caches a token of, `FindByCloudID` looks at the rows `Connections` writes, or answers nil as the stub does, and `RoutePanics` is the goroutine that takes the process with it |
| `GitEvents` | the parsers of GitHub and GitLab, the enrichment | operators from payload to event; `Enrich...` is one request each, that may fail |
| `TicketLinks` | the Trello task, the board webhooks, the manual linkers | one action per step of `processEnrichment` and of `RegisterBoardWebhook`; asynq is `Retried`, `WorkerDies`, `Shutdown`, `Acknowledge` |
| `Storage` | the plugins around gorm's statements | one action per callback, in the order GORM calls them; `Write` waits for the row's lock, `Commit` or `Fails` ends the transaction, and `RecordDelta` comes after it; `Where` is a statement without a model |
| `Accounts` | first logins, organisations, members | one action per query; the migrations' unique keys are `KeysTaken` and `MemberTaken` |
| `Services` | `GitEvents`, `TicketLinks`, `Storage`, `Accounts`, side by side | they share no variable; a step is a step of one of them |
| `MC*` | instances for TLC | model values, queues, symmetry |
| `*Proofs` | theorems | see section 5 |

Abstractions worth knowing.  A call that returns before it writes is a
stuttering step.  The hash of an audit record is replaced by its key: the hash
covers the id, ids are primary keys, so equal hashes mean equal records.  Widths
are constants in `Snowflake` (`MaxWorker`, `MaxSequence`), and the proofs hold for
all of them.  `Approval`, `DeployEvents` and `DeployIngestion` are of one
organisation (every query carries it); `AuditChain` has several, because the
chain's queries select by it.  The 24 h deadline of a task and a malformed
payload (dropped without effect) are left out.  In the modules of the integrations a
token, a site, a card or an organisation is a model value; a text is a sequence of
the pieces the code can tell apart (`<<"refs", "heads", "main">>`, a title with
its quotation marks, the segments of a pasted URL).  A signature is a bit of the
delivery (`signed`); the constant-time comparison that computes it is not modelled.
A database error is an action that may happen at any statement.

What is not called.  The delta, crypto, hash and tenant plugins are modelled as
`RegisterAllPlugins` would install them, but nothing calls `RegisterAllPlugins`, and
`SSOConfig.Config`, the one field tagged for encryption, is JSON and not a string, so
the plugin would skip it.  `Storage` says what a model with a string field may rely
on.  Where GORM runs a callback is not in the repository: one registered with `Before`
runs next to the statement, one registered with `After` alone behind everything GORM
registers itself, the end of the transaction included, and an error stops none of them.

What is a stub.  These repositories answer without storing anything, and the models take
their interfaces, or the migrations' tables, at their word: Jira's token store
(`jira/token_store.go:17`), its installations (`jira/types.go:94`, so `Create` is refused
for a taken organisation by the migration's key only) and its linkages
(`jira/linkage.go:43`); GitHub's installations (`github/oauth.go:90`: `MarkRevoked` records
nothing, and `marked` is what it is for); Trello's (`trello/oauth.go:81`), Slack's and
GitLab's installations (`repository.go:21` of each).  A stub's lookup answers nil
without an error; where a caller depends on that, the model has it as an outcome
(`FindByCloudID`).  The Trello worker reads `RevokedAt` of such a nil, which asynq
counts as a failure of the task like any other.  `Revoke` in `TicketLinks` is likewise
only a column the worker reads once: nothing in the repository sets it, and it does
not take Trello's token back.

Keys.  As the program is wired today nothing calls `model.SetIDGenerator`, so that an
approval is stored under the key 0, one in all.  The hooks of `DeployEvent` and
`AuditRecord` hide the one of the base, and neither service sets an id: a deploy event
is refused, and audit records all get the key 0 whatever the start-up does, so that the
log takes one.  Whether keys are given is a constant: `GeneratorSet` of `Approval`, where
the start-up alone is missing, and `IdAssigned` of `DeployEvents` and `AuditChain`, where
the code is.  The runs set both to TRUE, since with FALSE at most one row can ever be
stored; the theorems hold for both.  In `Accounts` the placeholder key 1 stands, so it is
what refuses a second user, organisation or membership; the keys of the migrations
are in the model behind it and never decide.

The key of `approvals` is the one migration 008 declares, (deploy, status), for the
program creates its tables from migrations and never from the models' tags.  (As
PostgreSQL reads that file, a table constraint takes no WHERE, so the migration fails;
the model takes the key it declares.)

## 3. Runs

| Run | Instance | Shows |
|---|---|---|
| `approval_overlap` | 3 calls, 1 deploy, 2 users, 3 keys, clock to 1 | `OneOfEachStatus`, `EvidenceIsWhole`, `NeverReopened`, `OverwritesAreOverlaps`, and that the calls implement `ApprovalLedger` (`KeepsTheLedger`) |
| `approval_final` (violation) | 2 calls | two overlapping decisions: the later replaces the earlier, against "never update a granted/rejected record" |
| `approval_tworows` (violation) | 2 calls | two requests that look before either inserts: a granted and a pending approval of one deploy, against the index of the model's tag |
| `ingestion` | 2 workers, 6 queues of 3 tasks, 3 keys, 1 retry | `UniqueDeployment`, `OneRowPerDelivery`, `ProcessedMeansStored`, `RevertsAnEarlierDeploy`, `FieldsAreWitnessed`, `ForeignFieldsOnlyByStaleSave` |
| `ingestion_live` | 2 workers, 3 queues of 2 tasks, 2 keys, 1 retry | `TasksSettle` under fairness, and that the workers implement `DeliveryLog` (`KeepsTheLog`; here because TLC evaluates its mapping on every step) |
| `ingestion_retry` (violation) | as `ingestion`, 1 key | a retry, or a second task, takes the failed delivery for a duplicate and acknowledges it |
| `audit` | 3 writers, 2 tenants, 3 keys, clock 0..3 | `QuietChainVerifies`, `IntactMeansOneLine`, `LinksPointBack` |
| `snowflake` | 2 generators, 1 bit of sequence, clock to 3, 3 ids each | `IncreasingIds`, `WorkersNeverCollide` |
| `integrations` | four connections, 3 clients, 4 tokens; 2 users of one App installation, clock to 4; 14 kinds of delivery in pairs | `StoredTokenUsable`, `ShownOncePerClient`, `ConnectedOnce`, `RevocationTakesEffect`, and `RemovalIsRecorded` under fairness |
| `services` | 81 payloads; 3 tasks, 2 boards, 8 pasted references; 2 sessions on 1 row, 3 saves; 10 account calls | `EnrichmentKeepsPayload`, `RevertNamesItsTitle`, `SameEnvironmentOnBothHosts`, `LinksMatchAttempts`, `SecondRecordByOverlap`, `JiraLinkIsLive`, `TrailTellsTheRow`, `SecretKept`, `AnsweredUserIsStored`, `NoSecondMembership`, and `EveryTaskSettles` under fairness |
| `unaudited` (violation) | the sessions of `services` alone | a loaded row with a secret is deleted without a delta |
| `strict_audit` (violation) | the sessions of `services` alone | a created row stays though its delta was not written |

`TypeOK` is checked in the safety run of each module that has one (the proofs of
`TicketLinks`, `Storage` and `Accounts` hold their types instead), and each property of a
passing run is broken by a mutant of the code (`<definition>_<bug>` in the modules).

Why the bounds are enough.  Approvals of different deploys share nothing but keys, so one
deploy and three calls give every overlap of a request with two decisions; two
users tell a torn row from a whole one.  In `ingestion` each queue puts three
events together that touch the same rows: a duplicated delivery with another
deployment, two deliveries of one GitHub deployment, a deployment with its status
and its check suite, two reverts with the run they follow, and the events that are
ignored.  One retry exercises both the retry and the archive.  Three audit
records are the least with a fork below the root; the clock has four values so
that a chain of three can be strictly ordered, tied or reversed.  One bit of
sequence makes the second id of a millisecond overflow into the spin loop.
Bounds in guards: `MaxTime` (all clocks), `MaxIssued` (ids per generator).

The parts of `services` share no variable, and the three parts of `integrations` only
the installations, so each behaviour runs one workload: a set of calls, users and
deliveries (or tasks, sessions, payloads) that touch the same state, and the rest stand
still.  In `integrations` these are: a connection with three clients' calls, two of one
client and one of another; two callbacks, a disconnect and a callback without a site;
a reconnect that races a refresh; Linear, Slack and GitLab; two users of one
installation whose tokens live three ticks with a margin of one, so that a token can
be minted, cached, go stale and outlive a removal by the end of the clock (`MaxNow`
= 4; by `Noticed` time and removals move only in the workloads with users); and every pair of
deliveries, those of Jira with the callback and the disconnect that make and revoke
their installation.  Four tokens are the authorisation's, two refreshes and one
more callback.  In `services`, one retry and one restart give a task up to three
runs and reach the archive; two cards of one board race for its webhook; three saves
are enough for one model to be saved twice while another session commits in between, and
for a row to be created, deleted and saved back.
Bounds in guards: `MaxRetry` is asynq's own limit, `MaxRestarts` (shutdowns),
`MaxSaves`, `MaxNow`, and `Tokens` (a provider that has no token left refuses).

`CHECK_DEADLOCK` is off where the work of a behaviour ends: an empty queue with idle
workers in the ingestion runs, calls that are answered and deliveries that are routed
in `integrations` and `services`.

Fairness of `ingestion_live`.  `WF(Step(w))`: a goroutine that has work keeps
running, since every call in the handler returns (database calls are bounded by
the context).  `WF(Dequeue)`: asynq hands queued tasks to idle workers.  Nothing
is assumed of failures or crashes: `DispatchFails` and `Crash` stay outside the
fairness, and asynq's retry count is what bounds them.  `integrations`:
`WF(RouteRemoval(d))`, the Go scheduler runs a goroutine that was started; that its
process dies first is an outcome the property names.  `services`:
`WF(TaskStep(t))`, asynq hands a task out and its worker runs; a failure, a worker's
death and a shutdown are not fair and not excluded.

## 4. Disagreements between code and documentation

With a run: the five violation runs above; each is a finding in `PROJECT.json`
with its lines.  Of these, `unaudited` and `strict_audit` are of plugins that nothing
registers yet.  Seen while reading, without a run of their own:

- `ExpiresAt` of an approval ("is the deadline", `approval/model.go:50`) is compared
  nowhere, and `worker/approval_expiry.go` is a stub: a late grant succeeds.
- `asynq.Unique(30s)` (`deploy_ingestion.go:308`) keys on the payload, which contains
  `EnqueuedAt`, so it never matches a second enqueueing.  The model lets two tasks
  carry one delivery.
- A check suite's save of whole rows may take back an outcome that was stored after it read them
  (`deploy/service.go:159`).  No document promises otherwise, so no run refutes it;
  `ForeignFieldsOnlyByStaleSave` says that a stale copy is the only way, and `SerialOutcomesStay`
  proves that it takes two workers.
- A revert is documented to link to the deploy of the reverted commit
  (`deploy_ingestion.go:127`); the code links to the newest deploy of the environment.
- `handleVerifyAuditChain` (`audit/handler.go:51`) answers `valid: true` without calling
  `VerifyChain`; `VerifyChain` itself recomputes no hash and asks nothing of the first row.
- `audit/model.go:61` lists the hashed columns without `resource_type`, which the code hashes.
- `snowflake.go:43` "we'll wait" sleeps once and reads the clock once more; a clock set back
  during the sleep, or a restart before the clock has caught up, can repeat ids.
  `IncreasingIds` is stated for the processes this did not happen to (`misled`).
- `jira/client.go:111` "Uses a mutex to prevent concurrent refresh races": the mutex belongs
  to a `Client`, and `ForOrg` makes a new one per call.  Two clients may spend one refresh
  token; `ShownOncePerClient` is what the mutex does give.
- `jira/oauth.go:151` "Tokens are revoked with Atlassian": `revokeToken` is a stub.  A revoked
  row keeps its unique `org_id`, so a reconnect saves its tokens and then fails, and a
  `FindByCloudID` that is no stub would still find it.
- `trello/enrichment.go:11` "Idempotent", for `RegisterBoardWebhook`: not for two tasks at once,
  nor after a failed lookup (`SecondRecordByOverlap` says exactly when).
- `trello/enrichment.go:87` "The card URL is always stored even if enrichment fails": a card
  that cannot be read ends the task without a link.  `worker/trello_enrichment.go:33`
  "creates or updates": it always inserts.
- `org/model.go:61` "A user may belong to multiple orgs": every created user, organisation and
  membership gets the placeholder key 1, so each table holds one row at most.
- `github/webhook.go:121` "The reconciler ... catches these misses": its body is empty.
- `jira/resolver.go:78` takes the last segment of a pasted URL whole once a key matches anywhere
  in it: `ops-1?OPS-2` matches by `OPS-2` and links `OPS-1`, since Jira reads the rest as a query.
- `inferEnvironment` lowers the branch but not the default branch: a default branch with an
  upper-case letter is "unknown" unless it has one of the known names.
- `jira/webhook.go:64` logs an unknown `cloud_id` and stops, if the lookup returns an error; the
  only `FindByCloudID` (`jira/types.go:104`) returns nil without one.  Every event with the right
  secret is accepted, and its goroutine panics at `installation.OrgID`, which takes the process with
  it.  So does an `issue_deleted` event without an issue (`jira/webhook.go:162`).  Both are
  `RoutePanics`.  A real lookup would find revoked rows too (`Connections` keeps them).
- `crypto/gorm_plugin.go:136` calls the prefix test "fully deterministic, eliminating the risk of
  misidentifying plaintext": a plaintext that begins with `ENC[v1]` passes it, is stored in the clear,
  and then fails every query that reads it.  `Prefixed` are such plaintexts; `SecretKept` says that
  they too are kept as they are.
- `model/base.go:40` "BeforeCreate generates a snowflake ID for append-only base": `AuditRecord`, which
  embeds that base, has a `BeforeCreate` of its own (`audit/chain.go:11`) that does not call it.  Every
  record has the key 0 and the second is refused.  Were ids given, two first records of an organisation
  could overlap and both store NULL, against `audit/model.go:66` "Null only for the very first record of
  an org"; `SerialChainsStartOnce` proves that they have to overlap.
- The delta plugin (see `strict_audit`) also tells of statements that failed, a create that was refused
  or a delete that was rolled back, since its callbacks run after an error too; and the old value of
  an update is missing whenever the new value is not the old one, because the snapshot asks for the
  row by its new values.
- `linked_tickets` is created by migration 006 and again by 009.

## 5. Proofs

All proofs are for arbitrary constants under the named assumptions of the modules
(`ConstantsOK`, `EventsOK`, `TasksOK`, `ChainOK`, `GeneratorsOK`, and those of the
integrations' and services' modules), which TLC evaluates in the runs of each module.

`ApprovalProofs`.  `EvidenceIsWhole` is not inductive, because `DecideSave` writes a
row read earlier.  `CallsOK` says what such a snapshot still has in common with the
table: the row exists, has the same identity, and the snapshot is that row before
any decision.  `TypeOK /\ EvidenceIsWhole /\ CallsOK` is inductive and gives
`TypeCorrect`, `EvidenceCorrect`, `NeverReopenedCorrect` and `OverwritesCorrect`.
`OneOfEachCorrect` rests on the table's key alone, not on the check before the insert.
`SerialDecisionsAreFinal` proves that the
disagreement of `approval_final` needs two calls at once: with at most one call in
the instance, decided records are final.  `LedgerCorrect`, the refinement of
`ApprovalLedger`, assumes nothing of the number of reviews a deploy has: no step changes
more than one row (`OneRowPerStep`), so a step changes one review at most; a new
row opens it, and a save closes it or replaces the decision, by `EvidenceIsWhole`.

`AuditChainProofs`.  The invariant relates each append in flight to the table (its
link is a stored record of its tenant or NULL) and, for an undisturbed tenant, says
that each record links to the one stamped just before it.  From it follow
`LinksCorrect`, `QuietChainCorrect` (the walk of `VerifyChain` is then the order of
the stamps) and `IntactCorrect`, which needs only the definition of a walk: if no
link of some walk is broken, predecessors are pairwise different.
`SerialChainsStartOnce`: with at most one writer only the first record of an
organisation has no predecessor.  Longer chains exist only where ids are given
(`IdAssigned`); of the program as it stands these theorems speak of one record.

`SnowflakeProofs`.  The invariant says that every issued id is packed from a time, the
worker and a sequence within its bits, and that the ids of a process that was not
misled lie at or below its `(lastTime, sequence)`.  Packing is shown injective and
monotone by arithmetic on the two field widths; `WorkersCorrect` and
`IncreasingCorrect` follow.

`DeployIngestionProofs`.  None of the table's invariants is inductive, because the
three writers save what they read several steps ago.  Two facts about the workers
carry them.  `OneOwner`: from its record to its result a delivery is in the hands of
at most one worker, since `Record` is refused for a key that exists and a retry stops
at the duplicate check.  `CallOK`: what a worker inside the service may still rely on,
namely that its delivery has no row before its own insert, that the deploy a revert
will link to is stored, and that each row it copied is stored still with the same
origin and link and was witnessed when copied.  With `RowsOK` (the invariants of the
table, and that each row's delivery is on record) they are inductive.  Every step is one of
three kinds: it leaves the table alone (`LeavingSteps`, `ServingSteps`), inserts a row
(`RowInserted`) or saves a copy (`RowSaved`), and `Undisturbed` shows what the other
workers keep.  All safety properties of the `ingestion` run follow, for any number of
workers, tasks and retries; `ForeignFieldsCorrect` adds that a lost update is the only
way a CI call touches an outcome or a status call a CI status, and `SerialOutcomesStay`
that with at most one worker no outcome is erased, since every copy is then as stored
(`CopiesFresh`).  `LogCorrect` is the refinement of `DeliveryLog`: every step of a worker is
a step of the log or leaves it alone.  It needs one more invariant, `Pending`: nobody has
settled a delivery while a worker owns it, and the calls that lead to a row are made only
for a delivery that is to make one.
`SingleRunsReportFailures` names the causes of the disagreement of `ingestion_retry`: with no
retry and one task to a delivery (`RunOnce`), a task is acknowledged only if its delivery did
not fail.

`WebhooksProofs`.  Its specification starts with any subset of the calls, users and
deliveries at work, so it covers every workload of the run at once.  That the stored
refresh token can be spent rests on who holds which token: a token is fresh from its
issue until it is stored, one call has it and nobody can spend it (`FreshOK`); once stored
it belongs to one connection (`StoredOK`); once it left the store it never comes back
(`SpentOK`, `SuccessorOK`); and it dies only by being shown (`ShownOK`).  With `MutexOK`, that
one call at a time uses a client, they are inductive and give `StoredTokenCorrect` and
`ShownOnceCorrect`.  `ConnectedOnceCorrect` needs that installations are never taken away.
For the App's cache, `Lives` bounds the expiry of every
token in the cache or in a user's hands by the moment its installation was removed;
a user that is served had the margin when it looked, and `RevocationCorrect` follows.

`TicketLinksProofs`.  A Jira request that is about to be linked holds the key of an issue
its reference names (`NamedIssues`), which gives `JiraLinkCorrect`.  A board that is not
unsure has one task at most between the lookup and the record, and no record yet while it
has one.  A task's rows are at most its
finished runs, and one more once the run it is in has stored.  Both are inductive
without the fairness.

`StorageProofs`.  The invariant (`StorageInv`) has a part for a session by itself and a part
for a session beside the rows.  `SecretCorrect`: a model that was loaded or stored opens to the
secret of its row (`SecretOK`), through its encryption and an update that turned into an insert, and
what is stored was encrypted (`SessionOK`); so a save stores what opens to the same secret.
`TrailCorrect`: the snapshot a session holds is what the row shows until it commits (`FreshOK`), and
what it still has to tell is what the row shows (`PendingOK`), unless the row is clouded.  So a
commit that leaves nothing to tell changed nothing, and a delta that is written tells the row.  A
row is clouded by exactly the events the property names, each of which TLC finds to be
needed: a statement without a model, a delete whose snapshot was not found, an overlap, and a
delta that failed, was lost with the process, or was written of a statement that failed.

`ServicesProofs`.  For `Accounts`, the keys of the tables, which soft-deleted rows keep,
carry both theorems; the checks before the inserts are not used.  For `GitEvents`,
enrichment is shown request by request to only add to what was parsed (`AddsTo`); the
theorems on texts rest on lemmas that compute a trimmed prefix, suffix or quotation for
every sequence of pieces, without induction.  `PartsCompose` shows that the server which
runs the four parts side by side implements the specification of each, so that every
theorem about a part is one about the server (`ServicesCorrect`).

Only model-checked: the liveness properties `TasksSettle`, `RemovalIsRecorded` and
`EveryTaskSettles`, out of the prover's reach, and what the violation runs refute.

## 6. Not modelled, and the plan

Not modelled because there is nothing to check: the scaffold domains and workers
(placeholder returns), the HTTP platform, the wiring, the frontend; and retention,
tombstones and the PII nullifier, static reports over struct tags that no worker and no
handler acts upon.

Left out of the modelled components, because nothing calls them or nothing uses what they
return: `ExtractLinearTickets`, Trello's card update parser and `isDeployedListName`,
`ExtractKeys` of Jira, `DeleteWebhook`, `withRetry` and `ValidateCardURL`, Jira's `RegisterWebhook` and
`SearchByCommitRef`, the read-only requests of GitHub's enrichment.  PagerDuty's correlator is
called by its receiver (`pagerduty/webhook.go:73`), and logs and returns at a TODO.  The senders of
Slack and the clients of PagerDuty and GitLab keep no state.

Next, in this order:

1. When the receiver enqueues (today a TODO): `Webhooks` composed with `DeployIngestion`
   over asynq, with "an accepted delivery is stored or archived" end to end.
2. When the stub repositories are written: their lookups and keys in place of the migrations',
   first of all what `FindByCloudID` finds.
3. When the plugins are registered and ids are given: `Storage` with several
   fields, and `Accounts` with drawn keys in place of the placeholder.
