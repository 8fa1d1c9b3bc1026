# Verification of go_backend

go_backend downloads the electronic invoices (CFDIs) of Mexican companies from
the tax authority (SAT), stores them in one PostgreSQL schema per company, and
serves them to the web front end, to an accounting agent (ADD/Pasto, COI) and to
administrators. Four programs share the code: `cmd/server` (HTTP), `cmd/worker`
(the handlers of seven Service Bus queues), `cmd/cron` (scheduled jobs) and
`cmd/sat_request_generator` (a tool run by hand).

The modules here model what is hard to test in it: handlers that interleave over
the same rows, messages delivered late, twice or never, a web service that
answers hours later, two systems written one after the other without a
transaction, and processes that die between two statements. TLC checks
them on small instances; TLAPS proves every safety property that a passing run
checks for every value of the constants. Liveness is only model-checked.

## 1. Inventory

| Component | State | Operations | Talks to | What is hard | What makes it correct |
|---|---|---|---|---|---|
| SAT query pipeline (`worker/handlers/{send_query_metadata,create,verify,download}_query.go`) | rows of `sat_query` | one handler per queue: ask the SAT, verify, download, hand over for processing | SAT, blob storage, bus, next queue | lost publishes, redelivery at every step, polling with a limit, two chains of messages for one row | nothing unfinished is downloaded, nothing missing is reported as processed, every query ends |
| Service Bus consumer (`infra/azsbconsumer`, `cmd/worker/main.go`) | locks and delivery counts at the broker, receive loops | receive, dispatch, settle, stop | broker, handlers | peek-locks that expire, panics, shutdown, one loop failing | at-least-once delivery, every loop served, Run ends when and only when it should |
| CFDI store (`process_metadata.go`, `process_xml.go`, `xml_*.go`) | `cfdi`, `payment`, `payment_relation`, `cfdi_relation`, `nomina` | upsert batches, cascade of cancellations, upsert of an XML and its related rows | blob storage, the tables | two handlers over one row without transactions, packages out of order | a cancellation is never undone, an XML never lost, related rows agree with their CFDI |
| XML completion (`complete_cfdis.go`) | chunks of one run | read the range, read the rows, walk, publish | `cfdi`, bus, create queue | the table changes between the reads; index arithmetic; dates cut to days | every CFDI without XML is asked for |
| SAT client (`infra/sat`) | login token | SOAP calls | SAT | error classes, ranges | see the pipeline and XML completion |
| Event bus, publishers (`domain/event`, `infra/azsbpub`, `infra/sqs`) | subscriptions | Publish, dispatch | Service Bus or SQS | errors are only logged; delays | a message published arrives, once it is due |
| Scheduled jobs (`cmd/cron`) | – | publish for every active company | bus | overlap with manual requests | every active company is served |
| Date windows (`domain/datetime`, `admin_sat_enqueue.go`, `subscribe.go`) | – | cut a range into windows and slots | bus | UTC against Mexico City, exclusive ends, clamping | each day asked once per direction |
| Manual synchronisation, SAT log (`handler/sat_query.go`) | `sat_query` | check limits, publish, reverify, report days | bus, `cfdi` | checks before the rows exist | limits hold; a day reported complete was asked for |
| Tenant connections, migrations (`internal/db`) | pool, `search_path`, `schema_migrations` | acquire, set schema, migrate | PostgreSQL | handlers that hold two connections, two replicas migrating | no handler in another schema, no pool deadlock |
| Company lifecycle (`handler/company.go`, `domain/company`) | company row, three certificate objects, permissions | create, upload certificates, update, delete | storage, bus, migrations | steps without a transaction, duplicate checks | a company is complete or absent; created once |
| Company settings (`company.go`, `coi.go`, `scraper.go`) | JSON column `company.data` | read, change, write back | control database | lost updates | a setting written stays |
| Workspaces, licences (`workspace.go`, `license.go`, `product.go`, `infra/stripe`) | workspace row, Stripe subscription | set licence, subscribe, cancel | Stripe | two systems, no transaction | never without a licence that was paid |
| Users, authentication (`user.go`, `permission.go`, `domain/auth`, `infra/{selfauth,cognito,jwks}`) | user rows, key cache | sign up, log in, permissions | identity provider | creation in two systems, stale keys | one user per identity |
| ADD synchronisation, COI (`pasto_*.go`, `coi.go`, `infra/pasto`) | `add_sync_request` | create, metadata / XML / cancellation webhooks | Pasto, bus | webhooks in any order over one row | a request that failed is not reported as done |
| Attachments, policies, exports | rows and storage objects | upload, delete, export | storage | row and object in two steps | a row names an object that exists |
| Notification settings (`handler/notification.go`) | `notification_config` | replace the types of users | control database | rewrites that overlap | a user has the types asked for |
| CFDI search, catalogues, taxes, PDF | – | one statement per request | database | – | not modelled: nothing outlives a statement |
| HTTP server, configuration, logging, tools | – | wiring | – | – | not modelled |

`PROJECT.json` lists the same components with their files and the modules that
model them, and every hazard at the line where it bites.

## 2. Modules

### QueryLife and SatQueryPipeline

`QueryLife` is the promise for a query, whatever is lost, late or delivered again: its
packages move from the SAT's offer to storage and on to the tables, its row never
shows more than they have reached, and once verified it never waits again.
`SatQueryPipeline` is the code, and implements it (property `LivesAsPromised`, theorem
`Implementation`): `Shown` maps the states of a row to phases, and an answer is
accepted when it is `Downloadable`.

One state per database row, storage container and queue: `row` is the
`sat_query` table, `sat` the SAT's view of the solicitud sent for a row, `blob`
the stored packages, `loaded` the packages whose records reached the tables,
`queue` the seven queues. Every handler is an action, split by outcome
(`CreateQueryInCerts`, `CreateQuerySent`, `VerifyFinished`, `VerifyOverLimit`,
`VerifyRetry`, `DownloadStored`, `DownloadFailed`, ...); `CreateQueryInterrupted`,
`DownloadInterrupted` and `ProcessInterrupted` are the handlers that die half-way.
The publishers outside the worker are `CompanyCreated`, `Cron`, `AdminEnqueue` and
`Manual` (with its limits and `Reverifications`).

Abstractions. Queues are sets: the order of scheduled messages is not kept, and
a message twice in a queue is the same as one that is delivered again. Time is
counted in units of 15 minutes, the step of `verifyBackoffDelay`; the model's
clock stays within one day. The dead-letter queue is in ServiceBusConsumer, not
here. What can go wrong is chosen per run with `Faults`.

### MessageQueue and ServiceBusConsumer

`MessageQueue` is what a team expects of the queues: at-least-once delivery with
a dead-letter queue. `ServiceBusConsumer` is the code: one `runQueue` per queue
and replica with its local variables (`loop`, `inhand`, `batch`, `outcome`), Run's
error and wait group (`failed`, `result`), and the broker's peek-locks. It is
shown to implement MessageQueue (property `AtLeastOnce`, theorem `Implementation`).

### CfdiRegister and CfdiStore

`CfdiRegister` is the promise: a register of CFDIs that only learns; a status
goes from unknown to vigente to cancelado and a stored XML stays. `CfdiStore` has
one action per SQL statement of ProcessMetadata and ProcessXML, with the loops of
every replica interleaving; the packages are snapshots that may be old when they
are processed. A message of one package stands for one of several: the handlers
treat packages one by one. `Day` gives each CFDI the day of its Fecha, since the
queries of CompleteCFDIs ask for whole days.

### CfdiChunks

`CompleteCFDIs` statement by statement and chunk by chunk: the two SELECTs, the
walk with `ixStart`, the publishes, while `Insert` and `Settle` change the table.
The walk is written with the indices it looks for instead of its inner loops.
Go's indices from 0 are TLA+'s from 1. `Requests` is what the SAT makes of a range
after `soapFechaCentro`.

### TenantPool and Migrations

`TenantPool`: `path` is the `search_path` of each connection, which survives the
session that set it, `held` who has it, `run` what each receive loop is at. A
handler may need a second connection while it holds its own.
`Migrations`: replicas that start together, each with its copy of the versions
applied (`boot`), over one table of versions; a migration and the insert of its
version are one transaction, so the second replica fails on the primary key and
starts again.

### Companies and CompanySettings

`Companies` follows `createFromCerts`, `UploadCer` and `AdminCreate` statement by
statement: the count, the tables, the row, the three objects, the flags, the
permissions, the event. `filing[k]` is a call with its local variables, and what
it did not see (`missed`, `alone`, `seen`, `blind`): ghosts, set by the others'
actions and read by properties only. `CompanySettings` is the column
`company.data` with its readers that write it back, and the rewrite of
`notification_config`.

### Accounts, Permissions, JwtKeys, Licenses

`Accounts` has the table `user`, the pool of Cognito identities and the calls that
write both, for the two providers (`cloud`). A look-up may fail: CreateUser then
refuses, SetEmail and SuperInvite go on as if they had found nobody (`LookUpErrs`, and
the history `blind` of a call whose look-up would have found somebody). `Permissions`
is a READ COMMITTED transaction: `tx[c].deleted` are rows it has locked, `missed` what
others committed after its DELETE; it takes users to have different e-mails and a call
to give one set of roles. `JwtKeys` is the cache with its read and write locks against
a provider that rotates. A fetch has no timeout (`&jwks.HTTPFetcher{}` uses
http.DefaultClient, with the background context), so it lasts as long as it likes; the
age of the cache is counted from its end, and `asked` remembers when it began.
`Licenses` has the JSON licence of a workspace, the subscriptions at Stripe and the
calls between. The key `details` of a licence is an object with the parts `products`
and `limits`; a call with MOCK_STRIPE writes the products in it and the key
`stripe_status`.

### AddSync, PastoWorkers, Documents

`AddSync`: one request, its two counters and the state that two webhooks write from
their copies. `PastoWorkers`: a worker bought at Pasto and stored, credentials,
resets, and the list of companies applied statement by statement. `Documents`:
attachments (row, object, size; a size is what the client sends, the bits of an int64
that nobody checks, until an integer column refuses it), policies (a moment written in
the zone of its client, and number: the check compares the client's day with the day of
the row in UTC, the unique index the moment), exports (a key in storage, the upload and
the signing of its URL).

### SatWindows, ManualSync, EventBus

`SatWindows`: days are numbers, the calendar of Mexico lags behind; the windows of the
administrator, of a new company and of SendQueryMetadata, each message with its slot.
`ManualSync`: the two counts of `canRequestManualSync`, each of which may fail and
then counts nothing, against rows the worker inserts later, never (`RowLost`) or again
when its message is (`InsertAgain`), and that reach a final state (`QueryIsFinal`) and
may leave it (`QueryReturns`). `EventBus`: publishers and goroutines with the stack of
events they are at (`work`), and the lock of the bus.

### How they are composed

The two halves of the pipeline meet in `SatQueryPipeline` (all queues and
publishers over the rows of a query) and `CfdiStore` (metadata, XML and cron loops
over the tables); the consumer is composed with its broker. The other components
share no state with each other beyond what a module holds, so `MCControlPlane` and
`MCCompanies` check them side by side: a behaviour chooses one part (`part`) and
the others stay where they began. An interleaving of two of them would show
nothing that each alone does not.

## 3. Runs

| Run | Question | Bounds |
|---|---|---|
| `pipeline_faults` | does the pipeline implement QueryLife, and do the safety properties survive lost publishes, redelivery and crashes, with requests of an administrator and of users? | one query, two packages, all answers, clock 0..3 |
| `pipeline_live` | without faults of delivery, does a row only move forward, and does every query end? | one query of the automatic publishers, two packages, unreadable packages, full backoff (clock 0..5) |
| `pipeline_manual` | finding, see below | one query, two packages |
| `consumer` | at-least-once, with locks that expire, settlements that fail and kills? is every message served, and does Run end when and only when it should? | one process with two queues, two messages, batches of two, two deliveries |
| `store_races` | do the tables only learn, do related rows agree? | one CFDI, two replicas, all faults |
| `store_live` | are rows inserted after a cascade deactivated in the end, and does an XML lost to the race arrive? | two CFDIs of two days, one replica with both loops, batches of one |
| `store_relations`, `store_xml` | findings | one CFDI, one replica |
| `chunks` | do the ranges cover what the run found, and is every CFDI asked for in the end? | three CFDIs, Fechas 0..3, chunks of two |
| `chunks_days` | finding | three CFDIs, Fechas 0..3 |
| `control_plane` | what can overlapping calls do to users, passwords, permissions, licences and subscriptions; which signing keys is a token accepted with? | accounts: two calls, two rows, two addresses, both providers; permissions: two rewrites over two users; keys: two keys, two requests, CacheTTL 1, clock 1..3; licences: one workspace, two calls, the keys `details` and `stripe_status`, two subscriptions |
| `companies` | what can overlapping calls, failures and deliveries do to companies and all that belongs to them? | companies: two calls, two ids, three certificates, two workspaces; settings: three writers, three keys; pool: three connections, two loops; migrations: three replicas, three versions; sync: one request, two webhooks; workers: three purchases, two sites; list: two reports, two companies in three spellings; attachments: three calls, three rows, four files (of size 1, of a negative size, as large as the limit of two, too large for the column), integers of 16 values; policies: two requests, moments of two days, clients in UTC and west of it; exports: three; windows: one request of each chunk size around the change of day; manual: two requests of a limit of two rows, days of two hours, clock 1..4; bus: two publishers, three goroutines |

Why the bounds are enough. The handlers of the pipeline never relate two rows, so one
query shows its races; that two queries do not take each other's answers or packages
is part of the invariants proved for every set of queries. Two replicas are the
smallest number with two loops of one kind over one row; a third adds no new pair of
steps. The loops of ProcessMetadata and ProcessXML of one replica interleave too. A
message whose lock expired goes to another loop or to the same: the consumer's
invariants do not tell which, and its `Implementation` is proved for every number of
replicas. Two deliveries are the first and the last one. Chunks of two are the
smallest with a start and an end; three CFDIs give a full chunk and a rest. In the
control plane and the companies, two calls are the smallest overlap; a third appears
where a limit has to be passed by a sequence (attachments) or where one call must end
between two others (settings, exports). The days of Mexico City and of UTC differ for
some hours only, so the windows are asked for in the hours on both sides of a change
of day. Two hours are a day in ManualSync and one is the block: a request before, in
and after either. Its two requests bring four rows, one more than the limit of two and
the one it is passed by. A token is presented before, at and after CacheTTL, and a
fetch may last longer than that. Sixteen integers hold a negative size, one that only
the wider column takes, and sums that overflow. Symmetry is used only in runs without
liveness, over values that Init and Next treat alike.

Bounds stand in the guards: `MaxTime` (pipeline, keys), `MaxDelivery`, `MaxSub`,
`MaxSubscriptions`, `MaxAsking`, `LastTime`, `Horizon`. Two runs have a state
constraint, `MCBound`; the theorems hold without either. That of `control_plane` leaves
out, with Stripe, the calls that write a licence directly (with Stripe the sale of a
subscription does not touch the licence), and what follows when a call of an account
whose look-up failed is also overtaken: it then has both exceptions of its properties.
That of `companies` leaves out what follows two manual requests that overlap
(`overlapped` is never reset, and `ManualLimitsHold` promises nothing then), a second
fault among the manual requests (a count that failed, a row that did not come or came
again, a query that left its final state), a second call that creates attachments
without having read the rows or with sizes that are negative or overflow, and calls
that bring more than two attachments. A
history of a call is forgotten with the step it is about (`missed`, `blind` and
`alone` in Companies), which keeps the states few.

Mutants. Every property of a passing run has a mutant in `PROJECT.json`: a
definition with a plausible bug (an operator that starts with "Variant:" in its
comment) under which TLC finds the property violated.

Properties of one question are checked together: a property such as `ChecksNeedOverlap`
or `WorkersAgree` is the conjunction of named parts, each with its own comment in the
module. No run checks a `TypeOK`: those of the pipeline, the consumer, the store and
the chunks are proved, and the others are parts of the invariants of section 4.

### Fairness

- Pipeline: the receive loops run (weak fairness per query and queue) and time
  passes. The worker has one loop per queue and no handler waits for another.
  Sends and settlements work in `pipeline_live`. They must: Bus.Publish only logs
  an error, so one send that fails leaves its query in a temporary state for ever,
  and no job looks for such rows. The safety properties do not need it.
- Consumer: handlers have a deadline of 15 minutes, locks expire, containers are
  restarted; a receive that is tried again and again succeeds (strong fairness). A link
  that neither delivers nor gives an error is not covered: Run would not end for it, and
  its queue would not be served (a hazard without a property).
  `Calm` says that signals, kills and broken links happen finitely often.
- Store: loops run, no message is passed over for ever, and the scheduled jobs
  sync-metadata and complete-cfdis run again and again. A user's requests are not
  assumed.
- Chunks: complete-cfdis is scheduled again and again, and from some time on its
  process does not die.

- Control plane and companies: none. A user who does not come back leaves a call
  unfinished, and nothing in the code takes it up again; the properties are safety.

`CHECK_DEADLOCK FALSE` stands in `pipeline_live`, whose clock stops at the bound
`MaxTime` and whose queries are used up, and in `control_plane` and `companies`, where
calls are used up.

### Findings

Each is a run in which TLC finds the quoted statement violated.

1. `pipeline_manual`: the metadata queries of a new company are stored as manual
   ones and block the manual request of its user.
2. `store_relations`: the cascade of a cancellation updates a table that does not
   exist.
3. `store_xml`: an INSERT of the metadata between the UPDATE and the INSERT of an
   XML makes both do nothing.
4. `chunks_days`: the end of a chunk is cut to its midnight, so the CFDIs of the
   last day of a chunk are never requested.

### What the models showed besides

No document says otherwise, so these are no findings; the properties are stated with
the exceptions they name, and a reader should know them.

- Publishing: Bus.Publish logs the error of a send and goes on. `NothingDropped` counts
  such an event as handled: it is about events that no handler sees, not about messages
  that the broker never gets; those are the lost publishes of `pipeline_faults`.
- Pipeline: a reverification starts a second chain of messages for a row, and a
  verification takes a PROCESSED row back to TO_DOWNLOAD.
- Manual requests: each inserts two METADATA rows, so a limit of three is passed by
  the second request of a day (`ManualLimitsHold` says "and one"); rows of the
  administrator are flagged as manual and count too; both counts drop their errors, so
  a count that fails lets the request pass (`unread`), and a create-query message that
  is delivered again inserts a row again, with a new identifier (`copy`):
  `ManualLimitsHold` names both; several error states are not
  among `manualSyncFinalStates` and block for two hours. A verification that is
  delivered again, or asked for by hand, takes a final query back to work without a
  check: the part of `ManualLimitsHold` about requests that run together is about
  queries that never left a final state.
- Windows: the metadata that follows an administrator's request is published by
  another listener and shares its moments with the slots of the CFDIs
  (in `ScheduleIsExact` the spacing is per listener).
- Users: no index makes an e-mail unique. An invitation whose address is typed with
  other capitals, or that overlaps a creation, replaces the password and the subject
  of an account of selfauth. So does one whose look-up fails: SuperInvite takes every
  error of its SELECT for a user who does not exist, and SetEmail for an address not
  in use (`PasswordKept` and `DuplicatesNeedOverlap` name these cases). An invited
  user has no password until he asks for a new one. `isUsernameExistsException` never
  matches the wrapped error of the SDK. The error of `createDefaultWorkspace` is
  ignored.
- Permissions: two rewrites that overlap leave the union of their roles, or rows
  twice (`RewriteIsExact` names `missed`).
- Signing keys: a fetch has no timeout, and the age of the cache is counted from its
  answer. A key that was withdrawn is accepted for CacheTTL and the time the fetch took,
  which nothing bounds (`KeysAreFresh` says so), and all other requests wait for the lock
  meanwhile.
- Licences: `ProcessPaidAlert` looks for the subscriptions of customer "" and renews
  nothing; the errors of Stripe's lists are ignored, so a list that fails sells a
  second subscription (`blind`); with Stripe, `SetLicense` never writes the workspace.
  With MOCK_STRIPE it sets `stripe_status` to active in a licence whose other keys it
  does not look at.
- Companies: a failed upload in `createFromCerts` leaves a row without permissions,
  which blocks its RFC; a renewal that fails half-way leaves certificate, key and
  passphrase of different uploads with `has_valid_certs` TRUE (`FlagsFollowObjects` is
  about the calls that set the flag); workspaces with the default licence are not
  counted by the query of freemium accounts.
- Settings: users dropped from every list keep their notification types.
- Pool: ten connections serve seven receive loops, which is what `NotStuck` needs;
  with ten loops that each want a second connection it would not hold.
- Pasto: a list with no complete row deletes every company of the workspace; a
  failed SetWorkerCredentials still marks the workspace as installed; a company can
  be linked to a Pasto company of another workspace.
- CFDIs: `CFDI.Update` ignores every error.
- Exports: the key `exports/<name>.<ext>` is the same for all companies
  (`ObjectsAreTheirOwn` names it), and an export whose URL could not be signed has
  replaced the object of another all the same; `SaveExportToS3` drops the error of the
  upload; `Poliza.Export` ignores the filter of its domain.
- Policies: two of one day with different hours in one request pass the check and
  the index. The check writes the date of a request in the zone of its client and
  compares it with rows in UTC: near midnight it lets a number pass that is taken, or
  refuses one that is free.
- Attachments: two calls that overlap both pass the check of the size, and pass the
  limit together (`SizeNeedsOverlap` is about the call that inserts and saw all rows).
  The error of the SELECT of the rows is dropped, so a call that cannot read them counts
  none (`blind`). Nobody looks at the sizes that a client sends: a negative one makes
  room, and a sum may overflow (`wild`). A size that the integer column cannot hold fails
  its INSERT after the rows before it.

## 4. Proofs

Eight modules hold theorems. They assume what the modules they are about assume of
their constants. These assumptions give the constants their types, and the values
that stand for nothing are none of the values that stand for something. Four say more:

- `TenantPoolAssumption`: there are fewer receive loops than connections, and a table
  of a tenant has the name of no table of the control database.
- `SatWindowsAssumption`: the calendar reaches back to the first year of a bootstrap.
- `DocumentsAssumption`: no client names an export like the folder of another export,
  which is a new UUID, a CFDI has finitely many names of attachments, and a size is
  the bits of an integer: `Size[f]` is below `SizeRange`, with any values in the two
  ranges.
- `PastoWorkersAssumption`: an id that Pasto gives is its own lower case.

Each invariant that a theorem states is seldom inductive. What each proof adds:

- **SatQueryPipelineProofs**: `TypeCorrect`, `OnlyFinishedIsDownloaded`,
  `StoredBeforeProcessed`, `ProcessedIsLoaded` and `VerifyWithinLimit`, which say nothing
  of messages still in flight. The invariant `IInv` adds what each queue may hold: a
  download message names the packages of a finished answer, a processing message
  names stored packages of a row past verification, a verification carries the sent
  date of its row. It is the conjunction of these parts, and each action disturbs few
  of them. `ForwardOnly` is proved where nothing is delivered twice and nobody
  verifies by hand: then a row has at most one message in all queues together, and
  that message fits the state of the row (`Once`). Otherwise it does not hold, which
  the exceptions of section 3 name; messages may be lost and packages unreadable.
  `Implementation`: under every fault, each step of the pipeline is a step of QueryLife
  or a stutter. Needed: a processing message says that all packages of the answer are in
  storage, and an answer is accepted once, so that what is offered stays. The safety
  half of `TemporaryIsLeft` is proved too, for every number of queries and with
  verifications by hand: `TemporaryIsCarried` (where nothing is lost or interrupted, a
  query in a temporary state has its next message in flight; needed: a handler that
  takes a message away has moved its row on or published the next) and
  `RetriesAdvance` (a retry is later than the one before and within MaxWait of the
  sent date, under every fault). That the loops take these messages is fairness.
- **ServiceBusConsumerProofs**: `TypeCorrect`, and `Implementation`: every step of the
  consumer is a step of MessageQueue or a stutter. Needed for it: a loop that is
  about to complete a message holds it, and its handler returned nil.
- **CfdiStoreProofs**: `TypeCorrect`, `RelatedRows`, and `Implementation`: CfdiStore
  implements CfdiRegister. Needed: a snapshot names a CFDI as cancelled only when
  the SAT has cancelled it (`TrueSnapshot`), the cascade only holds CFDIs whose rows
  are cancelled (`MetaOK`), and the XML in hand has a row once its upsert is over
  (`XmlOK`).
- **CfdiChunksProofs**: `TypeCorrect`, `NoCfdiLeftOut` (`NothingLeftOut`) and
  `ChunksAreTight` for every number of CFDIs and chunk size. For the first, the
  invariant follows a CFDI that is due through the run: it is in the range read, then
  among the rows, then in a chunk or not walked yet, then in a chunk or published. For
  the last, each chunk has the two rows it was cut from, behind the walk and fewer
  than `maxCFDIPerChunk` apart (`TightIInv`).
- **RequestsProofs**: `ScheduleIsExact` and `ManualLimitsHold`. For the first, the
  messages of a call are those of the windows of its range and nothing else
  (`Planned`); the rest is arithmetic about windows and slots, for every length of a
  window (`WindowsOfRange`, `SlotsDiffer`). For the second, only one request is at work
  x midnight may pass between its check and its rows.
- **CompaniesProofs**: `CompanyHasTables`, and `LimitsNeedOverlap` from its two parts.
  Needed: a call that is past its count has in `missed` every company of its RFC that
  was inserted since, and a call past the migrations has made the tables of its id,
  which no other call has. `FlagsFollowObjects` and `AnnouncedOnce` say how far each
  call has come with objects, flags and announcement (`CertIInv`);
  `SettingsNeedOverlap`, that what a call read is what is stored but for what it missed
  (`SettingsIInv`). `OwnTables` and `NotStuck` of the pool: a session that works holds
  the connection whose path it has set, and nobody else does; who waits for a second
  connection holds one, so that those who wait hold at most as many connections as
  there are loops, fewer than the pool has. `AppliedOnceInOrder` and `ServesComplete` of
  the migrations: a replica's copy of the versions is a part of those recorded, and
  all below the one it runs are in it.
- **ControlPlaneProofs**: `RewriteIsExact` and `RoleOutlivesRewrite` of the
  permissions (what a rewrite did not see, it has in `missed`; what it has deleted is
  in the table until it commits); `OneFetch` (proved only) and `KeysAreFresh` of the
  signing keys (an answer, and then the cache, holds no key that was withdrawn before
  its fetch began, however long that took); `DuplicatesNeedOverlap` and `PasswordKept`
  of the accounts (a call past its look-up that was neither overtaken nor `blind`
  knows that no other user has its e-mail); `LicenseKeysKept` and `SalesAreWhole` of
  the licences (a call that is not late holds the licence as it is stored, and knows
  the newest subscription of its customer). That the newest subscription of a list
  exists is proved by the least counterexample (`Largest`).
- **ExchangeProofs**: `RemainingIsError` of the requests to the ADD, which is
  inductive; `WorkersAgree` (a call that was not overlapped and is about to buy a
  worker knows that there is none; what Pasto made is stored, being stored or known as
  orphaned); `ListsAreApplied` (a row has one owner, and a list that runs alone has
  still to do what the table lacks of it); `ObjectsAreTheirOwn` (a call that deletes
  an object has its row, live, or another deletion of it is done; a file belongs to
  the call that stored it or to one of the same name and format, answered or not);
  `ChecksNeedOverlap` (a call that saw all rows, with sizes that are what they say,
  finds room for all it has still to insert, `HasRoom`; what a request of policies did
  not see, it has in `missed`); `NothingDropped` of the event bus, for every number of
  publishers and goroutines: for each type, the publishes are the handlers that ran
  and those in the lists of the threads, and what was asked for from outside or by
  handlers that ran is published or in a list (`Balanced`). The invariant counts the
  tasks of all lists; a task is known by how many are after it, which steps at the
  front of a list leave alone (`LeftOfFront`). Sizes and what handlers publish are
  added up with `MapThenSumSet` of the community modules, a fold that picks one
  element after the other: that such a sum exists, and is the same in whatever order,
  is proved for every finite set by the least counterexample (`SumExists`,
  `SumRemove`).

Only model-checked, and why:

- Liveness is out of the prover's reach, and so is ENABLED: `TemporaryIsLeft`, `Served`,
  `RunEnds`, `EveryNeedIsAsked`, `XmlArrives`, `PaymentsFollowCancellation`.
- What the four runs with a violation show.

## 5. Not modelled

Formats (SOAP, XML, CSV, JSON, PDF), amounts and taxes, cryptography, search and
filters, catalogues, configuration and logging. They are data to the properties
here, or live within one statement. The log of days covered (`handler/sat_query.go`)
and the searches of COI only read. The jobs of `cmd/cron` appear as the publishes
they make; which companies they make them for is one SELECT. The scraper and the
ADD are other programs. Each module says at its head what of its component it
leaves out.

The next steps would be refinements rather than new components: an abstract map for
`company.data` that CompanySettings implements but for named overlaps, and
a composition of ManualSync with SatQueryPipeline: the rows that count there are those
that move here, and `QueryReturns` allows more than the pipeline does.
