# OpenSignFlow: a TLA+ verification project

OpenSignFlow prepares PDF documents, sends signing links by e-mail, collects
signatures over public links and produces a final PDF. It is a NestJS API and a
NestJS worker over PostgreSQL (Prisma, READ COMMITTED), BullMQ on Redis and an
S3 object store, with a Next.js front end. This directory holds TLA+ models of
the parts of it that are concurrent or can fail half-way, the TLC runs that check
them and the theorems TLAPS proves about them. `PROJECT.json` lists all of it in
machine form: components, runs, the source lines behind every definition,
hazards, findings and theorems.

Contents: [inventory](#1-inventory) - [modules](#2-modules) -
[outbox](#3-the-outbox-outbox-handoff) -
[signing workflow](#4-the-signing-workflow-signingworkflow-signingoverlap-documentlifecycle) -
[draft editing](#5-draft-editing-draftediting-draftoverlap) -
[queue consumers](#6-the-queue-consumers-jobworkers) -
[end to end](#7-from-the-send-to-the-pdf-finalization) -
[sessions](#8-sessions-sessions) - [documents](#9-documents-documents) -
[web pages](#10-the-web-pages-signingpage-editorview-jobstatus) -
[readiness](#11-readiness-readiness) - [runs](#12-runs-and-bounds) -
[fairness](#13-fairness) - [proofs](#14-proofs) -
[findings](#15-what-the-code-does-not-do) - [not modelled](#16-not-modelled).

## 1. Inventory

| component | state | operations | talks to |
| --- | --- | --- | --- |
| Sending (`apps/api/src/signing`) | `documents.status`, `signing_requests`, `recipients.status` | `send` | writes outbox rows, `pg_notify` |
| Public signing (`apps/api/src/public-signing`, the page `sign/[token]`) | the same, and `signing_submissions`, `document_field_values`, `job_records`; the page's query and form | `getByToken`, `submit`, preview | writes the finalization outbox row |
| Outbox dispatcher (`apps/worker/src/outbox`) | `outbox_events`, the flag `dispatching`, the LISTEN connection, the timer | start, notification, sweep, recover, select, claim, dispatch | reads the rows of the API, adds BullMQ jobs |
| PDF finalization (`apps/worker/src/processors/pdf-finalization`) | final file, `documents.completedStorageKey` and `finalSha256`, `job_records` | `process`, progress reports | consumes a BullMQ queue |
| E-mail delivery (`apps/worker/src/processors/signing-email`) | a dead-letter queue | `process`, the `failed` handler | consumes a BullMQ queue, a mail provider |
| Recipients and fields (`apps/api/src/recipients`, `document-fields`) | `recipients`, `document_fields` | create, update, remove, bulk assign | race with `send` |
| Documents (`apps/api/src/documents`, the New-document page) | `documents`, objects | upload, list, history, get, download | storage |
| Refresh sessions (`apps/api/src/auth`) | `users`, `user_sessions` | register, login, refresh, logout | the web session |
| Web session (`apps/web/src/lib`) | the access token, a refresh in flight | authorised calls, retry after 401 | refresh endpoint |
| Document editor (`apps/web/src/features/documents/components`) | query of the fields, positions overlay, rendering effect | drag, resize, place, remove, turn page, send | fields endpoints, `send` |
| Job status (`apps/api/src/jobs`, `use-job-progress-stream.ts`) | none but subscriptions | list, event stream, polling | reads `job_records`, Redis pub/sub |
| Queue readiness (`packages/queue`, `queue-readiness.service.ts`, worker `main.ts`) | `readiness` | probe, refresh, health check, start | Redis |
| Audit trail (`apps/api/src/audit`) | `audit_events` | record, list | inside or after the business transaction |
| Libraries (`packages/*`) | none | encryption, storage, validation, schema | |

What is hard in this system, and the properties that follow from it:

* **Check-then-write.** Every endpoint of the API reads, decides, and then runs
  a transaction that mostly updates by primary key. Two calls that overlap both
  pass the check. Correct means: a document is completed exactly when all have
  signed, once; a completed request stays completed; links are issued once.
* **A queue made of rows.** Several dispatchers poll, claim and release rows,
  are woken by notifications that may be lost and by a timer, and die between
  any two steps. Correct means: nothing is acknowledged that was not handed
  over, nothing is given up early, nobody works on a foreign claim, everything
  is settled eventually.
* **Leases and locks of jobs.** A lease can run out while its owner is alive, a
  job can stall while its execution goes on. Correct means: the file, its hash
  and its history agree, and no report comes ahead of what it reports.
* **Non-transactional pairs.** The queue, the object store, the audit trail and
  Redis are written next to a row, not with it. Correct means: a row or a report
  never refers to what is not there, and a success left everything.
* **Retries and duplicates.** BullMQ reruns stalled jobs, browsers repeat
  requests and give up on answers, a refresh token is presented twice, a link is
  open in two tabs. Correct means: what was done once is found done, and what
  the page says is true.
* **Answers out of order.** Queries, invalidations, renderings and events
  overlap. Correct means: what is shown is stored, and never goes back.

## 2. Modules

| module | models | abstract contract | theorems |
| --- | --- | --- | --- |
| `Outbox` | dispatcher replicas over one table | `Handoff` | `OutboxProofs` |
| `SigningWorkflow` | send, view, submit with row locks | `DocumentLifecycle` | `SigningProofs` |
| `SigningOverlap` | the same, remembering whether two calls ever overlapped | | `SigningProofs` |
| `DraftEditing` | recipients, fields and `send` against each other | | `DraftProofs` |
| `DraftOverlap` | the same, remembering whether a call wrote over what another had changed | | `DraftProofs` |
| `JobWorkers` | the two BullMQ consumers | | `JobProofs` |
| `Finalization` | composition of `DocumentLifecycle`, `Handoff` and `JobWorkers` | | `JobProofs` |
| `Sessions` | refresh sessions composed with the tabs of a browser | | `SessionProofs` |
| `Documents` | upload, lists in pages, links | | `DocumentProofs` |
| `SigningPage` | the page of a signing link in several tabs, over its endpoints | | `PageProofs` |
| `EditorView` | the document editor over the fields endpoints, among other editors and the send | | `DraftProofs` |
| `JobStatus` | how the owner follows a job | | `StatusProofs` |
| `Readiness` | the Redis probe, the health check, the start of API and worker | | `StatusProofs` |

`Finalization` is built on contracts: `SigningWorkflow` is shown to implement
`DocumentLifecycle` and `Outbox` to implement `Handoff`, so the composition uses
those two in their place, together with the consumers in full.

Every module is parameterised by CONSTANTS with a named assumption, has one
action per operation or awaited step, and has no RECURSIVE operator, so that the
proofs can use it. `MCx.tla` only names model values for the runs of a module.
Operators whose comment says "Mutant" are wrong variants of the definition below
them; they are in no action, and exist to confirm that each property can fail.

## 3. The outbox (`Outbox`, `Handoff`)

`Outbox` models `outbox-dispatcher.service.ts` for any number of worker
replicas. A *round* is one call of `dispatchSafely` that gets past the flag.

| code | model |
| --- | --- |
| `outbox_events.status`, `attemptCount`, `lockedBy` | `status`, `attempts`, `owner` |
| `lockedAt < now - LEASE_MS`, `availableAt <= now` | `lapsed`, `due` (time is kept only as what a query can see of it) |
| `dispatching`, and where the round is | `pc` (`"idle"` is the flag being false) |
| the interval; `"pending"` until the first round ends | `timer` |
| LISTEN connection, undelivered notifications | `listening`, `inbox` |
| the `events` array and each `event.attemptCount` in it | `batch`, `seen` |
| the API transaction with `pg_notify` | `CommitEvent` |
| `onModuleInit`, the interval, the notification callback | `Start`, `Sweep`, `HandleNotification` |
| `recoverExpiredLeases`, `findMany`, the claiming `updateMany` | `Recover`, `Select`, `Claim` |
| handler lookup, decryption, parse, `queue.add` | `Dispatch` (may fail before or after the job is in Redis) |
| the update to DISPATCHED, and its failure | `MarkDispatched`, `MarkDispatchedThrows` |
| the catch block | `MarkFailed` |
| process exit, rejected bootstrap, broken LISTEN connection | `Crash`, `FirstRoundFails`, `ListenerLost` |

One action is one database statement or one awaited call, so that replicas
interleave exactly where the code awaits. The handlers use stable job ids
(`JobOf`) and completed jobs are never removed, so adding twice is adding once
and `jobs` is a set. The DISPATCHED update is inside the `try` block; hence
`MarkDispatchedThrows` leads to the catch block. A database error anywhere else
is an unhandled rejection that ends the process, which is `Crash`.

`Handoff` is what the rest of the system may rely on: promise, try, enqueue,
acknowledge after the hand-over, give up after `MaxAttempts` tries; both outcomes
are final. `HandoffSpec` states that `Outbox` implements it until the first
overrun: every step of a replica, up to the step in which a claim outlives its
lease, is a step of the contract or invisible to it. With overruns the code breaks
the contract (section 15), and `DamageIsBounded` says how far the damage goes: one
more simultaneous holder per overrun, and at most one more attempt per further
replica, per fault and per overrun.

## 4. The signing workflow (`SigningWorkflow`, `SigningOverlap`, `DocumentLifecycle`)

One document, its signers and any number of overlapping HTTP calls. A call is a
read that decides (`BeginSend`, `BeginView`, `BeginSubmit`) followed by its
transaction. The tables hold committed state; READ COMMITTED is modelled by what
it lets a statement see:

* The rows that more than one transaction updates are the request and the
  recipient of each signer and the document (`Row`), each with a lock of its own.
  A view updates request and recipient, a submission the two and, if it is the
  last, the document (`UpdateViewed`, `UpdateSubmitted`, `UpdateCompleted`;
  `Wanted` is the row of the next statement). An update waits for the transaction
  that holds its row and then proceeds, whatever it finds (`Update`).
* The writes of a transaction become visible at `CommitView` and `CommitSubmit`.
* `CountRemaining` sees committed requests and the caller's own update, not what
  other open transactions did.
* The inserts of `submit` only take key-share locks on the rows they refer to,
  which do not conflict with updates of other columns: they wait for nobody.
* `send` updates under `WHERE status = 'DRAFT'` and keeps the row until it
  commits; the whole transaction is one step, and a second sender is rolled back.
  It takes the document first and the recipients after it, in the order opposite
  to that of a last submission. The two cannot meet: there is no request to submit
  while the document is a draft, and none of its rows is taken by a `send` that
  finds no draft.
* `RollBack` is a constraint violation, a transaction timeout or the death of the
  process. `Expire` is the passing of `expiresAt`, which is checked on entry only.

A SIGNER gets one request in `send`, so requests are named by their signer.
Statuses that no code writes (`SENT`, `EXPIRED` and `REVOKED` requests,
`PARTIALLY_SIGNED` documents) do not occur. Submitted values, names and audit
metadata are abstracted away: no decision depends on them after the checks.

`DocumentLifecycle` is the promise that survives any interleaving
(`LifecycleSpec`): a document is sent once, no signature is taken back, only a
signature completes it and only when all are there, and the PDF is requested
exactly then. It does not promise that the last signature completes the
document, or that it does so once; the code fails both when calls overlap.

Transactions that wait for rows may wait for each other in a circle, which
PostgreSQL ends by failing one of them. `NoCircularWait` says that they never do,
for all signers and calls: it depends on the order in which both services update
their rows, which nothing in the code states or enforces.

`SigningOverlap` adds one history variable, `overlapped`, which becomes true when
two calls are served at the same time and stays so. What each check is written
for is stated until then: the last signature completes the document
(`AllSignedCompletes`), everything is recorded once (`RecordedOnce`), a completed
request stays completed (`CompletedIsFinal`). The behaviours of the run are those
with every overlap; the properties say at which moment the guarantee ends.

## 5. Draft editing (`DraftEditing`, `DraftOverlap`)

One document, the recipients and fields that will be created for it, and any
number of overlapping HTTP calls of `recipients.service.ts`,
`document-fields.service.ts` and `send`. No edit runs in a transaction, so every
awaited statement of a call is an action; `pc` says which is next and `args`
holds what the call was given and has found.

| code | model |
| --- | --- |
| `documents.status` | `document` |
| `recipients` rows and their `role` | `role` (`ABSENT` not yet created, `DELETED` gone for good: ids are generated) |
| `document_fields` rows, `recipientId`, `x`, `width` | `field` (one dimension stands for both) |
| `signing_requests` | `requests` |
| changes whose `audit_events` row was never stored | `lost` |
| `getEditableDocument`, `editable`, the first check of `send` | `Begin` |
| create / update / remove a recipient | `InsertRecipient`; `FindRecipient`, `CountFields`, `UpdateRecipient`; `FindRemoved`, `DeleteRecipient` |
| create / update a field | `CheckSigner`, `InsertField`; `FindField`, `CheckSigner`, `UpdateField` |
| bulk assignment, removal of fields | `CheckBulk`, `ListFields`, `AssignFields`; `FindRemovedField`, `DeleteField` |
| `AuditService.record` after the write | `Audit` |
| the reads and the transaction of `send` | `ReadRecipients`, `ReadFields`, `Send` |

The database contributes its constraints, read from the migration: a write that refers
to a missing recipient fails; removing a recipient sets the owner of its fields to
null and removes its request; an audit event cannot refer to a recipient that does not
exist. A duplicate e-mail address is a write that may fail. The body of a recipient
update always carries a role, because the DTO class initialises it to SIGNER when the
request leaves it out (`RoleOf`; so an update that only renames a CC makes it a
signer). A field update may leave anything out, and may set the recipient to null,
which passes validation against the old owner.

The properties come in two groups. `ReferencesIntact`, `LostIsExplained` and
`SettledIsFrozen` hold for all interleavings. `FieldsAreSound` (fields belong to
signers and stay on their page), `SentIsComplete` and `SentIsFrozen` are what the
checks are written for. A call is *stale* once another call has changed a table
since it began, and `DraftOverlap` states the three as long as no stale call
writes (`raced`). Calls may overlap in any way, be refused, die or send while
edits are under way; what is needed is that nothing came between the check and
the write. A stale write breaks each of the three (section 15).

## 6. The queue consumers (`JobWorkers`)

One document, the job records made for it, and its signing e-mails. The queue is
external and modelled by what the code relies on: a job is added once per id and
never removed, the worker that takes it holds a lock, a job whose lock was lost
is taken again `MaxStalls` times at most, and the result of an execution counts
only while it holds the lock. The handlers of the outbox configure no attempts,
so a job that throws has failed.

| code | model |
| --- | --- |
| a BullMQ job, its lock and its stalls | `job` |
| an execution of `process`, and the awaited call it is at | `run` |
| `job_records.phase` and `status` | `record` |
| `putObject` under the key of the final PDF; `completedStorageKey`, `finalSha256` | `uploads`; `document` |
| FINAL_PDF_GENERATED events | `audited` |
| what the provider accepted; the dead-letter job | `mailed`; `dlq` |
| `PdfFinalizationProcessor.process`, call by call | `ReportDownloading` to `ReportCompleted`, `Upload`, `RecordResult`, `Catch` |
| `SigningEmailProcessor.process`, the `failed` handler | `SendMail`, `PublishDeadLetter` |

Every remote call may succeed, fail, or fail after it took effect. A process that lost
its lock goes on: two executions of one job may overlap. pdf-lib stamps the time into
what it saves, so two executions make different bytes, and the model tells them apart
by the number of the execution. `SettledJobIsSound` states what the document's hash is
worth, and needs that no two executions overlapped: otherwise the file of one can be
left with the hash of the other; and when the record of a settled job tells how it
ended. `CompletedMeansFile` says that no report comes ahead of the file.
`MailsAreAccountedFor` follows an e-mail: sent at most once for each time its job is
taken, and at least once if the job completed. One that failed has a dead letter or is
among those of which nothing tells (`Untold`): the dead-letter queue refused the
letter, the process died with the job, or the job was given up after stalling, for
which the `failed` handler publishes nothing. Only jobs that failed have letters.

## 7. From the send to the PDF (`Finalization`)

The endpoints, the outbox and the consumers on the rows and jobs that they share.
The transaction of `send` promises an e-mail per signer; the transaction of the
last signature completes the document, creates a job record and promises its PDF;
the dispatcher tries events, hands them over and acknowledges them or gives them
up; the consumers of `JobWorkers` do the rest. Two overlapping last submissions
complete the document twice, with two records and two events; the second job is
not added, because its id is that of the document.

`FinalMeansSigned` relates the two ends: there is no final PDF, not even in the
store, of a document that somebody has not signed. `CompletionIsFollowedThrough`
is the promise of the whole chain: a completed document gets its PDF, or its job
has failed, or its event was given up; nothing ends silently. `AcknowledgedHasJob`,
which is proved, says why an acknowledged event may be forgotten.

## 8. Sessions (`Sessions`)

The rows of `user_sessions` by token, the cookie of one browser, and its tabs. A
refresh is three statements without a transaction: `Find`, `RevokeOld` (by id,
whatever happened since) and `Issue`. Requests carry the cookie of the moment
they are sent; answers replace it when they arrive. A tab sends a refresh when its
session query is fetched (`Load`, `Rerender`) and, under a lock of its own
(`Locked`), when the guard refuses its access token (`StartRefresh`,
`JoinRefresh`). `TimeOut`, `Drop` and `Reload` lose answers; the server goes on.

Two requests that carried the same token are what the code does not exclude: the
lock belongs to a tab, and restoring a session does not take it. The properties
say what holds all the same: a token that was not shared is replaced once, and is
refused only when it has expired or an answer was lost (`UnsharedIsServed`), a
signed-out token gets no successor but from a shared one (`LogoutIsFinal`), the
browser is left with a working cookie or none (`CookieIsCurrent`), and no call
waits for the lock for ever (`LockIsReleased`).

## 9. Documents (`Documents`)

The upload is a check of the file and three writes without a transaction: object,
row, audit event (`PutObject`, `InsertRow`, `RecordUpload`), each of which may
fail with or without effect, and the answer may be lost, or be one that the page
cannot parse. `Send`, `Complete`, `PutFinal` and `RecordFinal` are the later life
of a document as far as lists and links see it. The lists are read page by page
(`BeginList`, `BeginHistory`, `FetchPage`); `DbRows` is what Prisma does with
`cursor`, `skip: 1` and `take: limit + 1`. `WalkIsFaithful` counts what that costs
when the document of the cursor leaves the filter between two pages: one row each
time. `LinksLeadToFiles` is about the URLs that are handed out: to the owner for
the original and the final PDF (`Offered`), and to a signer, who reaches the
original by a link and not by membership (`OfferedToSigner`). `ClientsSettle`
excludes answers that are not JSON: `JSON.parse` throws in the load handler, and
the page stays busy for ever.

## 10. The web pages (`SigningPage`, `EditorView`, `JobStatus`)

`SigningPage` is the link of one signer, open in several tabs: the query, the form
with its values (as classes per type of field), the submission, the preview, the
time-out of 20 seconds after which the server goes on. The transactions of
`SigningWorkflow` are single steps here; what is added is everything before the
call and after its answer. `LetIn` notes when two calls passed the check of a
transaction that neither of them has committed. `StoredIsValid` is what the server
vouches for, whatever the body of a call holds: stored values fit the types of
their fields, a submission left a value of every required one, and no field has two
unless calls were let in together. It takes `false` for a required checkbox: that
the box is ticked is checked by the page only, and no property relies on it.

`EditorView` is the PDF viewer of the editor: an overlay of positions set by
gestures and never cleared, the query of the fields, mutations that end in an
invalidation, and the effect that renders a page and is cancelled by a page turn,
a renewed token or a new width. The API side is `DocumentFieldsService` with its
check and its write apart. The check (`Acceptable`) is that of the code: the
document is a draft, the field is there, its recipient is there and signs, and the
merged field fits the page. Other editors move fields (`OtherEdits`), remove
recipients, change their roles or assign fields to them (`OtherAssigns`); and the
document may be sent, also from the page itself, which goes on to take gestures
(`SendDocument`).

`ShownIsStored` is the promise to an editor who waits for each gesture to be
answered before the next; the parts of `ViewInv` (`InsidePage`,
`RefusalIsExplained`, `ClickMovesNothing`, `FieldsMatchImage`) hold under the
disturbances they name, and `ViewSettles` says that the view catches up.
`RefusalIsExplained` names five causes of a change that is refused or lost: the
gesture began before the view had caught up, a placement at the edge of the page,
something another editor changed, a fault, and a document that was sent. y and
height behave like x and width and are left out.

`JobStatus` is one job with its reports (row first, publication second), the
stream of the API with its Redis connection, the polling query and the hook. An
event only makes the hook invalidate the query, which gives up the fetch on its
way; hence `EventsAreCovered` and `ShownNeverGoesBack`, and hence polling alone is
enough for the owner to see the end
(`FollowingEnds`). No page mounts the hook at present.

## 11. Readiness (`Readiness`)

Redis is up, down, or hung (it keeps connections and answers nothing). A probe
connects within five seconds and then pings without a limit; the API begins one
every fifteen seconds whether or not the one before has ended. `RedisDecides` says
that the health check comes to tell the truth although old pings may be answered
late. `StartsEnd` says how long the starts of worker and API may wait for a ping
without a limit: not at all for a Redis that is down or does not answer the
connection, and no longer than it hangs for one that hangs after it.
`DegradedIsExplained` says why the health check ever turns to degraded.

## 12. Runs and bounds

| run | question | instance and states |
| --- | --- | --- |
| `outbox_faults` | do outcomes mean what they say, who owns a claim, how far do overruns reach, is the hand-over contract implemented until then, is every event settled | 2 replicas, 1 event, 2 attempts, 1 fault, 1 overrun; 408k |
| `signing_races` | what holds whatever overlaps, and what until then; do transactions ever wait in a circle | 2 signers, 3 calls at a time, 6 in all; 298k |
| `signing_lastTwo` | a promise that fails under overlap (section 15) | 2 signers, 2 calls at a time, 4 in all |
| `draft_races` | what holds whatever edits and sends overlap, and what as long as no stale call writes | 2 recipients, 1 field of width 1 or 2 on a page of 2, 2 calls at a time, 1 crash; 2.6M up to symmetry |
| `jobs_faults` | what a second execution does to the PDF, its hash and its record; is an e-mail sent too often or lost | 2 records, 1 e-mail, 2 consumers, 1 job handed over, 1 stall, 1 crash; 25k |
| `finalization_end` | does a signed document get its PDF or a known failure, and never too early | 2 signers, 1 followed e-mail, 2 records, 1 consumer, 2 attempts, 1 job handed over, 1 stall, 1 crash; 319k |
| `sessions_tabs` | what tabs and lost answers do to one refresh cookie | 2 tabs, 2 requests, 3 tokens, 2 API calls per tab, 1 expiry, 1 fault; 473k |
| `documents_walks` | what a failed upload leaves, what a walk through a changing list shows | 3 documents, 2 of them old, 2 organizations, 1 page, 1 row per fetch, 1 fault; 166k |
| `signing_page` | two tabs, slow answers and a preview on one link | 2 tabs, 2 calls, a required signature and a required checkbox, 1 fault; 704k |
| `editor_gestures` | is what the editor sees what is stored, and what is refused | 2 fields, one of them existing, 2 calls, 2 page loads, a grid of 2, 3 acts; 563k |
| `status_follow` | is progress shown, and never backwards | 2 streams, 2 calls, 3 reports, 2 acts; 217k |
| `readiness_probe` | does health follow Redis, how long may starts wait | 3 connections, 2 pings told apart, 4 changes of Redis; 5k |

The bounds are constants of the models. `MaxFaults`, `MaxStalls` and `MaxCrashes`
bound faults, overruns and process deaths; one of each is enough for a crash
between any two steps and for a late owner meeting its successor. `MaxAttempts`
is 10 in the code and 2 here: the code only compares against it, and 2 leaves room
for a retry before the last one. Two replicas are all an update by primary key
needs to go wrong, and they need one row to do it; what holds for every number of
replicas and events is proved. `MaxCalls` bounds the calls served: six let each of
two signers view, submit and repeat while someone sends twice. In `DraftEditing`
the calls are not counted: the ids that will be generated are, and `MaxCrashes`
bounds calls that die. Two recipients and a field let two calls meet on the same
row and on different ones; on a page of width 2 a field can be moved or widened,
and either fits without the other. Recipients and calls of this run are
interchangeable: nothing in the model tells them apart, and the run checks safety
only, for which the symmetry is sound.

In the later models: `MaxJobs = 1` hands over one job, either the
finalization or the e-mail, which share no state in `JobWorkers`; it stalls once
and its two executions overlap on two consumers. With one consumer, as in
`finalization_end`, the second execution follows the first; what overlapping
executions do is the question of `jobs_faults`. Two records are what two overlapping last
signatures make. Three tokens are the first one, its replacement and the next, so
that a late answer can bring back a token that is no longer the newest. Three
documents and a page of one row make a walk of up to three fetches, in which the
document of the cursor can leave the filter; two organizations let a row of the
other one appear in a list. Two tabs and two calls are an original and its late
or repeated twin; one required field of each kind of check is what the API
distinguishes. A grid of 2 with fields of width 1 has one move that fits and one
that does not. Three reports are a first, a middle and a last one, so that an
older one can overtake. Two pings are the one that was forgotten and the present
one.

Only the outbox run checks for deadlock: there the sweep goes on for ever. In the
others a behaviour ends when its calls, acts or faults are used up. That no call
is stuck half-way is what `EventuallySettled`, `CompletionIsFollowedThrough`,
`ClientsSettle`, `LockIsReleased`, `DoneIsShown`, `ViewSettles`, `FollowingEnds`,
`RedisDecides` and `StartsEnd` check, and `NoCircularWait` for calls that wait
for rows.

## 13. Fairness

`Outbox`: weak fairness of starting and sweeping (a supervisor restarts dead
workers, `setInterval` keeps ticking), of the steps of a round (awaited calls
return) and of the clock. Notifications are **not** fair: the code may lose any of
them, and `EventuallySettled` shows that the sweep alone is enough.
`MaxFaults` also bounds failed first rounds: a worker whose bootstrap was rejected
stays up without a sweep for ever, so with both replicas in that state nothing is
dispatched. One fault leaves one replica alive, which is what the run shows.

`SigningWorkflow`: weak fairness of the steps of a transaction that is not
waiting. Nobody is obliged to call, and roll-backs and expiry are not fair. Only
`signing_lastTwo` uses it: the promise fails although every statement returns.
`DraftEditing` states no fairness; its properties are about safety.

`JobWorkers`: consumers take waiting jobs and execute them, and the stall check
of BullMQ runs periodically. Losing a lock and dying are not fair.

`Finalization`: the same, and of the outbox what `EventuallySettled` shows of the
detailed model: an open event is tried, and then acknowledged or given up. The
hand-over itself is not fair, the queue may refuse each time.

`Sessions`: the server executes its statements, and an answer is delivered to a
tab that listens. `SigningPage`: the server executes its statements and answers
arrive. `Documents`: likewise, and a reader with a cursor asks for the next page.
`EditorView`: the API serves its calls, fetches come back, pdf.js renders or is
cancelled. `JobStatus`: the API works on its streams and requests, the query
polls; neither reports nor events are fair. `Readiness`: timers fire, and what
Redis answers is delivered; Redis promises nothing. Users are never obliged to
do anything, and faults never are.

## 14. Proofs

All theorems hold for every value of the constants under the named assumption of
each module (non-empty or disjoint sets, counters in `Nat`), which TLC evaluates
on every run. Where a proof counts, the set that is counted over is assumed finite:
the replicas of `Outbox`, the signers of `SigningWorkflow`, the calls of
`SigningPage`. Type invariants and inductive invariants are proved only: the proof
covers every instance a run could take.

Every invariant and every action property of a passing run is the subject of a
theorem. The properties of the runs are not inductive alone; this is what each of
them needs.

`OutboxProofs`: `TypeCorrect`; `InvariantHolds`; `NoFalseDispatch`,
`NoEarlyFailure` and `ExclusiveOwnership` from it; `OutcomesAreFinal`, an
action property; and `ImplementsHandoff`. That DISPATCHED implies a queued job
needs `AckIsEarned` (a worker about to acknowledge has enqueued); that FAILED
implies enough attempts needs `SeenIsBehind` (the count a round has read is at most
the stored one, and strictly below it once the round has claimed); exclusive
ownership needs `LeaseIsHeld` (before any overrun, a claim in progress has not
lapsed, so nobody recovers it). The refinement holds until the first overrun because
overruns are counted and never forgotten (`OverrunsRemain`): a step after which none
has happened starts where none has.

`DamageStaysBounded` is what holds after an overrun, by counting (`Bound`). A holder
is *stale* when the row does not keep the event for it; only an overrun makes one, so
there are as many as overruns at most. A replica is *early* when it selected the
event with a count that leaves another attempt after its own. Near the limit nobody
becomes early any more, each attempt uses up an early replica or the one chance of an
open event to be claimed, and only an overrun or a fault opens it again: attempts,
early replicas and that chance add up to no more than the bound.

`SigningProofs`: `TypeCorrect`, which includes that an open transaction holds the rows
it has updated and no others; `InvariantHolds`; `NeverCompletedEarly`; and
`ImplementsLifecycle`. `NoDeadlock` follows from the first. Every transaction updates
the request, then the recipient, then the document, so a call that waits for a row
waits for one that has it and wants a later row or none (`WaitsUpwards`). In any set
of calls that wait for each other the wanted rows would get later for ever, and there
are three places in the order. The key to `IInv` is `LastHasSeenOthers`: a call whose
count came out at zero saw every other request completed, hence their submissions
stored, and submissions are never removed, so it does not matter how old that
observation is or that a late view resets a request in between.
`SurplusJobsNeedSurplusSubmissions` rests on the same fact: when the first PDF is
requested every signer has a row, and each later request comes with a row of its own
(`CountInv`). Of `SigningOverlap` three more: `LastSignatureCompletes`, `OneRecording`
and `CompletedStays`. Their invariant says that until two calls overlap the tables
agree with each other (`Agree`), that a call in its transaction still knows what its
check found (`Knows`), and that there is one such call at most (`Sole`).

`DraftProofs`: `TypeCorrect`; `NothingDangles`, which is inductive with the types
alone, because the foreign keys are checked by the write itself; `SettledStays`;
`LostChangesAreExplained`, for which the recipient that a call is about to record has
had a row (`Recorded`), a row that is gone does not come back, and what is lost for no
such reason is counted against the calls that died (`LostInv`).
Of `DraftOverlap`: `FieldsStaySound`, whose invariant adds what a call that is not
stale knows between its check and its write (`StillTrue`, `Merges`): the recipient it
is about to assign is a signer, the one it is about to make a CC owns nothing, the
row that a partial update was merged with is still the row it writes;
`SendingIsComplete`, since a `send` that is not stale transfers what it has read
(`SendInv`); and `SentStays`, since every other call that is under way when `send`
writes is stale from then on, and one that begins later is refused. Calls that are
stale and do not write leave everything as it was (`StaleStep`).

`DraftProofs`, `EditorView`: `EditorsShareAPage` and `ShownFieldsAreStored`, from
`EditorInd`. While the editor is undisturbed there is one thing at a time (`Care`): a
gesture, whose aim fits the page and is what the overlay shows; or a mutation, which
asks for what the gesture aimed at; or the fetch after it. Written, the row agrees
with the overlay, so the overlay need not be cleared. As long as the document is a
draft, what is owned is owned by signers unless another editor acted. It follows that
nothing but a placement at the edge is refused while the document is a draft, that a
click writes what is there, and that what is shown at rest is stored. The bounds of
the page need no care: unless a write came between, what passed the check still fits
when it is written (`Written`). That the fields lie over their page is the work of the
rendering effect: one run at most is not cancelled, it is one for the page in view,
and while the viewer loads there is one (`Rendering`).

`JobProofs`, `JobWorkers`: `TypeOKCorrect`, `RecordedWasUploadedCorrect`,
`CompletedMeansFileCorrect`, `OneRecordProgressesCorrect`. An execution knows by
its next step what it has done: before it records it has uploaded, before it
reports completion a file is recorded (`StepsFollow`); a job that nobody handed
over was not worked on (`NoneIsUntouched`). How a job ends needs `Sound`:
`SettledJobsAreSound`, because an execution that is alone knows what it left in the
store and in the row (`AloneIsSound`), and a finalization that was taken has its end
on record unless somebody is still at it or an execution that could not report is
noted (`Told`); `MailsAreSettled`, because effects and executions that still have
theirs before them never outnumber the times the job was taken (`Budget`), and
because a letter is only tried by the execution whose failure counted, of a job
that stays failed from then on (`LettersFollow`).

`JobProofs`, `Finalization`: `ConsumersAreJobWorkers` (each step is one of
`JobWorkers` or leaves its variables alone, so that the invariant above carries
over), then `FinalPdfIsOfAll` and `AcknowledgedMeansJob` from `Presupposed`: a
file presupposes a job, the job an event, the event the signatures of all, and
none of these is ever taken back. `EndsOfTheChain` puts both halves together, for
jobs without an execution left: a settled e-mail was sent, has a dead letter or is one
of those of which nothing tells; a finalization that is over says how it ended, unless
an execution could not; and one that completed, with no two executions at the same
time, left a document that all have signed with its file.

`SessionProofs`: `SignedOutStays`, `RetriesAreShared`. The first
needs that two requests with one token are noted as sharing it when the second is
sent (`SharedIsNoted`), and that a signed-out token never passes a check again
(`LoggedOutIsOver`); the second that the lock of a tab belongs to one retry.
`CookieStaysCurrent` and `RotationSignsNobodyOut` follow the life of a token. It is
made by one refresh, which is the only one to have revoked its parent (`Replaced`), so
a token that is not shared has one successor. While no answer was lost (`Calm`), the
browser's cookie works or the request that revoked it is still on its way
(`CookieWorks`), and an unshared token that is revoked is carried by that request or
by nobody (`RevokedIsLeft`), so that nobody is refused for it.

`DocumentProofs`: `RowsHaveFiles`, `SuccessIsComplete`, `RefusedIsGone`,
`LinksLead`. An upload that has reached a statement has taken effect with the ones
before it, and only a file that passed the checks got beyond them (`StepsFollow`).
`WalksAreFaithful`: what a fetch takes is counted by rank from the newest row, so a
page that begins at a cursor still in the list passes nothing over, and one whose
cursor has left it one row at most. What the walk owes and has passed is never more
than its slips (`Pages`); rows that appear have a newer stamp than the cursor's, and
those that leave the list do not come back.

`PageProofs`: `ThanksAreTrue`, `OpeningComesFirst`, `WhatIsStoredIsValid`,
`OnceOnly`. What a page shows and what a call brings was true when it was let in or
answered, and stays true, because submissions and the first view are never taken
back, although the status of the request may be. `RacesHaveCauses` needs that a single
page whose calls are waited for has one submission under way and one load (`OneByOne`),
and, for the expiry, that what was recorded after it and the calls let in before it
that still write are no more than had been let in (`LateInv`). `WhatIsStoredIsValid`
does not depend on who calls: what a call carries past the checks fits its fields and
has the required ones (`StoredFits`), and a call that is alone in its transaction is
the only one to store values, so no field gets two.

`StatusProofs`, `JobStatus`: `EventsCount` and `ProgressGoesOn`. The request that the
query waits for was sent after the event that is being handled, and after everything
that is shown was read. `Readiness`: `DegradedHasCause`, which needs that trouble is
noted as long as Redis is not up.

Model-checked only: the nine liveness properties and the run that expects a
violation. Liveness, which needs fairness and ENABLED, is out of the prover's reach.
No module declares a RECURSIVE operator.

## 15. What the code does not do

One run expects a violation; it checks a sentence of the repository.

* `signing_lastTwo`: two last signers who submit at the same time each see the
  other one's request open. The document stays SENT, no PDF is requested, and no
  later call can repair it, since both links are now refused.

Weaker guarantees where the obvious one fails, without a run of their own:

* outcomes of the outbox are written by primary key: after an overrun, a late owner
  returns a DISPATCHED event to PENDING and it is handed over again (the stable job
  id makes BullMQ drop the copy). Hence `SettledIsFinal` and `HandoffSpec` are
  stated until a claim outlives its lease;
* the attempt limit of the dispatcher is checked against the count of its select,
  so replicas that fail in turn exceed it (`DamageIsBounded` gives the excess);
  its claim does not look at `availableAt` again, so a back-off can be ignored;
* a first view that was decided before the submission and commits after it sets the
  request back to VIEWED and revives the link (`CompletedIsFinal` ends with the first
  overlap, and `OnceUnlessRaced` calls that were not let in together);
* two overlapping submissions of the last signer complete the document twice, with
  two job records (`FinalizationsBounded`). The second PDF job has the same BullMQ
  id and is dropped, so its job record stays QUEUED;
* between the count of a signer's fields and its change to CC a field can be
  assigned to it; an edit let in before the send changes the document after it; a
  move and a widening of a field that overlap can push it off its page. The
  properties of `DraftOverlap` end when a stale call writes;
* removing a recipient fails after the deletion, because its audit event refers to
  the recipient that no longer exists (`LostIsExplained`). One call is enough;
* a stalled finalization that goes on while it is run again can leave a file whose
  hash is not the recorded one, and adds a second FINAL_PDF_GENERATED event
  (`SettledJobIsSound` excludes the first and bounds the second);
* an execution that dies or whose last report fails leaves a job record that never
  says how it ended (`SettledJobIsSound` excludes those);
* two tabs, or a restore and a retry of one tab, can present one refresh token at
  the same time, and both are given successors (`UnsharedIsServed` excludes it).
  `docs/authentication-and-session-lifecycle.md:290` asks that this never happen;
  nothing in the client enforces it between tabs;
* `docs/configuration-and-dependency-readiness.md:108` says that `send` answers 503
  while Redis is away; since the outbox exists `send` does not look at Redis;
* the ping of a readiness probe is awaited without a limit: an API whose Redis accepts
  the connection and never answers does not come to listen, although
  `docs/configuration-and-dependency-readiness.md:63` calls the probe bounded and
  `:89` says the API starts in a degraded state. Hence `StartsEnd` says of such a
  Redis only that a start waits no longer than it hangs;
* an e-mail that was not sent has no dead letter when that queue refuses it, or when
  the process died with the job (`Untold` in `MailsAreAccountedFor`);
* a required checkbox may be submitted unticked by a client other than the page;
* the editor shows its overlay for a field once it was dragged, also when the change
  was refused, because the document has been sent meanwhile for example, or somebody
  else moved the field since; a resize puts the position the
  field was last fetched at into the overlay; the side bar of pages and the viewer
  keep their own page number; polling of the jobs goes on after they are settled.

## 16. Not modelled

`Encryption` is a pure wrapper (AES-GCM); a failing decryption is a failing
dispatch in `Outbox`. `Schema-only features` (AI analysis, billing, usage) are
tables without code. Of `Object storage` the calls are modelled where they are made,
not the client library. Of `Organizations and users` the row written at registration
and the reader's organization are modelled; memberships and settings are only read.
Of the `Web application` the upload page, the signing page, the session and the
editor are modelled; lists, forms for recipients, the inspector's form, selection,
zoom and the landing pages keep no state that anything relies on. The content of
audit events, names, labels and layout are abstracted everywhere, and y and height
of fields with x and width.

Users are not told apart: a session query that survives a change of user
(`session.tsx:50`) is outside of the models. Every API call checks the membership,
so its calls are refused until the page is loaded again.
