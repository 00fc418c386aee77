# A verification development of Kommunsign

Kommunsign lets a municipality send documents to be signed with BankID and
keeps the evidence.  This directory holds TLA+ models of it, the TLC
configurations that check them on small instances, and TLAPS proofs of the
results that matter most for instances of every size.  Paths below are relative
to `src/`; workers are in `apps/workers/src`, the API's repositories in
`apps/api/src/production-adapters/postgres` (`.../postgres` below), the schema
of the tenant database in `migrations/data`, that of the control plane in
`migrations/control`.

1. [The system](#1-the-system)
2. [What is modelled](#2-what-is-modelled)
3. [The runs](#3-the-runs)
4. [Fairness](#4-fairness)
5. [What is proved](#5-what-is-proved)
6. [Where the code and its documents differ](#6-where-the-code-and-its-documents-differ)
7. [Abstractions](#7-abstractions)
8. [What is not modelled, and the plan](#8-what-is-not-modelled-and-the-plan)

## 1. The system

An API process serves officials (tenant portal), signers (public signing
portal), applicants and administrators (platform), and providers (webhooks).
Worker processes run durable jobs.  Both share two PostgreSQL databases (control
plane, tenant data plane) and an object store, most of whose objects are written
once.  They call a BankID provider (TIC), a stateless SignService that makes
PAdES signatures, a stateless validation service, an e-mail provider, identity
providers, tenants' webhook endpoints and the provider at which tenants' domains are attached.  There is no coordination other than
the databases: every interaction between the parts is a row or a job.

| Component | State | Operations | What is hard | What makes it correct | Module |
|---|---|---|---|---|---|
| Durable job runtime (`jobs.ts`, `production-runner.ts`, `postgres-production-adapter.ts`) | `app.durable_jobs`; the batch in a worker's memory | enqueue, claim, heartbeat, complete, retry, dead-letter, recovery at start | two processes in one row after a lease ran out; a crash at any point | a lease holder works on what the row holds; a stale answer changes nothing; every row is settled | `DurableJobs`, `JobPromise` |
| Signing of a case (`public-signing-repository.ts`, `data-database.ts`, `production-handlers.ts`, `pades-handlers.ts`, `signing-groups.ts`) | status of case, signers, invitations, intents, identities, signatures | send, remind, cancel, open, BankID, decline, collect, verify, sign, validate, package | API calls, webhooks and redelivered jobs overlap on the same rows; signers finish together | turns kept; nobody done too early; the last one sees it is the last; evidence is kept | `SigningCase`, `SigningPromise` |
| Revision chain of a document (`pades-handlers.ts`, `0021_pades_signature_chain_guards.sql`, `packages/pades`) | signed revisions, `app.signature_artifacts` | read latest, sign, store, insert, validate, derive the level | read long before write; immutable keys meet retries; concurrent inserts | no fork; stored = recorded; no level that is not earned | `RevisionChain`, `PadesAdmission` |
| Drafting, uploads, documents (`data-database.ts`, `signing-source-upload-repository.ts`, `document-repository.ts`, `office-document-handlers.ts`) | case, upload grants, document versions, scan reports | create, upload, scan, canonicalise, add signers, send | two workers finish at once; a file is put again; `send` looks twice | what is sent is whole | `CaseDraft`, `DocumentTools` |
| E-mail delivery (`production-handlers.ts`, `packages/provider-adapters/src/email.ts`) | links, messages, provider events | send, remind, provider webhook | at-least-once sending; events out of order | a bounce is not forgotten; a link always works | `EmailDelivery` |
| Outbox and webhooks (`webhook-handlers.ts`) | outbox events, deliveries | fan out, deliver, retry, dead-letter, publish | redelivery; one endpoint of several failing | once where nothing is lost; accounted for at the end | `WebhookDelivery` |
| Download grants (`delivery-repository.ts`) | grants and their uses | issue, revoke, redeem | the last use, twice | no more uses than allowed | `DownloadGrants` |
| Onboarding and provisioning (`onboarding-repository.ts`, `provisioning-repository.ts`) | applications, reviews, requests, steps | apply, review, ask, decide, provision, activate | two databases without a common transaction; soft claims | decisions are honoured; one whole tenant | `Onboarding`, `Provisioning` |
| Authentication and accounts (`authentication-repository.ts`, `packages/provider-adapters/src/supabase-auth.ts`) | provider identity, register, membership, sessions | invite, disable, enable, log in, set a password | three stores written one after another | the register is true | `Accounts` |
| Federation (`federation-router.ts`, `federation-repository.ts`, `packages/federation`, the two validators) | login requests, ledger | start, consume an assertion | replayed and late assertions | one login, one admission | `Federation`, `FederationReports` |
| Idempotency keys | `app.operation_idempotency` | reserve, replay | lost answers, two bodies, expiry | one effect, one answer | `Idempotency` |
| Archive export (`archive-handlers.ts`, `packages/archive`, `packages/protected-identity`) | export rows, package and descriptor | export, refuse, acknowledge | retry after the object and before the row | the record describes what is stored | `ArchiveExport`, `ArchivePackaging`, `ProtectedIdentity` |
| Retention (`retention-handlers.ts`, `0024_gallring_runtime.sql`) | gallring jobs, legal holds | queue, approve, execute, report | a hold between approval and execution | nothing held is erased | `Retention`, `GallringPromise` |
| Privacy requests (`privacy-handlers.ts`) | `app.privacy_requests` | record, execute, refuse, deliver | states in memory and in the row | an executed request is answered | `Privacy` |
| Key rotation (`packages/crypto/src/key-rotation.ts`) | key ring, version per row | begin, backfill, complete, retire | processes with different rings write meanwhile | no retired key is needed | `KeyRotation` |
| Audit chain (`platform-handlers.ts`, `authentication-repository.ts`) | events with their predecessor's hash | append | the order of locks and of stamps | the chain never forks | `ControlAudit` |
| Lists (`keyset-repositories.ts`) | cursors | next page | equal stamps, rows added meanwhile | nothing twice, nothing skipped | `Listing` |
| Object storage (`s3-object-storage.ts`) | objects, bucket memo | put, signed put, delete | lost answers | what was answered is stored | `ObjectStorage` |
| Database connections (`sql-database.ts`, `postgres-queue.ts`) | pools, tenant settings | begin, enqueue, return | waiting while holding; settings that stay | own tenant's rows; no deadlock | `Connections` |
| Evidence packages (`packages/evidence`) | none (pure) | pack, verify | damaged packages | damage is seen | `EvidenceZip` |
| Custom domains and tenant gateway (`domain-management-repository.ts`, `0010_custom_domain_operations.sql`, `packages/tenant-gateway`) | `control.tenant_domains`, challenges, the provider's list, the gateway's cache | request, challenge, verify and attach, check, switch the primary, remove, suspend; resolve, invalidate | the provider is called between a read and a write; an answer from before an `await` is cached | the primary domain works; what is active was proved; what was invalidated stays out | `TenantDomains` |
| SCIM; portals, SDKs, scripts | | | | | section 8 |

The hazards of this code, each with its line and the properties that watch it,
are in `PROJECT.json`.

## 2. What is modelled

One step is one database transaction, or the part of one up to the point where
another can come in between to effect, one call of a provider, or the passing of
a deadline.

### `DurableJobs`: the job runtime

One step is one database transaction, the return of a handler, or the passing
of a deadline.  A row is `status`, `attempts`, `owner`, `leased`
(`lease_expires_at` is in the future), `due` (`available_at` is not) and
`payload`; a worker process is its `phase` in the main loop and, for every row
of its batch, how far it is (`run`) and what the claim returned (`taken`,
`seen`).  `effects` records which attempts committed their work.

`Claim` is `app.claim_durable_jobs`; `FirstHeartbeat`, `HandlerCommits`,
`HandlerFails`, `Complete`, `DeadLetter` and `Retry` are the body of
`processClaimedJob`, with the guarded updates of the adapter in `Settle`;
`Enqueue` is both forms of enqueueing, the one that ignores a conflict and the
queue adapter's, which replaces the payload of a pending row; `ScanRequests`
and `RepairRow` are `recoverProvisioningJobs`; `Crash`, `Stall`, `LeaseRunsOut`
and `HeartbeatLost` are what may go wrong.

### `SigningCase`: the signing of one case

From `Send` to `CasePackaged`, for a set of signers with signing orders and a
set of documents.  The variables are the status columns of the tables, plus the
provider's session, the BankID starts in flight, the state of each job, the
validation reports in storage, and `admitting`: the PADES_VALIDATE transactions
that are open.  Actions are named after the operation: `MarkOpened`,
`StartBankId`/`BankIdStarted`/`BankIdNotStarted`, `SessionReported` and
`EndReported` (`bankIdStatus` and the provider's webhook), `CancelBankId`,
`Decline`; then per job a step that reads and a step that commits:
TIC_EVIDENCE_COLLECT (`CollectReads`, `Collected`, `EvidenceUnreadable`),
SIGNATURE_VALIDATE (`VerifyReads`, `IdentityReported`, `IdentityReportRefused`,
`IdentityVerified`, `IdentityRefused`), PADES_CREATE (`CreateReads`,
`DocumentSigned`, `AllDocumentsSigned`), PADES_VALIDATE (`ValidateReads`,
`SignatureReported`, `SignatureReportRefused`, `Admission`, then
`SignatureAdmitted`, `SignerSigned` or `SignatureRejected`) and
EVIDENCE_PACKAGE_BUILD (`SignerPackaged`, `CasePackaged`,
`CasePackageRejected`).  A job may be delivered again after its handler
committed, and a second worker may be in it: `Settles` leaves a committed job
`done`, `queued` or `running`.

The one thing that orders concurrent admissions is the tenant's audit chain
head, which `audit.append_event` locks until the transaction ends.
PADES_VALIDATE appends its audit entry before it asks whether all documents and
all signers are done; `Admission` therefore takes a snapshot that is committed
later, by another step, and every step that audits waits for `admitting = {}`.
Moving the audit entry to the end is the mutant `AdmissionUnlocked`, and both
`LastSignerPackagesCase` and `TurnIsInvited` break under it.

**`SigningPromise`** is the abstract specification: what the parties are promised, with no
job, session, retry or lock in it.  `SigningPromised` is the refinement: who is present is who has a row of
identity, which a start of BankID makes (`Present`); who agreed has an intent that is `verified` or later (`Agreed`), the signatures are the rows, who is done is who is recorded as signed,
and the outcome is the status of the case once it is closed (`Outcome`).  Everything else the handlers do is a
stuttering step.

### `RevisionChain`: the signatures on one document

Threads run PADES_CREATE: `Read` the latest revision, `Sign`, `Store` (or
`StoreRefused` when the key holds other bytes), `Insert` under the trigger
`assert_signature_revision_chain` (or `InsertRejected`) and `Commit`; the guard
sees only committed rows, so the two are separate.  `Validate` admits at
the level the report supports, or rejects.  A revision is the sequence of signatures
in it.  `SigningCase` has a coarser view of the same handler (`DocumentSigned`):
it keeps that a rejected signature blocks those after it, and leaves the chain
to this module.

`PadesAdmission` gives it the operators for what a signature is worth: the level
that evidence supports (`AttainedPadesLevel`), what the validation service makes
of what it finds (`ReportOn`), the verdict under the policy of the case, and the
trigger that refuses a level the rows do not support (`LevelOverclaimed`).

### Before signing

- **`CaseDraft`** takes a case from its creation to `sent`.  Variables are the
  upload grant, the bytes a client put, the version (status, digest), the immutable
  objects, the malware report that is kept, the two jobs, what each worker is
  doing, and the send in progress.  `send()` lists the documents in one statement
  and counts the unready ones in a later one, so `SendReads` and `SendCommits` are two
  steps; a worker that finishes a document takes the audit chain head (`TakeHead`)
  before it looks at the others.  **`DocumentTools`** says what upload validation,
  ClamAV, qpdf, Gotenberg and veraPDF make of a file, as operators on what
  distinguishes files: size, container, infection, the extension of the name.
- **`Idempotency`** is one key used by several callers, under its advisory lock;
  what is queued in the other database is outside the transaction.
- **`Provisioning`** is the request and its steps, each in two transactions, run by
  deliveries that may overlap because the claim is a soft one; `RecoverReads` and
  `RecoverWrites` are what a starting worker does.  **`Onboarding`** extends it with the
  application: reviews, questions, the decision, changes of the profile, readiness,
  activation; the two share the application's status, as the code does.
- **`Accounts`** is one person in one organisation: provider, register and membership are
  written one after another by administrators' calls (`InviteUser`,
  `RecordInvitation`, `GiveAccess`, `DisableUser`, ...), any of which may be lost
  between two stores, while the person follows links and logs in.
- **`Federation`** is login through a tenant's identity provider: `StartLogin`, the
  assertion that comes back (perhaps twice, late, damaged), `ConsumeLogin`, the ledger.
  **`FederationReports`** gives what the two validators report of a message and what the API
  makes of the report.

### After signing

- **`WebhookDelivery`** is one event on its way to the endpoints: `ClaimDelivery`, the
  request, the recorded answer, `FinalAttempt`, `NothingOutstanding`; two handlers may
  be in one job, and an operator may replay.  A handler leaves with an error (`Throws`) when
  something is outstanding (`HandlerThrows`), when one of its transactions fails
  (`TransactionFails`), and when the endpoint's secret cannot be decrypted or the event not signed
  (`SigningThrows`), which is after the claim and outside every `try`; `unsigned` remembers of
  each job at which endpoint its latest attempt ended like that.
- **`EmailDelivery`** is the invitation and the reminders of one signer, each with a link;
  `HandleEvent` is the provider's webhook.
- **`DownloadGrants`** is issue, revocation, expiry and `Redeem`, one conditional update.
- **`Retention`** is gallring: queue, approval, `BeginExecution` with its re-check of the
  holds, objects, rows, report.  **`GallringPromise`** is the abstract specification, what the decision
  layer (`packages/retention`) promises, and `KeepsGallringPromise` the refinement: a run
  whose report says that something resisted has, for that layer, not ended.
- **`ArchiveExport`** is the export job: `ExportFails` is a failure that is retried, or a source file
  with the wrong digest, which is for good.  With it go **`ArchivePackaging`** (what may refuse a case, which
  files are packed, the descriptor) and **`ProtectedIdentity`** (what may leave through which channel
  about a protected person) as operators.
- **`KeyRotation`** is the runbook's order of configurations, processes that restart into
  them one by one, and the ledger's triggers.
- **`Privacy`** is a data subject's request over the five stores.
- **`EvidenceZip`** packs the evidence package, damages it and verifies it.  A place in the ZIP is named for the
  file that was packed there; an added entry gets a place of its own.

### What both rest on

- **`ObjectStorage`**: puts, signed puts, deletions, requests carried out after their
  caller gave up, the memo of confirmed buckets.
- **`Connections`**: a pool for each database and one for the queue, the tenant setting of a
  connection, a control transaction that enqueues before it commits.
- **`Listing`**: a walk through a list of cases, events, privacy requests (`requests`), templates, or one with
  offsets, while rows are added; stamps are microseconds, cursors keep milliseconds.
- **`ControlAudit`**: transactions of the control plane that append to the audit chain.

### `TenantDomains`: the host names of an environment

A row has a status, the flag `is_primary` and whether `dns_verified_at` is set; `vercel` is what the provider
holds of a domain; an operation is how far it is and on which domain.  An operation reads the row, calls the provider and writes the
row, by id and without asking again: `CreateChallenge` and `ChallengeCreated`, `VerifyAndAttach`, `DnsVerified` or `DnsNotVerified`,
`AttachDomain`, `Attached`, `CheckCertificateAndHealth` and `HealthChecked`, `Remove` and `Removed`.  What it may write is up to
the constraints and the trigger `guard_primary_domain_change` (`Accepted`); a write that is refused rolls its transaction
back (`Written`).  `SetPrimary` and `PrimarySet` are the two statements of `control.set_primary_tenant_domain`:
the look at the target, which locks nothing but the environment's advisory lock, and the update, in which the trigger stands aside.
In `CreateChallenge` and `Remove` the read and the call are one step, since what is read there is looked at once and the call
depends on it alone; `Suspend` is done by hand.  The gateway asks its cache, then the table (`Resolve`), then stores the answer
(`Resolved`).  `proven`, `crossed` and `incident` are history: whether the provider ever found the DNS record,
whether the target of a switch was written between its two statements, and whether a domain that was
taken out of use was taken out of the cache with no request for it on its way.

### Instances

Each `MC` module gives an instance.  The parts of `MCBeforeSigning` and
`MCAfterSigning` share no state, so these two modules check them side by side: `part`
is chosen in the initial state, a behaviour is about that part, and the state space is
the sum, not the product, of the parts'.  `Onboarding` and `Provisioning` do
share state; the instance looks at the reviewed applications (`review`) and at
the workers that make the tenant of an application an administrator created
(`provision`) as two parts.  The proofs are in `DurableJobsProofs` (with the refinement of `JobPromise`),
`SigningCaseProofs` (with that of `SigningPromise`), `RevisionChainProofs` (with the audit chain of the control plane), `BeforeSigningProofs`
(drafting, idempotency), `TenantProofs` (onboarding and provisioning, accounts, federation, and the composition of the parts before
signing), `DeliveryProofs` (e-mail, webhooks, grants, lists, storage, connections), `RecordProofs`
(retention, archive export, key rotation, evidence packages, and the composition of the parts after signing)
and `DomainProofs`.

## 3. The runs

Runs that must hold:

| Run | Checks | Instance | Shows |
|---|---|---|---|
| `jobs_safety` | `LeaseMatchesAttempt`, `CompletionIsCurrent`, `KeepsPromise` | two workers, an ordinary and a provisioning row, two payloads, two attempts, batches of two, one stall; symmetric in workers and payloads | whoever holds a lease works on what the row holds; a stale answer changes nothing, also when the key is enqueued again or recovered in between; every step is one the caller was promised |
| `jobs_live` | `SettlesOrStrands`, `Settles` | two workers, both rows, one payload, two attempts, batches of one, one crash | a row is settled or left at its last attempt; on the behaviours without a fault every enqueued ordinary row is settled |
| `signing_group` | `TurnRespected`, `TurnIsInvited`, `LastSignerPackagesCase`, `EvidenceKept` | a required pair in parallel, then an optional third; one document, two racing starts each, two mishaps | turns are kept; when both of the pair finish at once one of them sees it is the last, and the third is invited; what is settled about an identity is not undone by stale polls, cancellations and repeated jobs |
| `signing_live` | `ConsentIsSigned`, `SigningPromised` | two signers in turn, two documents; two mishaps | nobody is done after the first document; a verified consent is signed and validated, through crashes and redeliveries; every step is one the parties were promised |
| `chain_turns` | `StoredIsRecorded`, `NoForkInTurn`, `BuildsOnValidated`, `LevelIsEarned`, `EverySignerSigns` | one signer before two in parallel, two threads, two losses, one rejection | no signature replaces another, branches from one it had to wait for, builds on a rejected one or is worth more than its evidence, although two threads may work on one signer; with nothing lost each signer's signature gets in, or that of the one in parallel |
| `before_signing` | `BeforeSigningTypeOK`, `SentIsWhole`, `LastDocumentReadies`, `AnsweredAlike`, `ProvisionedWhole`, `DecisionHonoured`, `RegisterIsTrue`, `RevivedByAdminOnly`, `AdmittedOnce`, `PrimaryWorks` | seven parts: two of two PDFs and an Office file with three possible contents; three callers and two bodies; two reviews; five steps and two runners; two administrators' calls at a time and one browser; two logins, assertions and providers; the platform's domain and one of the tenant's own, two operations at a time, five in all | what is sent is whole; answers agree; tenants, decisions and the register of accounts are what they say; one login admits once; the primary domain works unless a switch was crossed |
| `after_signing` | `AfterSigningTypeOK`, `AcceptedOnce`, `EndedIsAccounted`, `BounceReachesSigner`, `NeverWithoutLink`, `HoldHonoured`, `KeepsGallringPromise`, `ArchiveRecordTrue`, `TruthfulRowsReadable`, `ListedOnce`, `AnsweredPutIsStored`, `WorksOnItsOwn`, `SomebodyGoesOn`, `DamageIsSeen` | ten parts, each with two workers, cases or rows and one or two faults; lists of three rows | events are accepted once, and accounted for unless the last attempt could not sign; bounces reach the signer; holds and approvals are honoured; the archive's record is true; rows stay readable; pages do not overlap; a put that was answered is stored; nobody works on another tenant's setting or waits for ever; two changes of a package are seen |

Runs that must fail, each a disagreement of section 6: `signing_completion`,
`chain_fork`, `pages_skipped`, `audit_fork`, `privacy_answered`.

**Bounds.**  `MaxAttempts` is the code's own parameter; the runs have 2, an
attempt that may be followed by another and a last one, which are the cases the
code tells apart.  `MaxCrashes`, `MaxStalls`, `MaxLosses`, `MaxTrouble`, `MaxDLosses`,
`MaxGLosses`, `MaxALosses`, `MaxDsrLosses`, `MaxLate` and `MaxRejections` count faults
(`MaxTrouble`: leases that run out, and workers, answers and transactions lost; the attempts that cannot
sign need no bound but that of the attempts);
`MaxMishaps` counts refusals, cancellations, declines, lapses, redeliveries and bad
reports; `MaxStarts` the BankID starts of one signer in flight; `MaxEvents`, `MaxResends`,
`MaxHolds`, `MaxTrail`, `MaxRotations`, `MaxAsks`, `MaxQuestions`, `MaxCalls`,
`MaxSwitches`, `MaxChanges`, `MaxTraces`, `MaxRenditions` and `MaxClock` what people, providers and clocks do.
Two processes suffice for every race of the job runtime: a row has one owner,
and what a second former owner could add is what the first does.  The races of a
case are between two signers, or between one signer's browser and two deliveries
of one job; the third signer is there to be the next group.  Three stamps are
enough for a signing always to find a time of its own: of one signer's signatures
of one revision, at most one is in storage and one with the other thread.  Two
uploads of three (`TwoUploads`) are enough for one to be the last of its case and the other to be
added or refused meanwhile, in every mixture of PDF and Office.  The three contents are the file that was declared and
two of its size that differ from it, one infected, one not an Office file at all; the four forms of a message
are whole, bound outside the signature, silent about time and subject, and damaged.
The second dossier lacks the proof of who signed one of its signatures, and the signer of the first has a protected identity.
`Erasable` has one of two cases: the schema lets a worker delete the rows of only
some (section 6), and both outcomes are needed.  `PackageFiles` gives both cases
a content file, which today's evidence packages lack under the name the export looks for (section 6): without it every export would be
refused and nothing further could be checked.  `MaxDamage` is 2 because
`DamageIsSeen` promises nothing from the third change on: the file, the manifest and the
checksums changed together are another package.  `PerMs` is 2, two rows in one millisecond.
Five operations on domains bring one into use (request, challenge, verification, check) and leave room for a switch; taking a domain out of use by hand is
always possible besides.
`Threshold` is 1 attempt instead of the code's limit: only the first attempt beyond it matters.

Symmetry is used in `jobs_safety`, and in the two composites among actors of one kind (workers,
officials, runs, logins) that no definition tells apart; all properties of these runs are
invariants or action properties.  `Settles` and `EverySignerSigns` speak of the behaviours in which
nothing is lost: they hold vacuously of the others, so their runs also contain those.
Deadlock is not checked: a case that is over, a queue that is empty and a list that
was read are places where the system stops; what a deadlock of connections would be is
`SomebodyGoesOn`.

## 4. Fairness

`DurableJobs`: a live process keeps going round its loop and its handlers return
(weak fairness of `Work`, `RepairRow` and the loop steps); the clock advances
(`BecomesDue`, `LeaseRunsOut`); a row that is claimable again and again is
claimed (strong fairness of claiming it by some worker), because every worker
polls all tenants in every round.  Callers, crashes and stalls owe nothing.

`SigningCase`: jobs are run (what `DurableJobs` promises while attempts last),
open transactions end, and the provider's webhook reports a completed session.
`Admission` gets strong fairness because it waits for a lock that others take
and release; PostgreSQL queues lock requests.  Officials, signers and the
provider owe nothing: no property assumes that anybody signs.

`RevisionChain`: handlers return, jobs that failed are retried
(strong fairness of `Read`), artifacts get validated.  A real row has only so many
attempts; the liveness properties are therefore claims about what retrying can
achieve, and the refuted ones fail with any number of retries.

## 5. What is proved

All theorems are checked by TLAPS from the specifications and the named
assumptions about constants in each module; nothing else is assumed.

`DurableJobsProofs`, for all sets of workers and rows, all limits and all
numbers of faults.  `IInv` adds `Bookkeeping` to the properties: a worker's
attempt number is at least one and at most the row's (outside provisioning), and
a handler that returned left its work.  `LeaseMatchesAttempt` is inductive with the types
alone; `AttemptsDistinct` is not: a claim must hand out a number greater than every
number still alive, and that is the second part of `Bookkeeping`.
Proved: `TypeCorrect`, `LeaseSafety`, `AttemptSafety`, `CompletionSafety`, and the
action properties `CompletionCurrency`, `DeadLetterJustice`
and `SettlementFinality`, the first two over the lemma that only the owner of
a lease settles a row.

The same module proves the refinement, `PromiseKept == Spec => KeepsPromise`: under the mapping
`PromiseOf`, every step of the runtime is a step of `JobPromise` or none.  Besides `IInv` it
needs `RowsExist`: what a worker holds, and what recovery
looks at, are rows that were enqueued.  A step is shown by what it changes of the
mapped variables: most change none, and the others are matched one by one with
`Accept`, `Start`, `CommitWork`, `Fulfil`, `GiveUp` and `Revive`.

`SigningCaseProofs`, for all signers, orders, documents, racing starts and
mishaps, in three layers.  The types.  Then `ConsentInv`: `Chain` says that a
session is opened only for a prepared intent and is completed for good before
anything is collected, which is why a late collection cannot meet an identity
that ended without its intent; with it `IntentMatchesIdentity` and
`ConsentBeforeSignature` are inductive (`ConsentMatches`, `ConsentFirst`, and the
action property `EvidenceStays`).  Then `TurnInv`: `Snapshots` says that what an
open admission has read of the others is still true, because no other admission
can be open; `Turn` that who started was invited and is not blocked; `Groups`
that a group leaves `pending` as a whole.  From these `EvidenceFirst`,
`TurnSafety`, `LastSignerKnows`, and `NextGroupInvited`, whose hypothesis is
that every group has a required signer: without it an optional signer stops the
rest (section 6).  Most steps are `Quiet`: one lemma says what that preserves, and
each step is shown to be so.

`SigningKeepsPromise` is the refinement of `SigningPromise`.  It needs the two invariants at the places where the
promise says more than the handler asks: that who arrives was not kept out by somebody before them (`TurnInv`, by the predicate
of `0036`), that who agrees was present and agrees once, and that a signature is made only after that (`ConsentInv`), and
that who becomes done in an admission has every paper admitted although the admission read the others
before (`Snapshots`).  The steps that the parties do not see, among them every crash, redelivery, poll and cancellation, leave all five
mapped variables as they are; a second delivery of an admission admits what is admitted.

`RevisionChainProofs`, for all signers, threads, policies and revisions of any length.
`Working` says what a thread carries from step to step: the revision it read
was validated, and once stored the object under the signer's key is its own.
From it `ChainTypes`, `StorageSafety`, `ContinuationSafety`; `LevelSafety`, over the lemma
`AdmittedReachesPolicy` about the operators of `PadesAdmission`; and
`OneThreadNeverForks`: with a single thread, where the guard has seen every
insert before it, there is no fork.  With two there is one (`chain_fork`).

`TurnsNeverFork` is `NoForkInTurn` for any number of threads and signers.  It needs
`TurnInv`: a signature extends what it was made of (`Extended`); a signer has one
artifact, because the second thread finds the first one's object under the key and fails
(`OneEach`, over `StoredIsRecorded`); and nobody who was waited for has signed the revision of who
waited (`TurnsKept`).  The trigger of `0021` is not enough for this, storage is what
keeps two threads of one signer apart.

The module ends with the audit chain of the control plane: `OrderedCommitsNeverFork` says what the lock of the audit
chain lacks: the chain does not fork if, in addition, events are committed in the order in which their
transactions began.  `audit_fork` is a behaviour without that order.

`BeforeSigningProofs`, for all callers, bodies, documents, contents and workers.
`AnsweredAlike` follows from `OneWorksAtATime`: who looks or works has the advisory lock, and
works only while there is no row.  `SentIsWhole` and `LastDocumentReadies` need a chain of
facts from the upload to the row, `DraftInv`: the file a worker is at is there, and an undamaged one is the
declared one (`FilesAreThere`); jobs and workers have versions (`JobsHaveDocuments`); what is ready names
what is stored (`ReadyIsStored`) and was scanned with the result that is kept
(`CleanIsScanned`); what `send()` has read is what the case has (`SendingKnows`); and of two
workers that finish, one has the audit chain head from its look at the others to its commit, so if it does
not make the case ready another document really is not (`HeadKeepsApart`).

`TenantProofs`, for all officials, runners, step lists, administrators, browsers, logins and providers.
`OnboardingInv`: each step a runner has gone past was made (`StepsAreMade`), there is one tenant from the step
that reserves its name on (`TenantIsMade`), and a request exists only of an application that
nobody can change (`RequestIsFinal`), which is why the decision and the profile still fit when
the tenant is made.  `AccountsInv`: what a call is about to write in one store is true of the others already
(`CallIsTrue`); from it `RegisterIsTrue`, and step by step `RevivedByAdminOnly`.  `FederationInv`: a request
between the consumption of its login and the end has that login for itself, and has found out
nothing about its assertion that is not so (`ProcessKnows`).

`DeliveryProofs`.  E-mail: a reminder under way is for a message that has no link yet, and revokes only links
it has seen (`RemindersAreNew`), so the link it makes is not among them.  Connections: `HoldersAreAtWork` and `OneOfEach` say who holds what, so that
whoever waits while holding waits for the queue's pool, whose holders wait for nobody; a connection has its holder's setting and a
free one has none (`SettingsAreOwn`).  Storage: who is to write is at a confirmed bucket, the memo is
asking only while somebody asks (`MemoIsTrue`), and an answered content is in its object, which a late
request cannot change (`AnsweredIsThere`).  Webhooks: while nothing is lost or replayed there is one
handler (`OneHandler`); it knows each delivery that is not over (`DeliveriesKnown`), so the last attempt leaves none
unless it ended where the event could not be signed (`CalmUnsigned`, the step `EndedIsAccounted` has to except);
even then nothing was sent there (`AcceptedKnown`), and `AcceptedOnce` needs no exception.
`PublishedWhenOver` is an action property of the one place that publishes.  Lists: what was given lies at the
cursor or before it (`GivenIsBehind`), also when the cursor is cut to milliseconds (`InMsIsBefore`), and with an exact cursor
nothing lies between the pages (`NothingIsSkipped`).

`RecordProofs`.  Key rotation: nobody writes with the new key before everybody knows it
(`NewKeyKnown`), and from the counting of the rows on nobody writes with the old one (`OldKeyLeft`).
Retention: a worker erases only what its begun run was queued for and has not gone past
(`ErasureIsDue`); from it `HoldHonoured`, and `GallringPromiseKept`, the refinement of `GallringPromise`,
where queueing, approval, the begin, the erasure of rows, the end and the holds are matched one by one and every other step
changes nothing the decision layer sees.  Archive export: a case that was exported cannot be
refused later, since only its trail and its assessments change (`RowIsTrue`, `ExporterIsDue`).
Both have types that say what their jobs may do next (`GallringJobsInv`, `ExportJobsInv`): a job that waits has an attempt left, and before the
approval, or the submission, there is none.

Evidence packages: `DamageIsSeenHolds`, for any files, any bytes and any checksum.  `ManifestVouches`: a verified package with the
manifest of the files packed holds exactly these files, whatever was done to it; `ChecksumsVouch`: so does one with their list of checksums.
`ZipInv` says that a change reaches one of three things, the manifest, the list or the rest, so two changes leave one of
them as it was packed (`ManifestKept`, `ChecksumsKept`, `RestKept`), and each of the three is enough.

`DomainProofs`, for any domains, operations and visitors.  `DomainsInv` adds three facts to the properties: evidence is
written only of what the provider has found, and an operation that goes on after its answer had a good one (`EvidenceIsReal`); what
a switch looked at still holds while nobody wrote to it (`SwitchSawActive`), which with the trigger gives `PrimaryWorks`; and a request that is being resolved was not
found before a clean invalidation (`IncidentsAreKnown`), which gives `InvalidationHolds`: what was taken out of use and out of the gateway's cache
is not in it again until it is active again.  Most operations end in `Written`, and one lemma (`WrittenKeeps`) says
what that preserves.

**The compositions.**  `BeforeSigningTypeCorrect` and `AfterSigningTypeCorrect` are about the modules that the runs check.  A step of the
composition is a step of one part and leaves the variables of the others as they are (`StepOfEveryPart`), so a behaviour of the
composition satisfies the specification of each part, and every theorem about a part holds of it.  The evidence package is the
exception: where it is not the part looked at, nothing is packed (`NothingPacked`).

**Assumptions about constants**, named in the module that declares each, and no others: sets that a null value
must not be in (`INone`, `DNone`, `ANone`, `FNone`, `Absent`, `Nothing`, `GNone`, `Null`, `Nobody`,
`NoMessage`); bounds that are numbers, and at least one audit entry in an archived trail; what was declared of an upload is some file; a pool is not empty;
`Row` and `KeyRow` are finite; a list is of one of the four kinds; the step names are all different and the four steps the handler
treats by name are among them; keys that are written once and keys of uploads are different ones; the platform's domain is none of the tenant's own;
no evidence file has the name of the manifest or of the list of checksums.  `OrderedCommitsNeverFork` assumes that `Genesis` is no event.

Some proved properties are in no run, since the runs are for what a
mutant should show: `AttemptsDistinct`, `CompletedHasEffect`, `DeadLetterIsEarned`, `SettledIsFinal` of
`DurableJobs`, `ConsentBeforeSignature`, `IntentMatchesIdentity`, `SignedHasEvidence` of `SigningCase`, `PublishedWhenOver`,
`ActiveWasProved` and `InvalidationHolds` of `TenantDomains`, `ManifestVouches`,
`OrderedCommitsNeverFork`, the type invariants of `DurableJobs`, `SigningCase` and `RevisionChain`, and
those of single parts of the composites.

Every invariant, action property and refinement that a passing run checks is a theorem.  Only model-checked is what
stands under fairness (`Settles`, `SettlesOrStrands`, `ConsentIsSigned`, `EverySignerSigns`): liveness is outside what the prover does.
That the models can do what they should is shown by the mutants: every
property of a passing run is broken by a mutant of the code's own definition.

## 6. Where the code and its documents differ

With a run each:

| Run | What happens | Who says otherwise |
|---|---|---|
| `signing_completion` | everybody has signed, and the package is refused at every attempt: it completes the case from `sent`, the transition table has no such row, and nothing moves a case to `in_progress` | `docs/utbildning/ANVANDARHANDBOK.md`: then the evidence package can be fetched |
| `chain_fork` | two signers in parallel both insert a signature of the canonical document: neither transaction sees the other | `0021`: the guard against siblings |
| `pages_skipped` | a cursor keeps milliseconds, the rows have microseconds: rows of the same millisecond as a page's last row are on no page | `docs/integration/API_INTEGRATION.md`: no offsets, because they skip rows |
| `audit_fork` | the head of the control plane's audit chain is picked by the time its transaction began: three transactions fork it, under the lock | comment at `platform-handlers.ts:210` |
| `privacy_answered` | the last transaction of an execution expects `IN_PROGRESS` in the row, which nothing wrote; the response is refused at every attempt | comment at `privacy-handlers.ts:168`; `0025` |

The findings in `PROJECT.json` quote the lines.  The following were met while modelling
and are in the models, or beside them, without a run.

**Jobs and signing.**  A worker lost during the last attempt of a job leaves it leased for
ever (`0009:459`; `docs/isms/KONTINUITET.md:48` says it is run again): the case `SettlesOrStrands` excepts.
A worker lost between storing a signed document, or a validation report, and recording it leaves an object
that the retry's bytes may not replace (`pades-handlers.ts:192`, `KONTINUITET.md:50`).  After the
race of `chain_fork`, when the trigger does see the sibling, the refused signer is shut out in the same way, so
`EverySignerSigns` asks for the one or the other of two in parallel.  An optional signer who is alone in the first group and never
answers keeps the next group uninvited, since it is invited only when somebody has signed (`pades-handlers.ts:402`; `0036:46` says optional signers
never block): `TurnIsInvited` is about cases in which every group has a required signer.  A decline closes the case, and those under way still sign
(`public-signing-repository.ts:173`; `docs/api/openapi.yaml:160`).  A BankID session that expired
cannot be followed by another, since the only intent is no longer `prepared`
(`packages/locale/src/index.ts:138` invites the signer to start again).

**PAdES.**  The policy's `allowedValidationResults` may name `INDETERMINATE`, but the handler asks for admission only
after `TOTAL_PASSED` (`pades-handlers.ts:319`).  Only level B can be recorded: the trigger of `0021:252` refuses
higher ones, after the objects are stored, and the retries then meet their own objects.  The
engine advertises level T when a time stamping authority is configured and never timestamps.

**Drafting and documents.**  `send()` may record the digest of the uploaded file for a document that became ready
between its two looks; the signing is refused later (`data-database.ts:244`; `0013:103`).  An Office file's bytes are never compared
with the declared digest, against `signing-source-upload-repository.ts:102` and
`packages/uploads/src/index.ts:44`.  A case whose last document is an Office file stays in `preparing`
(`LastDocumentReadies` excepts it), and a rejected document blocks its case.  A file name beyond 180 characters
loses its extension and is rejected at the scan, though 200 are accepted.  A signed upload link accepts further
puts until it expires, the first malware report is kept, and the PDF is downloaded again for
conversion with no comparison but that of its pages.

**After signing.**  The evidence package has no file called content, so an archive export is always refused
(`ARCHIVE_DOCUMENT_MISSING`), a refused case stays `archiving`, and nothing enqueues the export.  A
signer with protected identity (`FINGERADE_PERSONUPPGIFTER`) makes the evidence package fail for good.  Gallring: the row
transaction fails for cases that really are completed, after their objects are
gone (`Erasable`); a run may be abandoned while another worker erases it; a crash leaves it `EXECUTING`;
`archive_then_delete` deletes like the rest; the executor says that a partial execution is never reported, the handler reports
it.  An attempt to deliver an event ends with nothing recorded when the endpoint's secret cannot be decrypted, because that
is done after `claimDelivery` has committed `delivering` and outside every `try` (`webhook-handlers.ts:206`), and so it does
when the record's own transaction fails (`:264`).  On the last attempt the job is then dead, the delivery stays `delivering`,
which an operator cannot set back either (`0022:109` has no row from there to `pending`), the endpoints after it are not
asked and the event is not published; at every attempt before, these endpoints wait too.  The comment at `webhook-handlers.ts:116`
says of the last attempt that it leaves an accurate record: `EndedIsAccounted` is that promise with these cases
excepted.  An archive export whose source file has the wrong digest is dead at once and its row stays `exporting`
(`archive-handlers.ts:401`).  A rotated webhook secret is used at once: nothing reads the previous one
(`webhook-handlers.ts:206`; `0022:34`, `docs/api/openapi.yaml:203`).  `key_version` is stamped on INSERT only, so during a rolling switch an
update may leave a row that claims the old key for a new envelope, or the other way about; `TruthfulRowsReadable`
speaks of the rows whose stamp does not claim too much, while `docs/runbooks/KEY_ROTATION.md` calls the rest
impossible.  The blind indexes of privacy requests and signers differ in purpose, so a hold is never found
(`LegalHoldActive`).  Gallring jobs, webhook deliveries and onboarding lists do use offsets.

**Organisations and people.**  The first failure of a provisioning marks the application failed, and a
retry that completes it does not mark it otherwise; `retryProvisioning` then refuses.  A tenant may be activated before its
seeding is done.  Activation never re-reads readiness, the second approver's name is an input of the first, one answered
question resubmits the application, and the applicant may change the profile after the reviews, also the
deployment mode.  Nothing moves an application to the two states before activation, and nothing enqueues the
readiness, activation and certificate jobs, identity polling and case expiry.  A login looks at the membership and makes its session in a
later transaction (`authentication-repository.ts:199`, `:205`): when the account is disabled and its sessions are revoked in between (`:422`), the
session stays live, against `docs/operations/account-provisioning.md:69`.  It carries no roles while
the membership is disabled (`.../postgres/tenant-repository.ts:13`), and works again if the account is enabled before it ends.  A late invitation
with the same key repairs the membership of somebody the register calls disabled.  An OIDC token without `auth_time` is dated by `iat`,
against the validator's comment.  Where several providers are enabled, the certificate of the first is the one
that every message is checked against (`.../postgres/index.ts:280`).
An idempotency key that expired fails for ever.

**Domains.**  `set_primary_tenant_domain` looks whether the target is active without locking its row (`0010_custom_domain_operations.sql:38`): what
another operation suspends or fails before the update (`:45`) becomes primary all the same, against the trigger's own words (`:18`); it is the case
that `PrimaryWorks` excepts (`crossed`).  `remove()` asks whether the domain is primary before it calls the provider and not again
(`domain-management-repository.ts:117`): when a switch commits in between, the row's update is refused, but the provider has let go of the domain
(`docs/architecture/custom-domain-lifecycle.md:7` says the removal is blocked).  `resolve()` stores what it read before its
`await` (`packages/tenant-gateway/src/index.ts:66`), also after `invalidate()`: the case that `InvalidationHolds` excepts (`overtaken`).  All of this sleeps:
`createDomainManagementRepository` and `invalidate()` have no caller, and nothing serves
`/api/health/domain`, so today no domain but the platform's own is ever attached and no cache is told anything; the model is of what
these functions do when they are called.  The table of transitions (`packages/custom-domains/src/index.ts:24`), by which
`removed` is final, has no caller either, and a challenge revives a removed domain.  The runbook suspends a
domain before it switches the primary; of a primary domain the trigger refuses that.

## 7. Abstractions

- **Time** is facts: a lease, a link, a key or a claim is in time or is not, and may cease to be at any step.
  No property is about durations; `Listing`, `ControlAudit` and `Retention` keep as much of the clock as their order needs.
- **A transaction is one step** unless another can come between its reads and
  its writes to effect: `Admission` and the insert of an artifact are open over
  several steps, as are `send()`, the end of a canonicalisation, a reminder and the
  steps of a provisioning.  An aborted transaction is a step that did not happen.
- **Stale writes.**  `bankIdStatus` reads a status, asks the provider and writes
  the status back; the transition trigger refuses it unless the row still allows
  it, so the write is one step at the end.
- **A job that fails the same way at every attempt** becomes `dead` at once
  in `SigningCase`.  The attempts themselves are `DurableJobs`' subject.
- **Attachments** are not signed and not in `SigningCase`'s set of documents; `CaseDraft` has them as a parameter.
- **Providers' answers**, reports and verdicts are choices; a failing one costs
  a mishap.
- **Payloads, bytes, digests** are values that are the same or not.  Where a digest must tell more than a checksum
  (`EvidenceZip`), the checksum is a parameter, and the instance takes the worst.
- **Rows of other cases and tenants** do not exist, except where they interfere: in `Connections`, `Listing`,
  `ControlAudit`.  Row-level security is the tenant setting of a connection.
- Only the tenant's own steps take the audit chain's lock in `SigningCase`; other
  cases of the tenant take it too, which only delays.
- The default domain's activity is decided when its step runs, and is a choice of `Provisioning` and of `TenantDomains`.
- **Domains.**  The tenant and its environment are active and there is one process of the gateway; the syntax of host names and the choice
  of the forwarded header are left out.  What the health check of a domain answers is a choice.

## 8. What is not modelled, and the plan

Not modelled:

- **SCIM.**  Its queries cannot run: the selection of users aggregates without grouping, and `authenticate()` reads
  tables with forced row-level security outside a tenant.
- **Session refresh, break-glass grants, the code exchange of `auth-broker`**: the last has no caller; the others
  are independent of what `Accounts` keeps.
- **Expiry of sent cases and platform jobs for readiness, activation and certificates**: nothing enqueues them.
- **The wire protocols** of S3, BankID, e-mail, SAML and OIDC, the cryptography of the two Java services, the portals, SDKs and
  scripts: no state machine of the system.

What would come next:

1. `Privacy`: that an execution which ends has accounted for every store and honoured every hold, as a property of a run and a theorem.  As
   long as no row is ever `IN_PROGRESS` (`privacy_answered`) no execution ends delivered, and the property would be empty.
2. SCIM, when its queries can run.
3. Several processes of the gateway, of which each has a cache and none is told of another's invalidation.

The project keeps the number of runs small, one for each question; the proofs
fill a few modules, by subject; instances stay at two or three actors, with every fault counted by a named bound.
