# Retaia Core in TLA+

Retaia Core keeps media assets: it finds files on business storages, has agents process
them, lets people decide what is kept, and moves or purges the files. It is a PHP
application (Symfony, Doctrine) over one SQL database, PostgreSQL in development and
production. This directory holds TLA+ specifications of its protocols, TLC instances that
check them, and proofs checked by TLAPS.

    tlc -config MCJobLease.cfg MCJobLease.tla        # model-check
    tlapm JobLeaseProofs.tla                         # check proofs

Contents: [inventory](#inventory), [modules](#modules), [runs](#runs),
[findings](#findings), [proofs](#proofs), [what is left out](#what-is-left-out),
[plan](#plan).

## Inventory

What makes the system concurrent: many PHP processes (one per HTTP request) and console
commands started by cron share the database and the file storages. There is no long-lived
server state, no message queue and no optimistic lock. A SQL statement outside a
transaction commits on its own, and only `IngestStableFileEnqueueService` opens
transactions. An entity read through Doctrine stays in the process as it was read;
`flush` UPDATEs the columns that differ from the reading. `asset.fields` is one JSON column
that holds paths, the flags of finished results, the processing version and metadata.

| Component | State | Operations | Talks to |
|---|---|---|---|
| Processing jobs (`Job`, `Application/Job`) | table `processing_job`: status, lease (owner, lock token, fencing token, end), result | enqueue, list, claim, heartbeat, submit, fail | agents over HTTP; reads asset state and operation locks in its WHERE clauses |
| Results into assets (`SubmitJobAssetMutator`) | `asset.state`, `asset.fields`, derived files | apply, after the job row is completed | asset row, without lock |
| Asset mutations (`Infrastructure/Asset`) | `asset` | decide, reopen, reprocess, PATCH | operation locks (looks), asset row |
| Batch workflow (`Workflow`) | batch reports | previews, moves, decisions, purge | locks (takes), jobs (counts claims), storage |
| Operation locks (`Lock`) | `asset_operation_lock`, one active row per asset and type | acquire, release, recovery by age | workflow, watchdog command, ops endpoint |
| Ingest (`Ingest`) | `ingest_scan_file`, assets, sidecars, proxies | poll, enqueue stable files, cron tick | storage, jobs, assets |
| Outbox (`IngestOutboxMoveService`) | files, `fields.paths`, path audit | move decided files, move derived files | storage, assets |
| Idempotency | `idempotency_entry` | replay or run a POST | guards submit, fail, reprocess, purge |
| ETag preconditions | none | compare If-Match | guards asset mutations |
| Auth clients, device flow | client registry, `auth_device_flow` | start, poll, approve, deny, expire | provisioning |
| Client tokens, MCP challenges | technical access tokens, challenges | mint, rotate, revoke, challenge | registry |
| User sessions | `user_auth_session` | login, refresh, revoke | JWT |
| Password reset, e-mail, 2FA (`User`) | reset tokens, two-factor state, recovery codes | request, consume, regenerate | users |
| Derived uploads | upload sessions, derived files | init, part, complete | assets |
| Signed agent requests | nonces | consume | guards job writes |
| Agents, features, listing, storage, startup, HTTP, ops, bootstrap | views and settings | mostly reads | |

What must hold, and is hard to see to by testing, per component:

- **Jobs.** One live lease per job however late, often or out of order requests and replies
  come; a token pair works once; a finished job holds the last lease's result; rows satisfy
  the CHECK constraints; every queued job is finished in the end; a refused agent learns why.
- **Assets and workflow.** No decision before a complete review; final states only under an
  operation lock; a purged asset stays purged; no purge under a live claim; results of
  completed jobs are not lost; locks have one owner and do not outlive it for ever.
- **Ingest and outbox.** An original becomes one asset with the jobs its review needs and gets reviewed; no
  round of processing is stranded, no job is without an asset; sidecars and proxies are attached; a file is moved
  once, and the path in the row leads to it after any crash.
- **Idempotency.** One effect per key; the same answer to every retry, and an answer in the end.
- **Auth.** A device flow ends in one verdict and hands its secret out once; rotated and
  revoked secrets, tokens and sessions stop working; challenges, refresh tokens and recovery codes
  work once; nobody but the user switches the second factor.
- **Derived uploads.** One file per completed upload.

Each hazard with its line, and the properties that would catch it, is in `PROJECT.json`.

## Modules

**ExclusiveWork** (abstract). The promise of the job queue: a piece of work is in one worker's
hands at a time, changes hands only after it was returned or its lease lapsed, and is
finished once, with the result of the attempt under way.

**JobLease** (detailed). The rows of `processing_job` with all the columns the CHECK
constraints speak of. `Claim`, `Heartbeat`, `Submit` and `Fail` are the conditional UPDATEs of
`JobLifecycleWriter`; the reply is a separate step (`Reply`), as `JobRepository` builds it from a second
SELECT, and by then the row may be another agent's: `Reread` tells the agent of whatever lease is in it. The answer to a heartbeat
holds only `locked_until` and `fencing_token`, so there the agent keeps the token it has sent. `prompt` is history: the answer
came while the lease that the UPDATE of this claim or heartbeat wrote was still running.
`tickets` holds every lease an agent was told of, and any ticket may be presented at any
time, again and again: that is what retries, duplicates and delays amount to. `LoseReply` is a
reply that never arrives or a server that dies before it, `AgentCrash` an agent that forgets,
`Refused` a request that is answered 409 or 423 (which of the two is not told apart: neither tells of a lease). Operation locks and purges appear as
what the claim's WHERE clause sees of them. A lock token, 16 random bytes, is the
claim's position in the history `grants`, so it is unique. The clock `now` counts seconds and is
read with the UPDATE: in the code each process reads it just before, and a
statement that waits for a row lock compares a clock that is a little behind, which only makes it
more cautious on claims and lets a report in that began in time. Clocks of several servers are taken to agree.

**JobLeaseFair**. JobLease with the fairness under which jobs are finished (see *Runs*).

**AssetWorkflow**. Everything that writes an asset row at the same time. A request is a
record: what it read, what it wants, its next step. Its steps are those of the code: read,
test the locks, count the claims (purge), acquire, delete the files, write, release. `Saved` is
Doctrine's flush: the state column is written if the request changed it, the column
`fields` if the request changed anything in it, both computed from the row AS IT WAS READ.
`Submit` completes the job row, then `LoadForResult` and `Write` put the result into
the asset. `Edit` is decide, reopen and PATCH; `Crash` kills a process at any step and leaves its lock behind
as an `Orphan`; `Watchdog` is `app:locks:watchdog-recover` and `POST /ops/locks/recover`. Job leases
are at the level of ExclusiveWork here. Two variables are history: `reviewed`, the assets whose complete profile was once
written, and `spoilt`, the assets of which a submit died before its write or whose `fields` were written over by somebody
who had not read what he replaced (`Overwrites`). Correspondences worth knowing:

- `MOVE_QUEUED` is entered and left in memory within one flush, so no row ever holds it
  (`NeverQueued` is part of the proved invariant).
- `transcribe_audio` and `suggest_tags` are never queued by any code, so they are not among
  the job types.
- A batch is one request per asset. Between the reading of its list and its work on an
  asset, any other step may happen, which is what the list's age amounts to.
- PATCH `fields` is taken not to carry the bookkeeping keys (`facts_done`,
  `review_processing_version` and the like). The validator accepts any array; a client that
  sent them would rewrite them.
- An If-Match header is compared with the row the same request has just read, so it refuses
  some requests and closes no window between reading and writing.

**Outbox**. The files of assets on the storage (`at`, `derivedAt`), the paths their rows give
(`row`, `derivedRow`), and everybody who changes either. A process of
`app:ingest:apply-outbox` is a record: the list it read, the asset it is with, its next step
and the target it chose. In a cron tick one process, with one identity map, polls, enqueues and applies:
`findOrCreateAsset` is the reading of an asset while it enqueues, and `apply`, the list query, leaves what was read then as it
was, state and path included, however old. `Look` is the first half of `processAsset` with the
search for a free name, `Move` the rename, `moveForAsset` and `UpdateDerived` the derived file and
its row, `persistPathUpdate` the new path; between any two of these the process may die (`Crash`) and
everybody else may act. `SetState` stands for decisions, their moves and reopenings, `ReadFields` and
`WriteFields` for whoever saves the column `fields` as it was read, the `Purge...` actions for a purge
past its lock, which the outbox does not look at. What to know:

- A path is a folder (`ARCHIVE`, `REJECTS`, or the place below `INBOX`, where every asset has its own), a
  base name and the suffixes added to it. Base names of different assets may be equal.
- A derived file is named by the folders that were put in front of `.derived/<uuid>/...`. One stands for all of an asset.
- `Move` is a rename that replaces its target, as the local adapter of Flysystem does it.
  On a share that refuses to do so, an overwriting move is a `MoveFails`.
- The states of an asset are reduced to what the outbox tells apart, and `SetState` reads and writes at once:
  the races on the column `state` are those of AssetWorkflow.
- `disturbed` is history. It records the assets for whom the steps of several parties did not fit
  together and the next tick cannot repair it: a process that died (or whose UPDATE failed) after a move to a suffixed
  name, a reopening or a stale write of `fields` around a move, a purge beside a move or cut off
  half way. Properties speak of assets none of whose namesakes is disturbed (`Undamaged`).

**Idempotency**. `IdempotencyService::execute` around the handlers it guards, by concurrent processes. A request is a
record: `violationResponse` (If-Match, before anything else), `Lookup` (the SELECT: on to the handler, the stored answer, or 409),
the handler, `Insert` and `Respond`. The handler of submit and fail is one conditional UPDATE (`Report`, which JobLease has in
detail); reprocess decides on the entity the precondition loaded (`Reprocess`) and writes it whatever the row has become (`Save`).
A row is what a tag is made of and what the handlers ask: whether it is `open` to the effect, its version and its second. Any key can be sent again at any time with any body
and any tag of the past; a process can die at each step and an answer get lost (`Crash`).
`Work` maps a claimed job to ExclusiveWork, the specification JobLease implements: what any number of requests do to the job
is a report of the attempt under way, a lapse of its lease, or nothing (`ReportsAreWork`).
`torn`, `overlapped` and `spent` are histories that name the cases the code does not cover: a death between effect and
entry, two requests that found no entry, and a tag with which the key took effect.

**IngestScan**. From files in the INBOX to assets under review. `Poll` is the poll of a tick and the list it enqueues from;
each file is then one transaction: `Original`, `Sidecar`, `UselessProxy`, or - with the move on the storage in the middle of it -
`Materialize` and `Attach`. `Commit` is its end: when one of the jobs exists already, PostgreSQL has aborted the
transaction although `enqueuePendingIfMissing` caught the exception, so everything is rolled back and the file is noted as
missing. (On SQLite, which the tests use, the transaction goes on; the model follows PostgreSQL, which development and production use.)
What a rollback does not reach is `tick.known`, the identity map of the process. `Report`, `Reprocess`, `Archive` and `Requeue`
are the other writers, at the level the properties need: AssetWorkflow and Outbox have their steps. What to know:

- The statuses discovered, queued and missing are one: any poll turns them into stable alike.
- The enqueue limit is taken not to be below the poll limit (both default to 100): a tick reaches every file it lists.
- `generate_thumbnails` and `generate_audio_waveform` are queued whenever `extract_facts` is; it stands for them.
- A file that comes is empty at first and is written on up to `LastStamp` times, while ticks look.

**DeviceFlow**. One flow, from `startDeviceFlow` (`Init`) on. A request reads the row (`Poll...`, `Approve`, `Cancel`) and writes
later: Doctrine updates the columns that differ from its reading, so a poll writes `last_polled_at` alone and a verdict its status (`Update`,
`saveStatus`). Deletion comes before the answer with the secret. Time is relative: the age of the last poll up to the interval, and whether the flow has expired.

**ClientTokens**. Agents with secrets, MCP clients with fingerprints, one token row for each client.
`TechnicalAccessTokenRepository::save` is a look (`findToken`) and an UPDATE or INSERT; a rotation saves the secret, then deletes
the token; a challenge is read (`TakeChallenge`), marked (`useChallenge`) and then worth a token. Keys, labels and
signatures are not distinguished beyond the fingerprint. `late` marks a mint that had found its client before the deletion.

**UserAccess**. One user's row of the second factor and the sessions of the account. Every operation reads the row, works on a copy and
saves all of it (`Work`, `save`); enabling and redrawing codes go on with a second reading (`regenerate`). Logging in
opens a session with a pair of tokens; `refresh` replaces the pair if the row is still there; revocations delete one row after the other.
Two codes of each set stand for ten. A one-time password is right if it fits the secret that was read. `validate`
writes `last_used_at`, which nothing decides on, and is left out.

**JobLeaseProofs, AssetWorkflowProofs, OutboxProofs, IdempotencyProofs, IngestScanProofs, DeviceFlowProofs,
ClientTokensProofs, UserAccessProofs**: see *Proofs*.
**MCJobLease, MCJobLeaseFair, MCAssetWorkflow, MCOutbox, MCIdempotency, MCIngestScan, MCDeviceFlow, MCClientTokens,
MCUserAccess**: instances for TLC.

Definitions named `X_Something` that precede a definition `X` and are marked *Mutant* are
plausible mistakes in `X`; each property of the runs fails when one of them takes its place.

## Runs

| Run | Checks | Instance | States |
|---|---|---|---|
| `job_lease` | `TypeOK`, `RowConstraints`, `LeaseExclusion`, `NoReplay`, `ResultFromLastLease`, `RefusalsAreFinal`, `WorkSpec` | 2 agents, 1 job, 3 claims, 1 renewal per lease, Ttl 1, 5 seconds, 1 disruption | 374 526 |
| `job_lease_fair` | `EveryJobSettles` | 2 agents, 1 job, 3 claims, 2 disruptions | 446 374 |
| `asset_workflow` | `LockOwnership`, `ReviewedBeforeDecision`, `ResultsAreKept`, `FinalStatesUnderLock`, `PurgeIsFinal` | 1 asset, 2 requests at a time, facts outstanding, 2 processing rounds | 622 620 |
| `asset_locks` | `LocksAreFreed` | 1 asset, 2 requests at a time, 1 round | 54 947 |
| `outbox` | `PathLeadsHome`, `MovesOverwriteNothing`, `FilesArrive` | 2 assets with one base name, 1 derived file, 1 process, room for 1 of each state on its list, 1 suffix and 1 folder fit, 2 events | 363 648 |
| `idempotency` | `OneAnswer`, `OnceAndTruthful`, `TagsGuard`, `ReportsAreWork`, `RetriesAreAnswered` | 2 processes, 2 keys (one too long) for one job or asset, 2 bodies, 3 seconds, 2 versions, 1 event | 743 876 |
| `ingest` | `NothingIsStranded`, `JobsHaveAnAsset`, `StaleSavesAreMadeGood`, `OriginalsAreReviewed` | 1 original with sidecar and proxy, poll limit 2, 2 versions, 1 event | 705 989 |
| `device_flow` | `TypeOK`, `OneShotSecret`, `NoOrphanClients`, `DenialHolds`, `ApprovedIsDelivered` | 2 requests at a time, 2 clients, interval 2, 1 death | 237 136 |
| `client_tokens` | `OldSecretsAreOver`, `OneTokenPerChallenge`, `FingerprintsAreUnique` | 2 requests at a time, 1 agent, 2 MCP clients, 2 fingerprints, 1 challenge, 2 rotations, 1 death | 1 736 954 |
| `user_access` | `TypeOK`, `OneShotCodes`, `OldCodesAreOver`, `SwitchedOnPurpose`, `RevokedIsOver`, `OneRefreshPerToken` | 2 requests at a time, 2 sessions, 2 sets of 2 codes, 3 pairs, 1 key rotation or death | 2 524 318 |
| `results_lost` | `ResultsReachTheAsset`, violated | as `asset_workflow`, smaller | |
| `ingest_late_sidecar` | `SidecarsAreAttached`, violated | as `ingest`, one version, no events | |

`TypeOK` of AssetWorkflow, Outbox, Idempotency, IngestScan and ClientTokens is in no run: it is proved (see *Proofs*).

*Bounds.* Jobs meet only through operation locks of their asset, so one job shows the races;
three claims show a lease, its takeover and the takeover of that; fencing tokens up to 2 show
a pair before and after a renewal; five seconds with Ttl 1 let two leases run out and a third
live. `MaxDisruptions` counts lost replies, crashes, retryable failures and acquired operation locks together.
One asset and two requests at a time are enough for every race of the workflow between two parties; the
requests are not bounded in number, only in how many are under way. `MaxVersion` bounds reprocessing.
Only the kind `extract_facts` is outstanding, the other flags being there: the state moves
when the last of them comes in. Requests are interchangeable, as are MCP clients,
fingerprints, sessions and the codes of a set: they are symmetry sets where no liveness is checked. The proofs need none of these bounds, nor any cardinality.
Files meet only by name, so two assets with one base name show the collisions; one suffix and one
folder that fit let the second of each fail, as the name and the column do after about two dozen ticks.
`MaxEvents` counts reopenings, purges, stale writes, crashes and failures together; decisions and ticks are
unbounded. A list with room for one asset of each state lets the newer of two push the older one off, which is what `limit` does to
more than 200.
Keys meet only at their target, so one target and two keys show both the races of one key and those of two; the second key is
too long for its column, which is the case without an entry. Two seconds separate an effect within its tag's second from a later one,
a third that from the effect of a newer tag. With two events and two seconds (1.3 million states) all properties hold as well.
Originals meet in nothing but the poll limit: one original, whose sidecar and proxy come and go, shows every
transaction, and a limit of 2 with a proxy that sorts before the original and a sidecar after it shows a list that is cut.
`MaxEvents` counts removals, crashes,
storage failures and requeues.
Of a device flow two requests at a time show each race of two parties, and two clients that of two approvals. Of
tokens, one agent is enough, two MCP clients compete for two fingerprints, and two rotations let a token be two secrets old.
Of a user, two sets of two codes (ten in the code) show old and new, and three pairs a login, a refresh and the refresh of that.
A system whose bounds are used up may stop, so deadlock is not checked.

*Fairness of `JobLeaseFair`.* A process that has done its UPDATE reads and answers (weak fairness
of `Reply`, unless the reply is lost, which happens a bounded number of times). Agents poll in a loop and report what they finish: strong
fairness of claiming a job and of finishing, since a request of another party may come in
between and disable theirs for a moment. Agents renew long before the 300 seconds are over: `TimelyTick` lets a lease run
out only if nobody attends to it. Locks of moves and purges are released by their `finally`
block or by the watchdog. Retryable failures and crashes are bounded by `MaxDisruptions`: the code
has no retry limit, and an agent that fails for ever is never done. Seconds are counted while some
lease runs; `MaxTime` is large enough for every lease of the run to end, so that the bound on
the clock never is what stops a job, and `MaxTokens` exceeds the disruptions by one for the same reason.

*Fairness of `AssetWorkflow`.* A process goes on until it answers or dies (weak fairness of `Proceed`);
cron runs the watchdog (weak fairness). The threshold of the watchdog (30 minutes by default) is assumed longer
than any move or purge runs: `Stale` says so. With a smaller threshold, which the
command's option allows down to a minute, a live lock could be freed and `LockOwnership` would fail.

*Fairness of `Outbox`.* Cron starts the command when the last process is gone, and a process goes on down
its list until it dies (weak fairness of both). Crashes and failures are events, so finitely many.
`FilesArrive` speaks of assets that are on the list and stay on it until they have arrived. Newer ones may push an asset off for good
(see *Findings*), and a process that has read a state that is gone by then takes the file to the wrong folder first; a later tick takes it on.

*Fairness of `Idempotency`.* A process goes on with its request (weak fairness of `execute` for each), and a client that has no answer sends again
(strong fairness of `Retry`, as processes are busy at times). Deaths and lost answers are events, so finitely many.
`RetriesAreAnswered` speaks of job reports, whose body is always the same; a reprocess that is refused by its tag is answered 412 and not retried.

*Fairness of `IngestScan`.* Cron ticks (weak fairness of `Poll`), a tick goes down its list (weak fairness of
`processStableFile`), and agents do their jobs (weak fairness of all `Report`s together: JobLeaseFair shows that queued jobs are done).
Reprocesses are bounded by `MaxVersion`; without a bound they could keep an asset from ever being reviewed.

*Fairness of `DeviceFlow`.* Requests go on (weak), time passes (weak), and the device polls again and again, sooner or later at a moment when it
is not too early (strong fairness of `Poll`). ClientTokens and UserAccess promise no liveness and have no fairness.


## Findings

1. `results_lost`. The job is completed in one statement and its result applied in later ones.
   A crash in between, or another writer of `fields`, loses the result for good: no retry is
   accepted and the profile never completes. The guide asks for flows that resume after a crash. `ResultsAreKept` bounds the
   damage: results are lost in these two ways and in no other.
2. `ingest_late_sidecar`. A sidecar that becomes stable after its original was enqueued is never attached. Its path is saved, then
   the jobs of the asset are found to exist, the caught unique violation has aborted the transaction, and everything is rolled back: the
   sidecar, which lies in the INBOX, is noted as missing, at every tick again. The tests run on SQLite, where the
   transaction survives the violation.

Known deviations, which the models show but no run is about (the properties say what holds in spite of them):

- `ResolveJobLockConflictCodeHandler` looks at the row after the refusal. If the job was taken over and
  meanwhile completed, the old holder is told `LOCK_INVALID` (423); the guide promises `STALE_LOCK_TOKEN` (409).
- The answer to a claim or a heartbeat is built from a second SELECT. If the lease has run out and was granted again in between, a claim is
  answered with the other agent's token, and the answer to a heartbeat gives the old token the end of the new lease: two agents believe that the
  job is theirs. `LeaseExclusion` therefore speaks of prompt answers. Nothing comes of it in the row: every request of the first
  agent with its own token is refused (`RefusalsAreFinal`), and no request is accepted for an agent the row does not name.
- decide, reopen, reprocess and PATCH test the locks and write later, without one. A purge in between is
  overwritten: the asset is back in `DECISION_PENDING` (or `READY`) with its files deleted. Only a request that read the
  asset before the purge does that: once none is left, `PurgeIsFinal` holds.
- A purge counts claims before it takes its lock. A claim in between survives, against "Purge refusée si un job est encore claimé".
- An archived file is listed again at the next tick, finds its own name taken and is renamed to the next suffix; its derived
  files go one folder deeper, until `storage_path` has outgrown its 255 characters and the UPDATE fails after both
  files were moved: the new path of the original is not saved, and no later tick looks for a suffixed name.
  (`UpdateDerived` records this as damage, which `PathLeadsHome` and `FilesArrive` excuse.)
- Two overlapping ticks find the same name free, and the second move replaces the first file. The README's
  crontab has no lock; the Docker image runs one tick after the other and is safe (`NothingOverwritten`).
- The outbox lists the newest `limit` assets of each state and never gets shorter: with more than `limit` archived assets the
  older ones stay in the INBOX (`FilesArrive` excuses an asset that is pushed off). `applyMoves` likewise asks for 500 assets and is given the newest 200.
- A refusal that is stored under a key may not be the truth when two requests with it overlapped, or the first one died between
  effect and entry: every retry is then told it was refused. A key longer than 128 characters takes effect and is answered 500.
- A cron tick that met an asset while it enqueued a late sidecar or proxy moves the file by the state and path it read then: an asset that was reopened
  and decided the other way goes to the folder of the old decision, and on to the right one with a later tick.
- A reprocess from `ARCHIVED` makes a round that no tick queues jobs for, as the original has left the INBOX; requeueing inserts jobs of version 1 whatever
  the asset's version. A name that is used again in the INBOX after the first file was archived is that asset's,
  whose jobs exist, and is never ingested.
- Ingested assets are `DISCOVERED`, which results leave alone: nothing but a reprocess takes them to review.
- A stable sidecar or proxy beside an original that is still being copied makes its asset and queues its jobs.
- If a tick moves a proxy and its transaction fails afterwards - a sidecar was processed first, and the jobs exist - the file stays in `.derived`
  without a row. If the move itself fails, the asset that was rolled back stays in the identity map, and the asset's next file
  queues jobs without a row, which no later tick makes good (`JobsHaveAnAsset` leaves that case out).
- Two approvals of one pending flow both provision: one client's secret is overwritten, or deleted with the row. A verdict overwrites the other's.
- A mint that read its client before a rotation and saves after it leaves a token of the old secret until the next
  mint, rotation or revocation; a rotation that dies half way leaves one too. `rotateKey` of an MCP client keeps its token.
- Two challenges answered at once, two registrations of one fingerprint, two logins with one recovery code and two
  refreshes with one token each may both succeed, when both requests read before either wrote (of two
  refreshes one pair is dead on arrival).
- A slow save of the second factor writes the whole row as it was read: it can bring consumed codes back or undo a disable.

## Proofs

TLC checks the instances above; the theorems hold for every set of jobs, assets, agents and
requests and every value of the bounds, under the assumptions named in the modules: `ConstantsAssumption` (a job
has an asset, `NULL` is no agent and no number, `Ttl` and `MaxFencing` are positive),
`WorkflowAssumption` (model values are distinct and no records, queued kinds are job types, no asset starts in `MOVE_QUEUED`),
`OutboxAssumption` (`NULL` is no value of any type, no asset is a folder, no two assets are equally old),
`IngestAssumption` (a file is an original's or lies beside one, no two paths sort alike, `NULL` is no value), and
`IdempotencyAssumption`, `DeviceFlowAssumption`, `ClientTokensAssumption`, `UserAccessAssumption` (`NULL` is no value, bounds
are numbers, an interval is positive, secrets and fingerprints differ).

**JobLeaseProofs.** `Coherent` (types and row constraints) is inductive by itself: `TypeCorrect`,
`RowsMeetConstraints`. `LeaseExclusion` and `NoReplay` are not inductive: nothing in them
relates a ticket in an agent's hands to the row. `LeaseInv` does, in four parts: a claimed row
carries the last grant of its job (`GrantInv`); a ticket of the lease in the row promises no more time and no later fencing than the row has,
and a prompt ticket is of a lease that was granted to its agent and is in the row, was returned, or has run out (`TicketInv`); the lease of a claim or heartbeat that
still waits for a prompt answer is in the row, for its agent can do nothing else meanwhile and nobody else may claim the job (`InflightInv`);
a pair that was spent is behind the row's fencing token (`SpentInv`). The third part is what the second SELECT needs: within the lease it finds the row
of the UPDATE, after it anybody's. `LeaseInvariant` proves it with one lemma
per group of actions; `LeasesExclude` and `PairsWorkOnce` follow. `RefusedForGood` follows too: the fencing token of a lease only grows, and a token that
is no longer in the row does not come back, since claims write tokens never granted before (`NoSecondChance`).
`LastLeaseReports` adds that a finished row never changes again.

Also there, the refinement: `ImplementsWork`: every step of JobLease is a step of ExclusiveWork or
stutters. Claims are `Grant`s, reports `Report`s, and a tick of the clock `Lapse`s all leases it ends at once;
heartbeats, replies, losses, crashes and locks are invisible.

**AssetWorkflowProofs.** `WorkflowInv` adds to the properties what a request carries between
its steps (`RequestInv`: the checks it made hold of its reading, its step fits its operation, and a
reading in a reviewed state means the asset was reviewed) and `NeverQueued`. Ownership of locks
follows because a request acquires only what is free, releases only what it acquired, and dies into `Orphan`.
`WorkflowTypes`, `LocksOwned`, `ReviewFirst` and, from the same invariant, two action properties: `FinalUnderLock`, and
`PurgesAreFinal`, for which the one operation that may begin on a purged asset, the submit of a job claimed before, leaves
`PURGED` as it is (`PurgedStays`) and every other was refused by its check when it read the row.

`ResultsAreKept` speaks of moments when nobody is at work on an asset; to be inductive it must say where a result is
before. `ResultsInv` does, for every asset that is not spoilt: a completed extraction of the round the row is in has left its flag in
the row, or a submit under way will put it there, one that has yet to read the row or has read it in this round
(`FactsOnTheWay`, `Carries`); no job is of a round to come (`RoundsBehind`), so a reprocess leaves nothing to look for; a
reading of the present round has no flag that the row lacks (`ReadingsBehind`), so a submit that finds its flag in what it read, and writes
nothing, is right not to. `SavedAdds` is the heart of it: a write that overwrites nobody opens a new round or adds
to the flags of the row. The two ways to be spoilt are what is left over: a submit that dies, and a writer whose reading is not
the row. `ResultsKept`.

**OutboxProofs.** `OutboxTypes` holds for any number of processes: types, and that every path at hand carries
the base name of its asset and lies in a folder or in that asset's own place (`Owned`). The rest assumes
`OneWorker`. `MovesOverwriteNothing` needs that a name found free is still free at the move
(`TargetFree`): only moves fill names, and there is one mover. `PathLeadsHome` needs where each step of a
process and of a purge expects the files of an undamaged asset (`SafeListed`, `SafePurge`; what a tick read while it enqueued leads to the file
until a purge begins to delete, `EnqueueSafe`), that no two
assets share a file (`FilesApart`), and that a move or a deletion by path can only hit the file of
another asset if the two are namesakes, one of them disturbed (`Owned` again). `Frame` says that an asset whose files,
rows and process stay as they are stays safe; with it each action is proved for the one asset it concerns.
`OutboxInvariant`, `RowsLeadHome`, `NothingOverwritten`.

**IdempotencyProofs.** `IInv` adds to the properties: what is about to be answered is the entry (`Answers`); of the
requests of a key that is neither torn nor overlapped one at most is past its lookup, only while there is no entry, and what it did is known by its step
(`Once`); an open job has seen no effect and a closed one that of one key (`Jobs`); a spent tag lies before the row's second, so that a
request that carries it has read an older row (`Tags`). The set of running requests is the crux: `OneAnswer` holds in every case, as
the INSERT decides, whereas effects need that nobody overlapped.
`Jobs` also gives a second refinement, `ReportsAreSteps`: with the job mapped by `Work`, every step is one of ExclusiveWork or
stutters. The report that takes effect is of an open job, which has seen no effect and whose lease has not lapsed; a change by others
can only close a job; and what reprocess writes without a condition is never a job. Together with `ImplementsWork` it says that
the tokens of JobLease and the keys of Idempotency protect one and the same promise.

**IngestScanProofs.** Every step of the tick reads an entity - from the row or from the identity map, which a rollback does not
reach - and saves the whole column `fields` later, so an old reading can take results or even a reprocess back. `NothingIsStranded`
survives because of the order of jobs and rows: nothing is ever queued for a round past the row's (`JobsBehind`), and a reading that
the tick holds is no later than the row and lacks none of its results, unless its round is queued (`Follows`, for the identity map
`KnownInv`, for a transaction in the middle of its move `WorkInv`). In that case its commit meets the unique index and is
rolled back. So a save may put an asset back a round only while nothing is queued for the rounds from the entity's on, and that
round is then queued as a whole by the very commit. `IngestInvariant`, with one lemma for each action; `Committed` is the one
about the commit. `IngestTypes`, `RoundsAreWhole`, `JobsOfAssets`.

`StaleSavesRequeue` proves the action property `StaleSavesAreMadeGood`, what a single such save may take back. It needs two more
facts, inductive beside `IInv`: of a round's jobs `extract_facts` is queued first or never (`FactsFirst`), so the commit that inserts
anything inserts that; and only the tick attaches sidecars, so its own readings have those of the row (`SidecarsKnown`). Each commit is
then compared with the row it replaces (`CommitMakesGood`); all other writers only add (`OthersKeep`).

**DeviceFlowProofs.** `DeliveredOnce`: whoever is about to answer with a secret has deleted the row, and of
two such polls both had read it. `Kept`: a secret is in the row, given, or in one request's hands. `PendingIsBare`, that no status leads back to
pending, is what makes the first verdict's credentials safe from a second approval. `DeniedIsOver`: after an undisturbed denial no
request has a reason to provision or deliver, which gives the action property `DenialHolds`.

**ClientTokensProofs.** What holds of a token holds of those on their way (`Secrets`); a challenge that was used or is being used up is
taken by nobody else (`Challenges`); a fingerprint belongs to one client or to one request that will save it (`Keys`).

**UserAccessProofs.** A code that no save brought back is in the row, in the hands of one login, or used (`CodesOnce`); a pair belongs to one session and
to the request that will refresh that session, and to none once it was answered (`PairsOnce`). `Shape` says what a
request is about to save: codes that have been in the row or those it drew, and the switch as it read it unless it is
enable or disable.

Every safety property of the passing runs is proved. Only model-checked: the liveness properties `EveryJobSettles`, `LocksAreFreed`, `FilesArrive`, `RetriesAreAnswered`,
`ApprovedIsDelivered` and `OriginalsAreReviewed` (liveness under fairness and ENABLED are beyond the prover), and the violations. Facts that need
induction over data (what a recursive function computes for every input) cannot be proved with the installed provers either; none occurs so far.

## What is left out

Validation, scopes, signatures, rate limits and translations of messages happen before any state changes and
are not modelled. Reports of batches, logs and metrics are written and never read by a decision; the
one effect of metrics, an exception after a lock row was inserted, is that of a crash at that point and is covered by `Crash`.

### Not modelled

- **Password reset and e-mail verification.** Tokens in a table or in the link, one request each. `PasswordResetService` deletes the token before it saves
  the password, so a process that dies in between costs the user a new request; two resets with one token that read it
  before either deletes it both succeed. Nothing else competes for these rows.
- **Derived uploads.** One race, two completions of a session that both find it open; the sessions are read by nothing else.
- **Feature governance, app policy, listing, cursors.** Pure functions of one reading.
- **Name rules of sidecars and proxies** (`SidecarDetectionRules`, `SidecarPathResolver`). Which files belong together is a constant of IngestScan.
- **Agents, alerts, diagnostics, observability, startup, bootstrap, adapters of storages.** They read, or do I/O.

`PROJECT.json` lists every component with its status.

## Plan

1. **JobLease**, **ExclusiveWork**, **AssetWorkflow**, **Outbox** and their proofs. Done.
2. **Idempotency**, **DeviceFlow**, **ClientTokens**, **UserAccess** and their proofs. Done.
3. **IngestScan** and its proofs. Done. To come: two originals with one sidecar in one instance.
4. To come: batches over lists of 200; password reset; derived uploads.
5. To come: pure algorithms against reference definitions: feature resolution, paging, path normalisation, sidecar names.

Modules are written for proof: no RECURSIVE operators, constants with named assumptions, invariants as conjunctions
of named parts.
